------------------------------ MODULE MCDebugLog ------------------------------
(* The debug log for TLC: programs and the formats they use.               *)
EXTENDS DebugLog, TLC

MCSymmetry == Permutations(Thread) \cup Permutations(Port)

Items(conv, flags, width, precision, long, args) ==
  {[conv |-> conv, flags |-> flags, width |-> width, precision |-> precision,
    long |-> long, arg |-> a] : a \in args}

MCFlags  == {{}, {"ZEROPAD"}, {"LEFT"}, {"PLUS"}, {"HEX_PREP", "ZEROPAD"},
             {"LEFT", "ZEROPAD"}, {"SPACE"}, {"HEX_PREP"}}
MCWidths == {<<>>, <<1>>, <<4>>, <<-4>>}
MCPrecs  == {<<>>, <<0>>, <<3>>}
MCInts   == {0, 2^(IntBits - 1) - 1, 2^(IntBits - 1), 2^IntBits - 1}
MCLongs  == {0, 2^(LongBits - 1) - 1, 2^(LongBits - 1), 2^LongBits - 1}

MCRaw ==
  UNION {Items(c, f, w, q, FALSE, MCInts) :
           c \in {"d", "x"}, f \in MCFlags, w \in MCWidths, q \in MCPrecs}
  \cup UNION {Items(c, f, w, <<>>, TRUE, MCLongs) :
           c \in {"d", "u", "o"}, f \in MCFlags, w \in MCWidths}
  \cup UNION {Items(c, f, w, q, FALSE, IF c = "s" THEN {NullString, 0, 2} ELSE {0}) :
           c \in {"c", "s"}, f \in {{}, {"LEFT"}}, w \in MCWidths, q \in MCPrecs}
  \cup UNION {Items("p", {}, w, <<>>, FALSE, {0, 2^LongBits - 1}) : w \in MCWidths}
  \cup UNION {Items(c, {}, <<>>, <<>>, FALSE, {0}) : c \in {"i", "X", "A", "%", "", "z"}}

MCIsr ==
  {[conv |-> c, zero |-> z, width |-> w, arg |-> a] :
     c \in {"d", "u", "x", "b"}, z \in BOOLEAN, w \in {<<>>, <<2>>, <<5>>, <<1, 0>>}, a \in MCInts}
  \cup {[IsrPlain EXCEPT !.conv = c, !.arg = a] :
          c \in {"s", "c", "%", "z"}, a \in {NullString, 2}}

\* Programs that only print, with every conversion; programs that only dump;
\* and one that makes all calls.
MCPrograms ==
  {[ops |-> {"print"}, raw |-> {it}, dump |-> {}, isr |-> {}] : it \in MCRaw}
  \cup {[ops |-> {"dump"}, raw |-> {}, dump |-> {n}, isr |-> {}] : n \in 0 .. 5}
  \cup {[ops |-> {}, raw |-> {}, dump |-> {}, isr |-> MCIsr]}
  \cup {[ops |-> Ops, raw |-> {Plain}, dump |-> {0}, isr |-> {IsrPlain}]}
=============================================================================
