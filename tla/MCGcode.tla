------------------------------ MODULE MCGcode ------------------------------
(***************************************************************************)
(* Lines of g-code for TLC: commands alone and with an axis word, the      *)
(* combinations that set coordinate data or interact, and a few jogs.      *)
(***************************************************************************)
EXTENDS Gcode

Alone == {"G20", "G28", "G28.1", "G55", "G91", "G92.1", "M3", "M30"}
WithTarget == {"G0", "G20", "G28", "G55", "G91", "G92", "M3"}

Of(C, W) == {[cmds |-> c, words |-> w] : c \in C, w \in W}
Line(c, w) == [cmds |-> c, words |-> w]

MCLines ==
  Of({{c} : c \in Alone}, {{}})
  \cup Of({{}} \cup {{c} : c \in WithTarget}, {{<<"X", 1>>}})
  \cup {Line({"G0"}, {<<"X", 2>>}), Line({}, {<<"S", 1>>})}
  \cup Of({{"G1", c} : c \in {"G53", "G92.1", "M3", "M30"}} \cup {{"G38.2"}, {"G38.3"}},
          {{<<"X", 2>>, <<"F", 1>>}})
  \cup {Line({"G38.2"}, {<<"X", 1>>, <<"F", 1>>}), Line({"G2"}, {<<"X", 2>>, <<"I", 1>>, <<"F", 1>>})}
  \cup Of({{"G55", "G28"}, {"G55", "G92"}}, {{<<"X", 1>>}})
  \cup Of({{"G10"}}, {{<<"L", l>>, <<"P", p>>, <<"X", 1>>} : l \in {2, 20}, p \in {2, 257}})
  \cup Of({{"G10"}, {"G10", "G55"}}, {{<<"L", 20>>, <<"P", 0>>, <<"X", 1>>}})
  \cup {Line({"G10", "G55"}, {<<"L", 20>>, <<"P", 1>>, <<"X", 1>>})}

MCFeedLines == Of({{"G93"}, {"G20"}, {"G20", "G94"}}, {{}, {<<"F", 1>>}})
MCJogLines ==
  Of({{}, {"G55"}}, {{<<"X", 1>>, <<"F", 1>>}})
  \cup {Line({"G91"}, {<<"X", -1>>, <<"F", 1>>}), Line({}, {<<"F", 1>>})}
MCSystems == <<"G54", "G55">>
=============================================================================
