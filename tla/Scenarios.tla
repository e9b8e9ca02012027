------------------------------ MODULE Scenarios -----------------------------
(***************************************************************************)
(* Small configurations for model checking the input path.  Keys, devices  *)
(* and actions are strings; "rmeta" is the second key of the logical LOGO. *)
(***************************************************************************)

Key(codes, values) == [type : {"key"}, code : codes, value : values]
Other(types) == [type : types]

OneKeyboard == {"kbd"}
TwoKeyboards == {"kbd", "pad"}
MCHold == {"remap:1", "remap:2"}
OneHold == {"remap:1"}
MCAction == {"short", "long"}
MCModifier == {"LOGO"}

Names(codes) == [c \in codes |-> IF c \in {"meta", "rmeta"} THEN "LOGO" ELSE c]

Prefix(keys, bindings) ==
    [keys |-> keys, mode |-> "action", target |-> "meta", bindings |-> bindings]
Remap(keys, mode, target) ==
    [keys |-> keys, mode |-> mode, target |-> target, bindings |-> <<>>]

(* A prefix, with a binding that keeps the prefix's modifier held, and a    *)
(* held remap of the same modifier onto a key of the keyboard.              *)
ChordCode == {"meta", "t", "home"}
ChordLogical == {"LOGO", "t", "home"}
ChordCanonical == Names(ChordCode)
ChordSources ==
    <<Prefix({"LOGO", "t"}, <<[keys |-> {"t"}, action |-> "short"],
                              [keys |-> {"LOGO", "t"}, action |-> "long"]>>),
      Remap({"LOGO", "home"}, "hold", "t")>>
ChordInput == Key(ChordCode, {0, 1})

(* The smallest prefix: a modifier alone, then one key.                     *)
SoloCode == {"meta", "one"}
SoloLogical == {"LOGO", "one"}
SoloCanonical == Names(SoloCode)
SoloSources == <<Prefix({"LOGO"}, <<[keys |-> {"one"}, action |-> "short"]>>)>>
SoloInput == Key(SoloCode, {0, 1})

(* A prefix whose second binding needs two keys more than the first one.    *)
OverlapCode == {"meta", "one", "two", "three"}
OverlapLogical == {"LOGO", "one", "two", "three"}
OverlapCanonical == Names(OverlapCode)
OverlapSources ==
    <<Prefix({"LOGO"}, <<[keys |-> {"one"}, action |-> "short"],
                         [keys |-> {"one", "two", "three"}, action |-> "long"]>>)>>
OverlapInput == Key(OverlapCode, {0, 1})

(* A held remap of a modifier with two keys, with repeats, scan codes and   *)
(* LED events.                                                              *)
ReserveCode == {"meta", "rmeta", "home"}
ReserveLogical == {"LOGO", "home"}
ReserveCanonical == Names(ReserveCode)
ReserveSources == <<Remap({"LOGO", "home"}, "hold", "home")>>
ReserveInput == Key(ReserveCode, {0, 1}) \cup Key({"meta", "home"}, {2})
                  \cup Other({"msc", "led"})

(* A held and a tapped remap of one modifier onto each other's keys.        *)
RemapCode == {"meta", "home", "end"}
RemapLogical == {"LOGO", "home", "end"}
RemapCanonical == Names(RemapCode)
RemapSources == <<Remap({"LOGO", "home"}, "hold", "end"),
                  Remap({"LOGO", "end"}, "tap", "home")>>
RemapInput == Key(RemapCode, {0, 1}) \cup Other({"msc"})
=============================================================================
