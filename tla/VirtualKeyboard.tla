--------------------------- MODULE VirtualKeyboard ---------------------------
(***************************************************************************)
(* What the virtual keyboard promises the display server: a key is down    *)
(* exactly while some owner holds it.  Owners are the grabbed keyboards    *)
(* and the remaps; they press and release keys independently.              *)
(***************************************************************************)
CONSTANTS Owner, Code

VARIABLES
    holding,    \* pairs <<owner, code>>
    pressed     \* the keys the display server sees down

keyboardVars == <<holding, pressed>>

Union(pairs) == {c \in Code : \E o \in Owner : <<o, c>> \in pairs}

Init == holding = {} /\ pressed = {}

(* One owner replaces the set of keys it holds; nobody else is affected.   *)
Hold(o, keys) ==
    /\ holding' = {h \in holding : h[1] # o} \cup ({o} \X keys)
    /\ pressed' = Union(holding')

(* The device is destroyed: the kernel releases every key.                 *)
Destroy == holding' = {} /\ pressed' = {}

Next == Destroy \/ \E o \in Owner, keys \in SUBSET Code : Hold(o, keys)

Spec == Init /\ [][Next]_keyboardVars
=============================================================================
