------------------------------- MODULE Keymap -------------------------------
(***************************************************************************)
(* The compiled configuration of eakd (internal/config) and the naming of  *)
(* keys (internal/keycode), shared by every module of the input path.      *)
(*                                                                         *)
(* A physical key is a Code of a Device.  Canonical folds the left and the *)
(* right modifier into one Logical key.  Sources is cfg.Prefixes: action   *)
(* prefixes followed by remaps, in the order the configuration lists them. *)
(***************************************************************************)
EXTENDS Naturals, FiniteSets, Sequences

CONSTANTS
    Device,             \* grabbed keyboards (input.Frame.Device)
    Code,               \* evdev key codes
    Logical,            \* keycode.Logical values
    Modifier,           \* the logical CTRL, SHIFT, ALT, LOGO
    Canonical,          \* keycode.Canonical, a function Code -> Logical
    Sources,            \* cfg.Prefixes
    ReservedModifiers,  \* cfg.ReservedModifiers
    Action,             \* opaque action IDs
    TapDevice,          \* the virtual owner "eakd-remap"
    HoldDevice,         \* the virtual owners "eakd-remap:<n>"
    NoDevice            \* the empty device name

(* Everyone who may hold a key of the virtual keyboard down.               *)
Owner == Device \cup {TapDevice} \cup HoldDevice

IsLogicalModifier(key) == key \in Modifier

IsPhysicalModifier(code) == Canonical[code] \in Modifier

-----------------------------------------------------------------------------
(* One entry of cfg.Prefixes: a chord and what completing it does.         *)
Binding == [keys : SUBSET Logical, action : Action]
Source == [keys : SUBSET Logical, mode : {"action", "tap", "hold"},
           target : Code, bindings : Seq(Binding)]

Keys(i) == Sources[i].keys

(* What compile accepts of one prefix: a chord with a modifier and at      *)
(* least one binding, no two of them the same chord.                       *)
ValidPrefix(s) ==
    /\ s.keys \cap Modifier # {}
    /\ Len(s.bindings) > 0
    /\ \A b \in DOMAIN s.bindings : s.bindings[b].keys # {}
    /\ \A b, c \in DOMAIN s.bindings :
          s.bindings[b].keys = s.bindings[c].keys => b = c

(* What compile accepts of one remap: a modifier and another key, sent to  *)
(* a key that is not a modifier.                                           *)
ValidRemap(s) ==
    /\ s.keys \cap Modifier # {}
    /\ s.keys \ Modifier # {}
    /\ ~IsPhysicalModifier(s.target)

(* The checks of compile as a whole: no source chord is contained in       *)
(* another one, and a reserved modifier occurs in some source.             *)
Compiles ==
    /\ Len(Sources) > 0
    /\ \A i \in DOMAIN Sources :
          IF Sources[i].mode = "action" THEN ValidPrefix(Sources[i])
                                        ELSE ValidRemap(Sources[i])
    /\ \A i, j \in DOMAIN Sources : Keys(i) \subseteq Keys(j) => i = j
    /\ ReservedModifiers \subseteq Modifier
    /\ \A key \in ReservedModifiers :
          \E i \in DOMAIN Sources : key \in Keys(i)

(* A code is a number of 16 bits.                                          *)
ASSUME KeyAssumption ==
    /\ IsFiniteSet(Code)
    /\ Modifier \subseteq Logical
    /\ Canonical \in [Code -> Logical]

ASSUME SourcesAssumption ==
    /\ Sources \in Seq(Source)
    /\ Compiles

(* Device names come from the kernel ("/dev/input/event*"): no physical    *)
(* device is called like a virtual owner.                                  *)
ASSUME OwnerAssumption ==
    /\ IsFiniteSet(Owner)
    /\ Device \cap HoldDevice = {}
    /\ TapDevice \notin Device \cup HoldDevice
    /\ NoDevice \notin Owner
=============================================================================
