------------------------------ MODULE Forwarder ------------------------------
(***************************************************************************)
(* linuxinput.Forwarder: reference counts of the keys that each owner has  *)
(* forwarded, and the virtual uinput keyboard it writes to.                *)
(*                                                                         *)
(* virtual is external: the kernel's idea of the keys of the uinput device *)
(* that are down, as the writes of the forwarder leave it.                 *)
(***************************************************************************)
EXTENDS Keymap

VARIABLES
    down,       \* f.down: the keys each owner holds
    entries,    \* the owners that have an entry in the map f.down
    counts,     \* f.counts
    virtual     \* external: keys of the virtual keyboard that are down

forwarderVars == <<down, entries, counts, virtual>>

ForwarderInit ==
    /\ down = [o \in Owner |-> {}]
    /\ entries = {}
    /\ counts = [c \in Code |-> 0]
    /\ virtual = {}

(* Mutant: any holder writes the release.                                  *)
ReleaseAlwaysEmitted(o, c, value) ==
    \/ value = 1 /\ c \notin down[o] /\ counts[c] + 1 = 1
    \/ value = 0 /\ c \in down[o]
    \/ value = 2 /\ c \in down[o] /\ ~IsPhysicalModifier(c)

(* Mutant: every new holder writes the press.                              *)
PressAlwaysEmitted(o, c, value) ==
    \/ value = 1 /\ c \notin down[o]
    \/ value = 0 /\ c \in down[o] /\ ~(counts[c] - 1 > 0)
    \/ value = 2 /\ c \in down[o] /\ ~IsPhysicalModifier(c)

(* keyEvent: what it returns, that is whether o's event for c is written.   *)
(* The first holder writes the press, the last one the release, and a      *)
(* repeat is written for a held key that is no modifier.                   *)
KeyEmitted(o, c, value) ==
    \/ value = 1 /\ c \notin down[o] /\ counts[c] + 1 = 1
    \/ value = 0 /\ c \in down[o] /\ ~(counts[c] - 1 > 0)
    \/ value = 2 /\ c \in down[o] /\ ~IsPhysicalModifier(c)

(* Mutant: a release of a key the owner does not hold is counted.          *)
ReleaseUnchecked(o, gone, new) ==
    /\ down' = [down EXCEPT ![o] = (@ \ gone) \cup new]
    /\ counts' = [c \in Code |->
           CASE c \in gone -> counts[c] - 1
             [] c \in new \ down[o] -> counts[c] + 1
             [] OTHER -> counts[c]]
    /\ virtual' = (virtual \ {c \in gone : KeyEmitted(o, c, 0)})
                    \cup {c \in new : KeyEmitted(o, c, 1)}

(* Mutant: a second press by the same owner is counted.                    *)
PressUnchecked(o, gone, new) ==
    /\ down' = [down EXCEPT ![o] = (@ \ gone) \cup new]
    /\ counts' = [c \in Code |->
           CASE c \in gone \cap down[o] -> counts[c] - 1
             [] c \in new -> counts[c] + 1
             [] OTHER -> counts[c]]
    /\ virtual' = (virtual \ {c \in gone : KeyEmitted(o, c, 0)})
                    \cup {c \in new : KeyEmitted(o, c, 1)}

(* keyEvent: what it changes, for o's releases of the keys in gone and its  *)
(* presses of the keys in new, and what the kernel makes of the writes.     *)
KeyEvents(o, gone, new) ==
    /\ down' = [down EXCEPT ![o] = (@ \ gone) \cup new]
    /\ counts' = [c \in Code |->
           CASE c \in gone \cap down[o] -> counts[c] - 1
             [] c \in new \ down[o] -> counts[c] + 1
             [] OTHER -> counts[c]]
    /\ virtual' = (virtual \ {c \in gone : KeyEmitted(o, c, 0)})
                    \cup {c \in new : KeyEmitted(o, c, 1)}

(* Frame, one key event of it.  A repeat leaves the keys as they are.       *)
ForwardKey(o, c, value) ==
    /\ KeyEvents(o, IF value = 0 THEN {c} ELSE {}, IF value = 1 THEN {c} ELSE {})
    /\ entries' = entries \cup {o}

(* Frame, an event that is no key: scan codes are written, others dropped.  *)
ForwardOther(o) ==
    /\ entries' = entries \cup {o}
    /\ UNCHANGED <<down, counts, virtual>>

(* Mutant: an owner that holds nothing is forgotten without its releases.  *)
ResyncForgets(o, actual) ==
    IF actual = {}
      THEN /\ down' = [down EXCEPT ![o] = {}]
           /\ entries' = entries \ {o}
           /\ UNCHANGED <<counts, virtual>>
      ELSE /\ KeyEvents(o, down[o] \ actual, actual \ down[o])
           /\ entries' = entries \cup {o}

(* Resync: releases of the keys that are gone, then presses of new ones.    *)
Resync(o, actual) ==
    /\ KeyEvents(o, down[o] \ actual, actual \ down[o])
    /\ entries' = IF actual = {} THEN entries \ {o} ELSE entries \cup {o}

(* UI_DEV_DESTROY, or the descriptor closed by a crash: external.           *)
DestroyVirtual ==
    /\ virtual' = {}
    /\ down' = [o \in Owner |-> {}]
    /\ entries' = {}
    /\ counts' = [c \in Code |-> 0]

ForwarderNext ==
    \/ \E o \in Owner, c \in Code, value \in {0, 1, 2} : ForwardKey(o, c, value)
    \/ \E o \in Owner : ForwardOther(o)
    \/ \E o \in Owner, actual \in SUBSET Code : Resync(o, actual)
    \/ DestroyVirtual

ForwarderSpec == ForwarderInit /\ [][ForwarderNext]_forwarderVars

-----------------------------------------------------------------------------
Holders(c) == {o \in Owner : c \in down[o]}

(* Types of the forwarder's maps.                                          *)
ForwarderTypeOK ==
    /\ down \in [Owner -> SUBSET Code]
    /\ entries \in SUBSET Owner
    /\ counts \in [Code -> Nat]
    /\ virtual \in SUBSET Code

(* The count of a key is the number of owners that hold it.                *)
CountsExact == \A c \in Code : counts[c] = Cardinality(Holders(c))

(* The display server sees a key down exactly while some owner holds it: a *)
(* release by one owner never releases another's key, and no key sticks.   *)
VirtualIsUnion == virtual = {c \in Code : Holders(c) # {}}

(* Which events are written agrees with the state of the device: the press *)
(* of a key that is up, the release by its only holder, a repeat of a key  *)
(* that is down.                                                           *)
WritesMatchDevice ==
    \A o \in Owner, c \in Code :
        /\ KeyEmitted(o, c, 1) <=> c \notin virtual
        /\ KeyEmitted(o, c, 0) <=> Holders(c) = {o}
        /\ KeyEmitted(o, c, 2) => c \in virtual

(* Resync drops an owner from f.down only when it holds nothing.           *)
EntriesCoverDown == \A o \in Owner : down[o] # {} => o \in entries

(* The forwarder implements the union of its owners' keys.                 *)
Keyboard == INSTANCE VirtualKeyboard
    WITH holding <- {h \in Owner \X Code : h[2] \in down[h[1]]}, pressed <- virtual

RefinesKeyboard == Keyboard!Spec
=============================================================================
