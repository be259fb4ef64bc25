---------------------------- MODULE AbstractHeap ----------------------------
(* What a program is promised of the heap: objects are made, fields change   *)
(* when the program stores into them, variables come to name what the        *)
(* program already knows or nothing, objects that cannot be reached go, and  *)
(* nothing else ever happens.  There are no boxes, no generations and no     *)
(* addresses.                                                                *)
EXTENDS FiniteSets, Functions, Naturals

CONSTANTS
    Objects,    \* the identities objects can have
    Roots,      \* the places a program starts from
    Slots,      \* the fields of an object
    Nil         \* the value of a place that names no object

VARIABLES
    root,       \* [Roots -> Objects \cup {Nil}]
    field       \* a function from the objects there are to their fields

vars == <<root, field>>

\* What can be reached from the roots through the fields: the least set of
\* objects that has what the roots name and what the fields of its members name.
Closed(os) == \A o \in os \cap DOMAIN field, s \in Slots : field[o][s] \in os \cup {Nil}
Reached ==
    {o \in Objects : \A os \in SUBSET Objects :
        {root[r] : r \in Roots} \subseteq os \cup {Nil} /\ Closed(os) => o \in os}

Named == {root[r] : r \in Roots} \ {Nil}
Known == Named \cup {Nil} \cup {field[o][s] : o \in Named, s \in Slots}

Init ==
    \E o \in Objects :
        /\ root \in [Roots -> {Nil, o}]
        /\ field = [x \in {o} |-> [s \in Slots |-> Nil]]

\* A variable takes a value the program knows; others may be forgotten.
Move ==
    /\ UNCHANGED field
    /\ \E r \in Roots :
         /\ \A q \in Roots \ {r} : root'[q] \in {root[q], Nil}
         /\ root'[r] # root[r] => root'[r] \in Known

\* obj.s = v
Store ==
    /\ UNCHANGED root
    /\ \E o \in Named, s \in Slots :
         /\ field' = [field EXCEPT ![o][s] = field'[o][s]]
         /\ field'[o][s] \in Known

\* A new object made of known values, named by one variable; another variable
\* may take a known value with it.
Make ==
    \E o \in Objects \ DOMAIN field :
        /\ DOMAIN field' = DOMAIN field \cup {o}
        /\ Restrict(field', DOMAIN field) = field
        /\ Range(field'[o]) \subseteq Known
        /\ \E r, q \in Roots :
             /\ root'[r] = o
             /\ root'[q] \in Known \cup {o}
             /\ \A x \in Roots \ {r, q} : root'[x] = root[x]

\* A new, empty object, named by a field.
Attach ==
    /\ UNCHANGED root
    /\ \E o \in Objects \ DOMAIN field, p \in Named, s \in Slots :
        /\ DOMAIN field' = DOMAIN field \cup {o}
        /\ Restrict(field', DOMAIN field) = [field EXCEPT ![p][s] = o]
        /\ Range(field'[o]) = {Nil}

\* Memory is reclaimed, never from what can be reached.
Reclaim ==
    /\ \A r \in Roots : root'[r] \in {root[r], Nil}
    /\ Reached \subseteq DOMAIN field'
    /\ DOMAIN field' \subseteq DOMAIN field
    /\ field' = Restrict(field, DOMAIN field')

Next == Move \/ Store \/ Make \/ Attach \/ Reclaim

Spec == Init /\ [][Next]_vars
=============================================================================
