----------------------------- MODULE PathTable -----------------------------
(***************************************************************************)
(* What the list of paths of the web server promises.  Registrations pile  *)
(* up: a path that is registered twice is answered by either callback, and *)
(* to unregister it takes one of the registrations away.                   *)
(***************************************************************************)
EXTENDS Integers, FiniteSets

CONSTANTS
    Path, Callback,
    Null,           \* no callback: the page is not found
    First,          \* the registrations made before the first request
    Capacity        \* registrations there is room for

VARIABLES
    regs,           \* how often each path is registered with each callback
    found           \* the last path asked for and the answer

vars == <<regs, found>>

\* Each registration counts, one by one.
Held == Cardinality(UNION {{x} \X (1 .. regs[x]) : x \in DOMAIN regs})
Serving(p) == {c \in Callback : regs[<<p, c>>] > 0}

Init == /\ regs = [x \in Path \X Callback |-> IF x \in First THEN 1 ELSE 0]
        /\ found = << >>

Register(p, c) ==
    /\ regs' = IF Held < Capacity THEN [regs EXCEPT ![<<p, c>>] = @ + 1] ELSE regs
    /\ UNCHANGED found

Unregister(p) ==
    /\ IF Serving(p) = {}
         THEN UNCHANGED regs
         ELSE \E c \in Serving(p) : regs' = [regs EXCEPT ![<<p, c>>] = @ - 1]
    /\ UNCHANGED found

Lookup(p) ==
    /\ \E c \in IF Serving(p) = {} THEN {Null} ELSE Serving(p) : found' = <<p, c>>
    /\ UNCHANGED regs

Next == \E p \in Path : \/ \E c \in Callback : Register(p, c)
                        \/ Unregister(p)
                        \/ Lookup(p)

Spec == Init /\ [][Next]_vars
=============================================================================
