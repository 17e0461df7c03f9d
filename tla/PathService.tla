---------------------------- MODULE PathService ----------------------------
(***************************************************************************)
(* The paths of the web server (ext/www_server.c): a list of slots, where  *)
(* a registration takes the first free one and the first match counts.     *)
(***************************************************************************)
EXTENDS Integers, Sequences, FiniteSetsExt

CONSTANTS
    Path, Callback, Null,
    NoPath,         \* the path of a free slot, 0
    Pages,          \* what main registers, as pairs of a path and a callback
    Size            \* EXT_WWW_SERVER_SERVICES_LIST_SIZE

ASSUME PathAssumption == 
    /\ NoPath \notin Path /\ Null \notin Callback
    /\ Size \in Nat
    /\ Pages \in Seq(Path \X Callback)
    /\ \A i, j \in DOMAIN Pages : i # j => Pages[i] # Pages[j]
    /\ Len(Pages) <= Size

VARIABLES
    path_services,
    found           \* the last path asked for and the answer

paths == <<path_services, found>>

Slots == 0 .. Size - 1
Empty == [path |-> NoPath, callback |-> Null]

\* The first slot with path p; with NoPath, the first free one.
Holding(p) == {i \in Slots : path_services[i].path = p}
FirstSlot(p) == Min(Holding(p))

\* www_server_init clears the list; main registers its pages before it looks
\* at a frame.
PathsInit ==
    /\ path_services = [i \in Slots |->
                          IF i < Len(Pages)
                            THEN [path |-> Pages[i + 1][1], callback |-> Pages[i + 1][2]]
                            ELSE Empty]
    /\ found = << >>

www_server_register_path(p, c) ==
    /\ path_services' = IF Holding(NoPath) = {} THEN path_services
                        ELSE [path_services EXCEPT
                                ![FirstSlot(NoPath)] = [path |-> p, callback |-> c]]
    /\ UNCHANGED found

\* The mutant goes on to the end of the list.
www_server_unregister_path_All(p) ==
    /\ path_services' = [i \in Slots |-> IF i \in Holding(p) THEN Empty ELSE path_services[i]]
    /\ UNCHANGED found

www_server_unregister_path(p) ==
    /\ path_services' = IF Holding(p) = {} THEN path_services
                        ELSE [path_services EXCEPT ![FirstSlot(p)] = Empty]
    /\ UNCHANGED found

\* The search in handle_request; the mutant compares with nothing.
Answering_Any(p) == IF Holding(NoPath) = Slots THEN Null
                    ELSE path_services[Min(Slots \ Holding(NoPath))].callback

Answering(p) == IF Holding(p) = {} THEN Null ELSE path_services[FirstSlot(p)].callback

-----------------------------------------------------------------------------
\* The registrations, whatever slots they are in.
Registrations ==
    [x \in Path \X Callback |->
        Cardinality({i \in Slots : path_services[i] = [path |-> x[1], callback |-> x[2]]})]

Table == INSTANCE PathTable WITH regs <- Registrations,
            First <- {Pages[i] : i \in DOMAIN Pages},
            Capacity <- Size
=============================================================================
