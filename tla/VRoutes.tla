------------------------------ MODULE VRoutes ------------------------------
(* Routes between partitions: the permission bits that vemu_set_route sets in *)
(* two partitions at once, that the far hypercalls test, and that             *)
(* vdo_finalize_teardown unwinds when a partition goes; vids are used again.  *)
(* Root vcpus call VSET_ROUTE concurrently, and partitions are torn down on   *)
(* any cpu.                                                                   *)
EXTENDS Naturals

CONSTANTS Vid,        \* vids, 0 for root
          Caller,     \* root vcpus
          RouteType,  \* vroute_type_t
          NULL

Root == 0
VIPI == "VIPI_ROUTE"
Guest == Vid \ {Root}

VARIABLES
    valid,      \* vpartition_table[vid].valid
    senders,    \* the *_senders map of each type and partition
    receivers,  \* the *_receivers maps
    call,       \* the VSET_ROUTE under way, after its first vpartition_get
    writers,    \* vids whose teardown waits for the table's writer lock
    crashed,    \* a null partition was written through
    granted     \* history: the routes root has allowed and not revoked

vars == <<valid, senders, receivers, call, writers, crashed, granted>>

NoRoutes == [ty \in RouteType |-> [p \in Vid |-> {}]]
Init ==
    /\ valid = {Root}
    /\ senders = NoRoutes /\ receivers = NoRoutes
    /\ call = [a \in Caller |-> NULL]
    /\ writers = {} /\ crashed = FALSE /\ granted = {}

-----------------------------------------------------------------------------
(* vcreate_partition: the lowest free vid, routes from root, the table.       *)
Create(p) ==
    /\ p \in Guest \ valid
    /\ \A q \in Guest \ valid : p <= q
    /\ valid' = valid \cup {p}
    /\ senders' = [ty \in RouteType |-> [senders[ty] EXCEPT ![p] = {Root}]]
    /\ receivers' = [ty \in RouteType |-> [receivers[ty] EXCEPT ![p] = {}]]
    /\ UNCHANGED <<call, writers, crashed, granted>>

\* vpartition_get: a reader waits for a writer that came before it, then for
\* the lock of the entry, which callers hold until they return.
Locked == {call[a].first : a \in {b \in Caller : call[b] # NULL}}
CanGet(p) == writers = {} /\ p \notin Locked

\* The two entries are taken in the order of their vids.
Vid1(s, t) == IF s < t THEN s ELSE t
Vid2(s, t) == IF s < t THEN t ELSE s

\* vset_route and vemu_set_route up to the second vpartition_get.
SetRouteFirst(a, s, t, ty, allow) ==
    LET first == Vid1(s, t) IN
    /\ call[a] = NULL /\ s # Root /\ s # t
    /\ CanGet(first) /\ first \in valid
    /\ call' = [call EXCEPT ![a] = [sender |-> s, target |-> t, type |-> ty,
                                    allow |-> allow, first |-> first]]
    /\ UNCHANGED <<valid, senders, receivers, writers, crashed, granted>>

Put(S, x, on) == IF on THEN S \cup {x} ELSE S \ {x}
SetRouteSecond(a) ==
    LET s == call[a].sender
        t == call[a].target
        ty == call[a].type
        on == call[a].allow
    IN
    /\ call[a] # NULL
    /\ CanGet(Vid2(s, t))
    /\ call' = [call EXCEPT ![a] = NULL]
    /\ IF Vid2(s, t) \in valid
       THEN /\ receivers' = [receivers EXCEPT ![ty][s] = Put(@, t, on)]
            /\ senders' = [senders EXCEPT ![ty][t] = Put(@, s, on)]
            /\ granted' = Put(granted, <<ty, s, t>>, on)
       ELSE UNCHANGED <<receivers, senders, granted>>
    /\ UNCHANGED <<valid, writers, crashed>>

-----------------------------------------------------------------------------
(* vdo_finalize_teardown.                                                     *)
StartExclusive(p) ==
    /\ p \in Guest \cap valid
    /\ writers' = writers \cup {p}
    /\ UNCHANGED <<valid, senders, receivers, call, crashed, granted>>

\* The partitions the loops look up: for VIPI_ROUTE both loops go over the
\* senders, so that the receivers are never unwound.
Pairs(ty, p) == (senders[ty][p] \ {Root})
                \cup IF ty = VIPI THEN {} ELSE receivers[ty][p]

\* What unwinding p's routes of a type leaves in the maps of the others; p's own
\* go with its structure.  A mutant leaves p in the maps of the others.
NotUnwound(ty, p) == [receivers[ty] EXCEPT ![p] = {}]
UnwoundReceivers(ty, p) ==
    [q \in Vid |-> IF q = p THEN {}
                   ELSE IF q \in senders[ty][p] \ {Root} THEN receivers[ty][q] \ {p}
                   ELSE receivers[ty][q]]
UnwoundSenders(ty, p) ==
    [q \in Vid |-> IF q = p THEN {}
                   ELSE IF q \in receivers[ty][p] /\ ty # VIPI
                   THEN senders[ty][q] \ {p}
                   ELSE senders[ty][q]]

Finalize(p) ==
    /\ p \in writers /\ p \in valid
    /\ \A a \in Caller : call[a] = NULL
    /\ writers' = writers \ {p}
    /\ IF \A ty \in RouteType : Pairs(ty, p) \subseteq valid
       THEN /\ valid' = valid \ {p}
            /\ receivers' = [ty \in RouteType |-> UnwoundReceivers(ty, p)]
            /\ senders' = [ty \in RouteType |-> UnwoundSenders(ty, p)]
            /\ granted' = {g \in granted : g[2] # p /\ g[3] # p}
            /\ UNCHANGED crashed
       ELSE crashed' = TRUE /\ UNCHANGED <<valid, receivers, senders, granted>>
    /\ UNCHANGED call

Next ==
    /\ ~crashed
    /\ \/ \E p \in Guest : Create(p) \/ StartExclusive(p) \/ Finalize(p)
       \/ \E a \in Caller : SetRouteSecond(a)
       \/ \E a \in Caller, s, t \in Vid, ty \in RouteType, allow \in BOOLEAN :
            SetRouteFirst(a, s, t, ty, allow)

Spec == Init /\ [][Next]_vars

-----------------------------------------------------------------------------
TypeOK ==
    /\ Root \in valid /\ valid \subseteq Vid /\ writers \subseteq Guest
    /\ senders \in [RouteType -> [Vid -> SUBSET Vid]]
    /\ receivers \in [RouteType -> [Vid -> SUBSET Vid]]
    /\ granted \subseteq RouteType \X Vid \X Vid

RouteIsGrant(ty, s, t) ==
    /\ <<ty, s, t>> \in granted => s \in senders[ty][t]
    /\ ty # VIPI =>
         /\ s \in senders[ty][t] => s = Root \/ <<ty, s, t>> \in granted
         /\ s # Root => (t \in receivers[ty][s] <=> s \in senders[ty][t])
         /\ senders[ty][t] \subseteq valid /\ receivers[ty][s] \subseteq valid

\* A far hypercall gets through (the sender's bit is in the target's map, see
\* vemu_inject_external_interrupt_far and the like) exactly when root allowed
\* it for these two partitions: no teardown in between, by whomever, loses a
\* grant or leaves one to the next owner of a vid, and the two maps agree, so
\* that unwinding finds its pairs.  Routes for vipis are excepted from the half
\* that vrecovery.c:78 breaks.
RoutesAreGrants == \A ty \in RouteType, s, t \in valid : RouteIsGrant(ty, s, t)
=============================================================================
