------------------------ MODULE WorkshopCommerce_proofs ------------------------
(***************************************************************************)
(* Proofs about the paid Workshop, for any number of scopes, orders,       *)
(* client keys and servers.                                                *)
(*                                                                         *)
(* The argument.  Money can still come in for an order unless its session  *)
(* is expired and its payment intent is absent or canceled, and that is    *)
(* for good: such an order is dead.  Every expired order is dead, because  *)
(* a process that is about to close an order has seen it dead.  A scope    *)
(* has at most one order that is not expired, hence at most one that can   *)
(* be charged; and what a process at its last step believes of Stripe (the *)
(* session complete, the payment refunded) can no longer change.           *)
(***************************************************************************)
EXTENDS WorkshopCommerce, TLAPS

Dead(o) == provider[o].session = "expired" /\ provider[o].intent \in {"none", "canceled"}

\* What Stripe keeps to.
ProviderInv ==
    \A o \in Orders :
        /\ provider[o].session = "none" => provider[o].intent = "none"
        /\ provider[o].session = "complete" => provider[o].intent = "succeeded"
        /\ provider[o].refunded => provider[o].intent = "succeeded"

OrderInv ==
    \A o \in Orders :
        /\ order[o].status = "absent" <=> order[o].scope = None
        /\ order[o].status = "absent" => provider[o].session = "none"
        /\ order[o].status = "expired" => Dead(o)
        /\ order[o].status = "paid" <=> order[o].entitlement = "active"
        /\ order[o].entitlement = "revoked" => order[o].status = "revoked"

\* An event is recorded after the fact, and a completion is handled by a grant.
EventInv ==
    \A o \in Orders :
        /\ "revoking" \in Kinds /\ event[o]["revoking"] # "absent" => provider[o].refunded
        /\ event[o]["completed"] # "absent" =>
                provider[o].session = "complete"
        /\ event[o]["completed"] \in {"fulfilled", "failed"} =>
                order[o].status \in {"paid", "revoked"}

\* What a process knows of the order it serves.
ServerKnows(row) ==
    /\ row.order \in Orders /\ order[row.order].status # "absent"
    /\ row.pc = "cancel" => provider[row.order].session = "expired"
    /\ row.pc = "close" => Dead(row.order)
    /\ row.pc = "finish" /\ row.event \in {"completed", "succeeded"} =>
            provider[row.order].session = "complete"
    /\ row.event = "completed" => provider[row.order].session = "complete"
    /\ row.event = "revoking" => provider[row.order].refunded

ServerStage(row) ==
    /\ row.pc \in {"retrieve", "expire", "cancel", "close"} => row.event \in {None, "expired"}
    /\ row.pc \in {"settle", "quarantine"} => row.event \in {"completed", "succeeded"}
    /\ row.pc = "quarantine" => row.event # "completed"
    /\ row.pc = "intent" => row.event = "revoking"
    /\ row.pc \in {"settle", "intent", "quarantine", "finish"} => row.event \in Kinds

ServerInv ==
    \A w \in Servers : server[w].pc # "idle" => ServerKnows(server[w]) /\ ServerStage(server[w])

\* A scope has one order that is not expired.
ScopeInv ==
    \A o, p \in Orders :
        o # p /\ order[o].scope = order[p].scope /\ order[o].scope # None =>
            order[o].status = "expired" \/ order[p].status = "expired"

IInv == TypeOK /\ ProviderInv /\ OrderInv /\ EventInv /\ ServerInv /\ ScopeInv

\* What a step never undoes.
Kept ==
    \A o \in Orders :
        /\ order[o].status # "absent" => order'[o].status # "absent"
        /\ provider[o].session \in {"complete", "expired"} =>
                provider'[o].session = provider[o].session
        /\ Dead(o) => Dead(o)'
        /\ provider[o].refunded => provider'[o].refunded

Stages == {"idle", "abandon", "create", "attach", "retrieve", "expire", "cancel",
           "close", "settle", "intent", "quarantine", "finish"}

USE OrdersAssumption DEF EventKinds

LEMMA InitInv == Init => IInv
BY SMTT(30) DEF Init, IInv, TypeOK, ProviderInv, OrderInv, EventInv, ServerInv, ScopeInv, Idle,
    NoOrder, OrderRow, Status, EventStatus, ProviderRow, ServerRow


(***************************************************************************)
(* Steps of one server, and what the others know meanwhile.                *)
(***************************************************************************)
LEMMA RowTyped ==
    ASSUME TypeOK, NEW w \in Servers, NEW row \in ServerRow, server' = [server EXCEPT ![w] = row]
    PROVE  /\ server' \in [Servers -> ServerRow]
           /\ server'[w] = row
           /\ \A v \in Servers \ {w} : server'[v] = server[v]
BY DEF TypeOK

LEMMA IdleTyped == Idle \in ServerRow
BY DEF Idle, ServerRow

LEMMA DoneTyped ==
    ASSUME TypeOK, NEW w \in Servers, Done(w)
    PROVE  /\ server' \in [Servers -> ServerRow]
           /\ server'[w] = Idle
           /\ \A v \in Servers \ {w} : server'[v] = server[v]
BY RowTyped, IdleTyped DEF Done

LEMMA GotoTyped ==
    ASSUME TypeOK, NEW w \in Servers, NEW pc \in Stages, Goto(w, pc)
    PROVE  /\ server' \in [Servers -> ServerRow]
           /\ server'[w] = [server[w] EXCEPT !.pc = pc]
           /\ \A v \in Servers \ {w} : server'[v] = server[v]
<1> DEFINE row == [server[w] EXCEPT !.pc = pc]
<1>1. server[w] \in ServerRow
  BY DEF TypeOK
<1>2. row \in ServerRow
  BY <1>1 DEF ServerRow, Stages
<1>3. server' = [server EXCEPT ![w] = row]
  BY DEF Goto, TypeOK
<1> QED
  BY <1>2, <1>3, RowTyped

LEMMA ReturnTyped ==
    ASSUME TypeOK, NEW w \in Servers, Return(w)
    PROVE  server' \in [Servers -> ServerRow]
BY DoneTyped, GotoTyped DEF Return, Stages

LEMMA ServerStep ==
    ASSUME ServerInv, Kept, NEW w \in Servers,
           \A v \in Servers \ {w} : server'[v] = server[v],
           server'[w].pc = "idle" \/ (ServerKnows(server[w]) /\ ServerStage(server[w]))'
    PROVE  ServerInv'
<1> SUFFICES ASSUME NEW v \in Servers, v # w, server'[v].pc # "idle"
             PROVE  (ServerKnows(server[v]) /\ ServerStage(server[v]))'
  BY DEF ServerInv
<1>1. server'[v] = server[v] /\ ServerKnows(server[v]) /\ ServerStage(server[v])
  BY DEF ServerInv
<1>2. ServerKnows(server[v])'
  BY <1>1 DEF ServerKnows, Kept
<1>3. ServerStage(server[v])'
  BY <1>1 DEF ServerStage
<1> QED
  BY <1>2, <1>3

LEMMA DoneServer ==
    ASSUME TypeOK, ServerInv, Kept, NEW w \in Servers, Done(w)
    PROVE  ServerInv'
BY DoneTyped, ServerStep DEF Idle

LEMMA GotoServer ==
    ASSUME TypeOK, ServerInv, Kept, NEW w \in Servers, server[w].pc # "idle",
           NEW pc \in Stages, Goto(w, pc),
           pc = "cancel" => provider'[server[w].order].session = "expired",
           pc = "close" => /\ provider'[server[w].order].session = "expired"
                           /\ provider'[server[w].order].intent \in {"none", "canceled"},
           pc = "finish" /\ server[w].event \in {"completed", "succeeded"} =>
                provider'[server[w].order].session = "complete",
           ServerStage([server[w] EXCEPT !.pc = pc])
    PROVE  ServerInv'
<1> DEFINE row == [server[w] EXCEPT !.pc = pc]
<1>1. server'[w] = row /\ \A v \in Servers \ {w} : server'[v] = server[v]
  BY GotoTyped
<1>2. ServerKnows(server[w])
  BY DEF ServerInv
<1>3. row.order = server[w].order /\ row.event = server[w].event /\ row.pc = pc
  BY DEF TypeOK, ServerRow
<1>4. ServerKnows(server[w])'
  BY <1>1, <1>2, <1>3 DEF ServerKnows, Kept, Dead
<1>5. ServerStage(server[w])'
  BY <1>1 DEF ServerStage
<1> QED
  BY <1>1, <1>4, <1>5, ServerStep

LEMMA ReturnServer ==
    ASSUME TypeOK, ServerInv, Kept, NEW w \in Servers, Return(w),
           server[w].pc \in {"retrieve", "expire", "cancel", "close"}
    PROVE  ServerInv'
<1>1. CASE server[w].event = None
  BY <1>1, DoneServer DEF Return
<1>2. CASE server[w].event # None
  <2>1. server[w].event = "expired" /\ "expired" \in Kinds
    BY <1>2 DEF ServerInv, ServerStage, TypeOK, ServerRow
  <2>2. ServerStage([server[w] EXCEPT !.pc = "finish"])
    BY <2>1 DEF ServerStage, TypeOK, ServerRow
  <2> QED
    BY <1>2, <2>1, <2>2, GotoServer DEF Return, Stages
<1> QED
  BY <1>1, <1>2


(***************************************************************************)
(* Steps that change a server only.                                        *)
(***************************************************************************)
LEMMA NothingElse ==
    ASSUME IInv, UNCHANGED <<order, binding, event, provider>>
    PROVE  /\ Kept
           /\ server' \in [Servers -> ServerRow] /\ ServerInv' => IInv'
BY DEF IInv, Kept, TypeOK, ProviderInv, OrderInv, EventInv, ScopeInv, Dead

LEMMA CrashInv ==
    ASSUME IInv, NEW w \in Servers, Crash(w)
    PROVE  IInv'
BY NothingElse, DoneTyped, DoneServer DEF Crash, db, IInv

LEMMA ServeTyped ==
    ASSUME TypeOK, NEW w \in Servers, NEW o \in Orders, NEW row \in OrderRow, Serve(w, o, row)
    PROVE  /\ server' \in [Servers -> ServerRow]
           /\ \A v \in Servers \ {w} : server'[v] = server[v]
           /\ server'[w].pc # "idle" =>
                /\ server'[w].pc \in {"abandon", "create", "retrieve"}
                /\ server'[w].order = o /\ server'[w].event = None
<1> DEFINE new == [Idle EXCEPT !.pc = AfterLookup(row), !.order = o, !.session = row.session]
<1>1. AfterLookup(row) \in {"abandon", "create", "retrieve", "idle"}
  BY DEF AfterLookup
<1>2. new \in ServerRow
  BY <1>1 DEF Idle, ServerRow, OrderRow
<1>3. CASE AfterLookup(row) = "idle"
  BY <1>3, RowTyped, IdleTyped DEF Serve, Idle
<1>4. CASE AfterLookup(row) # "idle"
  <2>1. server' = [server EXCEPT ![w] = new]
    BY <1>4 DEF Serve
  <2>2. new.pc = AfterLookup(row) /\ new.order = o /\ new.event = None
    BY DEF Idle
  <2> QED
    BY <1>1, <1>2, <1>4, <2>1, <2>2, RowTyped
<1> QED
  BY <1>3, <1>4

LEMMA ServeServer ==
    ASSUME TypeOK, ServerInv, Kept, NEW w \in Servers, NEW o \in Orders, NEW row \in OrderRow,
           Serve(w, o, row), order'[o].status # "absent"
    PROVE  ServerInv'
<1>1. CASE server'[w].pc = "idle"
  BY <1>1, ServeTyped, ServerStep
<1>2. CASE server'[w].pc # "idle"
  <2>1. ServerKnows(server[w])'
    BY <1>2, ServeTyped DEF ServerKnows
  <2>2. ServerStage(server[w])'
    BY <1>2, ServeTyped DEF ServerStage
  <2> QED
    BY <2>1, <2>2, ServeTyped, ServerStep
<1> QED
  BY <1>1, <1>2

LEMMA PollInv ==
    ASSUME IInv, NEW w \in Servers, NEW o \in Orders, Poll(w, o)
    PROVE  IInv'
<1>1. order[o] \in OrderRow /\ order'[o].status # "absent"
  BY DEF Poll, Lapsed, db, IInv, TypeOK
<1> QED
  BY <1>1, NothingElse, ServeTyped, ServeServer DEF Poll, db, IInv

LEMMA RetrieveInv ==
    ASSUME IInv, NEW w \in Servers, Retrieve(w)
    PROVE  IInv'
<1>1. Kept /\ server[w].pc = "retrieve" /\ provider' = provider
  BY NothingElse DEF Retrieve, At, db
<1>2. ServerKnows(server[w]) /\ server[w].event \in {None, "expired"}
  BY <1>1 DEF IInv, ServerInv, ServerStage
<1>3. CASE Return(w)
  BY <1>1, <1>3, NothingElse, ReturnTyped, ReturnServer DEF Retrieve, db, IInv
<1>4. ASSUME NEW pc \in {"expire", "close", "cancel"}, Goto(w, pc),
             pc = "cancel" => provider[server[w].order].session = "expired",
             pc = "close" => Dead(server[w].order)
      PROVE  IInv'
  <2>1. ServerStage([server[w] EXCEPT !.pc = pc])
    BY <1>2 DEF ServerStage, IInv, TypeOK, ServerRow
  <2>2. pc \in Stages
    BY DEF Stages
  <2>3. ServerInv'
    BY <1>1, <1>4, <2>1, <2>2, GotoServer DEF IInv, Dead
  <2> QED
    BY <1>4, <2>2, <2>3, NothingElse, GotoTyped DEF Retrieve, db, IInv
<1>5. CASE Goto(w, "expire")
  BY <1>4, <1>5
<1>6. CASE /\ provider[server[w].order].session = "expired"
           /\ Goto(w, IF CanceledOrNone(server[w].order) THEN "close" ELSE "cancel")
  BY <1>4, <1>6 DEF CanceledOrNone, Dead
<1> QED
  BY <1>3, <1>5, <1>6 DEF Retrieve

LEMMA SettleInv ==
    ASSUME IInv, NEW w \in Servers, Settle(w)
    PROVE  IInv'
<1>1. Kept /\ server[w].pc = "settle" /\ provider' = provider
  BY NothingElse DEF Settle, At, db
<1>2. ServerKnows(server[w]) /\ server[w].event \in {"completed", "succeeded"} \cap Kinds
  BY <1>1 DEF IInv, ServerInv, ServerStage
<1>3. CASE Done(w)
  BY <1>1, <1>3, NothingElse, DoneTyped, DoneServer DEF Settle, db, IInv
<1>4. ASSUME NEW pc \in {"finish", "quarantine"}, Goto(w, pc),
             pc = "finish" => provider[server[w].order].session = "complete",
             pc = "quarantine" => server[w].event # "completed"
      PROVE  IInv'
  <2>1. ServerStage([server[w] EXCEPT !.pc = pc])
    BY <1>2, <1>4 DEF ServerStage, IInv, TypeOK, ServerRow
  <2>2. pc \in Stages
    BY DEF Stages
  <2>3. ServerInv'
    BY <1>1, <1>4, <2>1, <2>2, GotoServer DEF IInv
  <2> QED
    BY <1>4, <2>2, <2>3, NothingElse, GotoTyped DEF Settle, db, IInv
<1>5. CASE Settled(server[w].order) /\ Goto(w, "finish")
  BY <1>4, <1>5 DEF Settled
<1>6. CASE ~Settled(server[w].order) /\ Goto(w, "quarantine")
  <2>1. server[w].event # "completed"
    BY <1>2, <1>6 DEF Settled, ServerKnows, IInv, ProviderInv
  <2> QED
    BY <1>4, <1>6, <2>1
<1> QED
  BY <1>3, <1>5, <1>6 DEF Settle

LEMMA ReadIntentInv ==
    ASSUME IInv, NEW w \in Servers, ReadIntent(w)
    PROVE  IInv'
<1>1. Kept /\ server[w].pc = "intent" /\ Goto(w, "finish")
  BY NothingElse DEF ReadIntent, At, db
<1>2. server[w].event = "revoking" /\ "revoking" \in Kinds
  BY <1>1 DEF IInv, ServerInv, ServerStage
<1>3. ServerStage([server[w] EXCEPT !.pc = "finish"])
  BY <1>2 DEF ServerStage, IInv, TypeOK, ServerRow
<1>4. ServerInv'
  BY <1>1, <1>2, <1>3, GotoServer DEF IInv, Stages
<1> QED
  BY <1>1, <1>4, NothingElse, GotoTyped DEF ReadIntent, db, IInv, Stages


(***************************************************************************)
(* Steps that change what Stripe holds of one order.                       *)
(***************************************************************************)
ProviderOk(row) ==
    /\ row.session = "none" => row.intent = "none"
    /\ row.session = "complete" => row.intent = "succeeded"
    /\ row.refunded => row.intent = "succeeded"

LEMMA ProviderStep ==
    ASSUME IInv, NEW o \in Orders, NEW row \in ProviderRow, ProviderOk(row),
           provider' = [provider EXCEPT ![o] = row], UNCHANGED <<order, binding, event>>,
           order[o].status = "absent" => row.session = "none",
           provider[o].session \in {"complete", "expired"} => row.session = provider[o].session,
           Dead(o) => row.intent \in {"none", "canceled"},
           provider[o].refunded => row.refunded
    PROVE  /\ Kept
           /\ provider'[o] = row
           /\ server' \in [Servers -> ServerRow] /\ ServerInv' => IInv'
<1>1. /\ provider' \in [Orders -> ProviderRow]
      /\ provider'[o] = row
      /\ \A p \in Orders \ {o} : provider'[p] = provider[p]
  BY DEF IInv, TypeOK
<1>2. Kept
  BY <1>1 DEF Kept, Dead
<1>3. ProviderInv'
  BY <1>1 DEF ProviderInv, ProviderOk, IInv
<1>4. OrderInv'
  BY <1>1, <1>2 DEF OrderInv, Kept, IInv
<1>5. EventInv'
  BY <1>1, <1>2 DEF EventInv, Kept, IInv
<1> QED
  BY <1>1, <1>2, <1>3, <1>4, <1>5 DEF IInv, TypeOK, ScopeInv

LEMMA OutsideInv ==
    ASSUME IInv, NEW o \in Orders, Outside(o)
    PROVE  IInv'
<1> USE DEF Outside, db
<1>1. /\ provider[o] \in ProviderRow /\ ProviderOk(provider[o])
      /\ order[o].status = "absent" => provider[o].session = "none"
  BY DEF IInv, TypeOK, ProviderInv, ProviderOk, OrderInv
<1>2. Kept => server' \in [Servers -> ServerRow] /\ ServerInv'
  BY DEF IInv, TypeOK, ServerInv, ServerKnows, ServerStage, Kept, Dead
<1>3. ASSUME NEW row \in ProviderRow, ProviderOk(row),
             provider' = [provider EXCEPT ![o] = row],
             order[o].status = "absent" => row.session = "none",
             provider[o].session \in {"complete", "expired"} =>
                row.session = provider[o].session,
             Dead(o) => row.intent \in {"none", "canceled"},
             provider[o].refunded => row.refunded
      PROVE  IInv'
  BY <1>2, <1>3, ProviderStep
<1>4. CASE BeginPayment(o)
  <2> DEFINE row == [provider[o] EXCEPT !.intent = "unpaid"]
  <2>1. provider' = [provider EXCEPT ![o] = row]
    BY <1>4 DEF BeginPayment, IInv, TypeOK
  <2>2. row \in ProviderRow /\ ProviderOk(row)
    BY <1>1, <1>4 DEF BeginPayment, ProviderRow, ProviderOk
  <2> QED
    BY <1>1, <1>3, <1>4, <2>1, <2>2 DEF BeginPayment, ProviderRow, Dead
<1>5. CASE Charge(o)
  <2> DEFINE row == [provider[o] EXCEPT !.intent = "succeeded"]
  <2>1. provider' = [provider EXCEPT ![o] = row]
    BY <1>5 DEF Charge, IInv, TypeOK
  <2>2. row \in ProviderRow /\ ProviderOk(row)
    BY <1>1, <1>5 DEF Charge, ProviderRow, ProviderOk
  <2> QED
    BY <1>1, <1>3, <1>5, <2>1, <2>2 DEF Charge, ProviderRow, Dead
<1>6. CASE CompleteSession(o)
  <2> DEFINE row == [provider[o] EXCEPT !.session = "complete"]
  <2>1. provider' = [provider EXCEPT ![o] = row]
    BY <1>6 DEF CompleteSession, IInv, TypeOK
  <2>2. row \in ProviderRow /\ ProviderOk(row)
    BY <1>1, <1>6 DEF CompleteSession, ProviderRow, ProviderOk
  <2> QED
    BY <1>1, <1>3, <1>6, <2>1, <2>2 DEF CompleteSession, ProviderRow, Dead
<1>7. CASE LapseSession(o)
  <2> DEFINE row == [provider[o] EXCEPT !.session = "expired"]
  <2>1. provider' = [provider EXCEPT ![o] = row]
    BY <1>7 DEF LapseSession, IInv, TypeOK
  <2>2. row \in ProviderRow /\ ProviderOk(row)
    BY <1>1, <1>7 DEF LapseSession, Expirable, ProviderRow, ProviderOk
  <2> QED
    BY <1>1, <1>3, <1>7, <2>1, <2>2 DEF LapseSession, Expirable, ProviderRow, Dead
<1>8. CASE Refund(o)
  <2> DEFINE row == [provider[o] EXCEPT !.refunded = TRUE]
  <2>1. provider' = [provider EXCEPT ![o] = row]
    BY <1>8 DEF Refund, IInv, TypeOK
  <2>2. row \in ProviderRow /\ ProviderOk(row)
    BY <1>1, <1>8 DEF Refund, ProviderRow, ProviderOk
  <2> QED
    BY <1>1, <1>3, <1>8, <2>1, <2>2 DEF Refund, ProviderRow, Dead
<1> QED
  BY <1>4, <1>5, <1>6, <1>7, <1>8

LEMMA Serves ==
    ASSUME IInv, NEW w \in Servers, server[w].pc # "idle"
    PROVE  /\ ServerKnows(server[w]) /\ ServerStage(server[w])
           /\ server[w] \in ServerRow
           /\ server[w].order \in Orders
           /\ provider[server[w].order] \in ProviderRow /\ ProviderOk(provider[server[w].order])
           /\ order[server[w].order] \in OrderRow
BY DEF IInv, TypeOK, ServerInv, ServerKnows, ProviderInv, ProviderOk

LEMMA CreateInv ==
    ASSUME IInv, NEW w \in Servers, Create(w)
    PROVE  IInv'
<1> DEFINE o == server[w].order
           row == IF provider[o].session = "none"
                  THEN [provider[o] EXCEPT !.session = "open"] ELSE provider[o]
<1>1. server[w].pc = "create" /\ ServerKnows(server[w]) /\ o \in Orders
  BY Serves DEF Create, At
<1>2. row \in ProviderRow /\ ProviderOk(row)
  BY <1>1, Serves DEF ProviderRow, ProviderOk
<1>3. provider' = [provider EXCEPT ![o] = row]
  BY <1>1 DEF Create, IInv, TypeOK
<1>4. Kept /\ (server' \in [Servers -> ServerRow] /\ ServerInv' => IInv')
  BY <1>1, <1>2, <1>3, Serves, ProviderStep DEF Create, ServerKnows, ProviderRow, Dead, db
<1>5. CASE Goto(w, "attach")
  <2>1. ServerStage([server[w] EXCEPT !.pc = "attach"])
    BY <1>1, Serves DEF ServerStage, ServerRow
  <2>2. ServerInv'
    BY <1>1, <1>4, <1>5, <2>1, GotoServer DEF IInv, Stages
  <2> QED
    BY <1>4, <1>5, <2>2, GotoTyped DEF IInv, Stages
<1>6. CASE Done(w)
  BY <1>4, <1>6, DoneTyped, DoneServer DEF IInv
<1> QED
  BY <1>5, <1>6 DEF Create


LEMMA CloseOrReturn ==
    ASSUME IInv, Kept, server' \in [Servers -> ServerRow] /\ ServerInv' => IInv',
           NEW w \in Servers, server[w].pc \in {"expire", "cancel"},
           \/ Return(w)
           \/ /\ provider'[server[w].order].session = "expired"
              /\ provider'[server[w].order].intent \in {"none", "canceled"}
              /\ Goto(w, "close")
    PROVE  IInv'
<1>1. CASE Return(w)
  BY <1>1, ReturnTyped, ReturnServer DEF IInv
<1>2. CASE /\ provider'[server[w].order].session = "expired"
           /\ provider'[server[w].order].intent \in {"none", "canceled"}
           /\ Goto(w, "close")
  <2>1. ServerStage([server[w] EXCEPT !.pc = "close"])
    BY Serves DEF ServerStage, ServerRow
  <2>2. ServerInv'
    BY <1>2, <2>1, GotoServer DEF IInv, Stages
  <2> QED
    BY <1>2, <2>2, GotoTyped DEF IInv, Stages
<1> QED
  BY <1>1, <1>2

LEMMA ExpireSessionInv ==
    ASSUME IInv, NEW w \in Servers, ExpireSession(w)
    PROVE  IInv'
<1> DEFINE o == server[w].order
           row == [provider[o] EXCEPT !.session = "expired"]
<1>1. server[w].pc = "expire" /\ ServerKnows(server[w]) /\ o \in Orders
  BY Serves DEF ExpireSession, At
<1>2. CASE Expirable(o) /\ provider' = [provider EXCEPT ![o].session = "expired"]
  <2>1. row \in ProviderRow /\ ProviderOk(row)
    BY <1>1, <1>2, Serves DEF ProviderRow, ProviderOk, Expirable
  <2>2. provider' = [provider EXCEPT ![o] = row]
    BY <1>1, <1>2 DEF IInv, TypeOK
  <2>3. /\ Kept /\ (server' \in [Servers -> ServerRow] /\ ServerInv' => IInv')
        /\ provider'[o] = row
    <3>1. /\ row.session = "expired" /\ row.intent = provider[o].intent
          /\ provider[o].refunded => row.refunded
      BY <1>1, Serves DEF ProviderRow
    <3>2. order[o].status # "absent" /\ UNCHANGED <<order, binding, event>>
      BY <1>1 DEF ExpireSession, ServerKnows, db
    <3>3. provider[o].session \in {"complete", "expired"} => row.session = provider[o].session
      BY <1>1, <1>2, <3>1 DEF Expirable
    <3>4. Dead(o) => row.intent \in {"none", "canceled"}
      BY <3>1 DEF Dead
    <3> QED
      BY <1>1, <2>1, <2>2, <3>1, <3>2, <3>3, <3>4, ProviderStep
  <2>4. row.session = "expired" /\ row.intent = provider[o].intent
    BY <1>1, Serves DEF ProviderRow
  <2>5. Return(w) \/ (provider[o].intent = "none" /\ Goto(w, "close"))
    BY <1>2, <2>2, <2>3, <2>4 DEF ExpireSession, Expirable
  <2> QED
    BY <1>1, <2>3, <2>4, <2>5, CloseOrReturn
<1>3. CASE UNCHANGED provider /\ Return(w)
  BY <1>1, <1>3, NothingElse, CloseOrReturn DEF ExpireSession, db
<1> QED
  BY <1>2, <1>3 DEF ExpireSession

LEMMA CancelIntentInv ==
    ASSUME IInv, NEW w \in Servers, CancelIntent(w)
    PROVE  IInv'
<1> DEFINE o == server[w].order
           row == [provider[o] EXCEPT !.intent = "canceled"]
<1>1. /\ server[w].pc = "cancel" /\ ServerKnows(server[w]) /\ o \in Orders
      /\ provider[o].session = "expired"
  BY Serves DEF CancelIntent, At, ServerKnows
<1>2. CASE /\ provider[o].intent \in {"unpaid", "canceled"}
           /\ provider' = [provider EXCEPT ![o].intent = "canceled"]
           /\ Goto(w, "close") \/ Return(w)
  <2>1. row \in ProviderRow /\ ProviderOk(row)
    BY <1>1, <1>2, Serves DEF ProviderRow, ProviderOk
  <2>2. provider' = [provider EXCEPT ![o] = row]
    BY <1>1, <1>2 DEF IInv, TypeOK
  <2>3. /\ Kept /\ (server' \in [Servers -> ServerRow] /\ ServerInv' => IInv')
        /\ provider'[o] = row
    <3>1. /\ row.session = "expired" /\ row.intent = "canceled"
          /\ provider[o].refunded => row.refunded
      BY <1>1, Serves DEF ProviderRow
    <3>2. order[o].status # "absent" /\ UNCHANGED <<order, binding, event>>
      BY <1>1 DEF CancelIntent, ServerKnows, db
    <3>3. provider[o].session \in {"complete", "expired"} => row.session = provider[o].session
      BY <1>1, <1>2, <3>1 DEF Expirable
    <3>4. Dead(o) => row.intent \in {"none", "canceled"}
      BY <3>1 DEF Dead
    <3> QED
      BY <1>1, <2>1, <2>2, <3>1, <3>2, <3>3, <3>4, ProviderStep
  <2>4. row.session = "expired" /\ row.intent = "canceled"
    BY <1>1, Serves DEF ProviderRow
  <2> QED
    BY <1>1, <1>2, <2>3, <2>4, CloseOrReturn
<1>3. CASE UNCHANGED provider /\ Return(w)
  BY <1>1, <1>3, NothingElse, CloseOrReturn DEF CancelIntent, db
<1> QED
  BY <1>2, <1>3 DEF CancelIntent

(***************************************************************************)
(* Steps that change one order, and the events.                            *)
(***************************************************************************)
OrderOk(row) ==
    /\ row.status # "absent" /\ row.scope # None
    /\ row.status = "paid" <=> row.entitlement = "active"
    /\ row.entitlement = "revoked" => row.status = "revoked"

LEMMA OrderStep ==
    ASSUME IInv, NEW o \in Orders, NEW row \in OrderRow, OrderOk(row),
           order' = [order EXCEPT ![o] = row], UNCHANGED <<binding, provider>>,
           row.scope = order[o].scope,
           row.status = "expired" => Dead(o),
           order[o].status = "expired" => row.status = "expired",
           order[o].status \in {"paid", "revoked"} => row.status \in {"paid", "revoked"}
    PROVE  /\ Kept /\ order'[o] = row
           /\ event' = event => EventInv'
           /\ /\ server' \in [Servers -> ServerRow] /\ ServerInv'
              /\ event' \in [Orders -> [Kinds -> EventStatus]] /\ EventInv'
              => IInv'
<1>1. /\ order' \in [Orders -> OrderRow]
      /\ order'[o] = row
      /\ \A p \in Orders \ {o} : order'[p] = order[p]
  BY DEF IInv, TypeOK
<1>2. Kept
  BY <1>1 DEF Kept, Dead, OrderOk
<1>3. OrderInv'
  BY <1>1 DEF OrderInv, OrderOk, IInv, Dead
<1>4. ScopeInv'
  BY <1>1 DEF ScopeInv, IInv
<1>5. ProviderInv'
  BY DEF ProviderInv, IInv
<1>6. event' = event => EventInv'
  BY <1>1 DEF EventInv, IInv
<1> QED
  BY <1>1, <1>2, <1>3, <1>4, <1>5, <1>6 DEF IInv, TypeOK

LEMMA Unserved ==
    ASSUME IInv, NEW o \in Orders, order[o].status # "absent"
    PROVE  order[o] \in OrderRow /\ OrderOk(order[o])
BY DEF IInv, TypeOK, OrderInv, OrderOk

LEMMA TickInv ==
    ASSUME IInv, NEW o \in Orders, Tick(o)
    PROVE  IInv'
<1> DEFINE row == [order[o] EXCEPT !.age = @ + 1]
<1>1. order[o] \in OrderRow /\ OrderOk(order[o])
  BY Unserved DEF Tick
<1>2. order' = [order EXCEPT ![o] = row] /\ UNCHANGED <<binding, event, provider, server>>
  BY DEF Tick
<1>3. row \in OrderRow
  BY <1>1 DEF Tick, OrderRow
<1>4. OrderOk(row) /\ row.scope = order[o].scope /\ row.status = order[o].status
  BY <1>1 DEF OrderOk, OrderRow
<1>5. order[o].status = "expired" => Dead(o)
  BY DEF IInv, OrderInv
<1>6. Kept /\ EventInv' /\ (server' \in [Servers -> ServerRow] /\ ServerInv' => IInv')
  <2>1. event' \in [Orders -> [Kinds -> EventStatus]]
    BY <1>2 DEF IInv, TypeOK
  <2> QED
    BY <1>2, <1>3, <1>4, <1>5, <2>1, OrderStep
<1>7. server' \in [Servers -> ServerRow] /\ ServerInv'
  BY <1>2, <1>6 DEF IInv, TypeOK, ServerInv, ServerKnows, ServerStage, Kept, Dead
<1> QED
  BY <1>6, <1>7


LEMMA AbandonInv ==
    ASSUME IInv, NEW w \in Servers, Abandon(w)
    PROVE  IInv'
<1> DEFINE o == server[w].order
           row == IF order[o].status = "creating"
                  THEN [order[o] EXCEPT !.status = "reconciliation_required"] ELSE order[o]
<1>1. /\ server[w].pc \in {"abandon", "attach", "close"}
      /\ server[w].pc = "close" => Dead(o)
      /\ o \in Orders /\ order[o] \in OrderRow /\ OrderOk(order[o])
  BY Serves, Unserved DEF Abandon, At, ServerKnows
<1>2. row \in OrderRow
  BY <1>1 DEF OrderRow, Status
<1>3. order' = [order EXCEPT ![o] = row] /\ UNCHANGED <<binding, event, provider>>
  BY <1>1 DEF Abandon, IInv, TypeOK
<1>4. OrderOk(row) /\ row.scope = order[o].scope
  BY <1>1 DEF OrderOk, OrderRow
<1>5. order[o].status = "expired" => Dead(o)
  BY <1>1 DEF IInv, OrderInv
<1>6. /\ row.status = "expired" => Dead(o)
      /\ order[o].status = "expired" => row.status = "expired"
      /\ order[o].status \in {"paid", "revoked"} => row.status \in {"paid", "revoked"}
  BY <1>1, <1>5 DEF OrderRow, At, Abandon
<1>7. Kept /\ EventInv' /\ (server' \in [Servers -> ServerRow] /\ ServerInv' => IInv')
  <2>1. event' \in [Orders -> [Kinds -> EventStatus]]
    BY <1>3 DEF IInv, TypeOK
  <2> QED
    BY <1>1, <1>2, <1>3, <1>4, <1>6, <2>1, OrderStep
<1>8. server' \in [Servers -> ServerRow] /\ ServerInv'
  BY <1>1, <1>7, DoneTyped, DoneServer DEF Abandon, At, IInv
<1> QED
  BY <1>7, <1>8

LEMMA AttachInv ==
    ASSUME IInv, NEW w \in Servers, Attach(w)
    PROVE  IInv'
<1> DEFINE o == server[w].order
           row == [order[o] EXCEPT !.session = TRUE, !.status = StatusWithSession(order[o].status)]
<1>1. /\ server[w].pc \in {"abandon", "attach", "close"}
      /\ server[w].pc = "close" => Dead(o)
      /\ o \in Orders /\ order[o] \in OrderRow /\ OrderOk(order[o])
  BY Serves, Unserved DEF Attach, At, ServerKnows
<1>2. row \in OrderRow
  BY <1>1 DEF OrderRow, Status, StatusWithSession
<1>3. order' = [order EXCEPT ![o] = row] /\ UNCHANGED <<binding, event, provider>>
  BY <1>1 DEF Attach, IInv, TypeOK, StatusWithSession
<1>4. OrderOk(row) /\ row.scope = order[o].scope
  BY <1>1 DEF OrderOk, OrderRow, StatusWithSession
<1>5. order[o].status = "expired" => Dead(o)
  BY <1>1 DEF IInv, OrderInv
<1>6. /\ row.status = "expired" => Dead(o)
      /\ order[o].status = "expired" => row.status = "expired"
      /\ order[o].status \in {"paid", "revoked"} => row.status \in {"paid", "revoked"}
  BY <1>1, <1>5 DEF OrderRow, At, Attach, StatusWithSession
<1>7. Kept /\ EventInv' /\ (server' \in [Servers -> ServerRow] /\ ServerInv' => IInv')
  <2>1. event' \in [Orders -> [Kinds -> EventStatus]]
    BY <1>3 DEF IInv, TypeOK
  <2> QED
    BY <1>1, <1>2, <1>3, <1>4, <1>6, <2>1, OrderStep
<1>8. server' \in [Servers -> ServerRow] /\ ServerInv'
  BY <1>1, <1>7, DoneTyped, DoneServer DEF Attach, At, IInv
<1> QED
  BY <1>7, <1>8

LEMMA CloseOrderInv ==
    ASSUME IInv, NEW w \in Servers, CloseOrder(w)
    PROVE  IInv'
<1> DEFINE o == server[w].order
           row == IF StillOpen(o) THEN [order[o] EXCEPT !.status = "expired"] ELSE order[o]
<1>1. /\ server[w].pc \in {"abandon", "attach", "close"}
      /\ server[w].pc = "close" => Dead(o)
      /\ o \in Orders /\ order[o] \in OrderRow /\ OrderOk(order[o])
  BY Serves, Unserved DEF CloseOrder, At, ServerKnows
<1>2. row \in OrderRow
  BY <1>1 DEF OrderRow, Status, StillOpen
<1>3. order' = [order EXCEPT ![o] = row] /\ UNCHANGED <<binding, event, provider>>
  BY <1>1 DEF CloseOrder, IInv, TypeOK, StillOpen
<1>4. OrderOk(row) /\ row.scope = order[o].scope
  BY <1>1 DEF OrderOk, OrderRow, StillOpen
<1>5. order[o].status = "expired" => Dead(o)
  BY <1>1 DEF IInv, OrderInv
<1>6. /\ row.status = "expired" => Dead(o)
      /\ order[o].status = "expired" => row.status = "expired"
      /\ order[o].status \in {"paid", "revoked"} => row.status \in {"paid", "revoked"}
  BY <1>1, <1>5 DEF OrderRow, At, CloseOrder, StillOpen
<1>7. Kept /\ EventInv' /\ (server' \in [Servers -> ServerRow] /\ ServerInv' => IInv')
  <2>1. event' \in [Orders -> [Kinds -> EventStatus]]
    BY <1>3 DEF IInv, TypeOK
  <2> QED
    BY <1>1, <1>2, <1>3, <1>4, <1>6, <2>1, OrderStep
<1>8. server' \in [Servers -> ServerRow] /\ ServerInv'
  BY <1>1, <1>7, ReturnTyped, ReturnServer DEF CloseOrder, At, IInv
<1> QED
  BY <1>7, <1>8

LEMMA EventTyped ==
    ASSUME TypeOK, NEW o \in Orders, NEW k \in Kinds, NEW status \in EventStatus,
           event' = [event EXCEPT ![o][k] = status]
    PROVE  /\ event' \in [Orders -> [Kinds -> EventStatus]]
           /\ event'[o][k] = status
           /\ \A p \in Orders, j \in Kinds : p # o \/ j # k => event'[p][j] = event[p][j]
<1>1. event \in [Orders -> [Kinds -> EventStatus]]
  BY DEF TypeOK
<1> QED
  BY <1>1

LEMMA EventStep ==
    ASSUME IInv, NEW o \in Orders, NEW k \in Kinds, NEW status \in EventStatus,
           event' = [event EXCEPT ![o][k] = status], UNCHANGED <<order, binding, provider>>,
           status # "absent",
           k = "revoking" => provider[o].refunded,
           k = "completed" => provider[o].session = "complete",
           k = "completed" => status = "pending" \/ order[o].status \in {"paid", "revoked"}
    PROVE  /\ Kept
           /\ server' \in [Servers -> ServerRow] /\ ServerInv' => IInv'
<1>1. Kept
  BY DEF Kept, Dead
<1>2. EventInv'
  BY EventTyped DEF EventInv, IInv
<1>3. ProviderInv' /\ OrderInv' /\ ScopeInv'
  BY DEF ProviderInv, OrderInv, ScopeInv, IInv, Dead
<1>4. event' \in [Orders -> [Kinds -> EventStatus]]
  BY EventTyped DEF IInv
<1> QED
  BY <1>1, <1>2, <1>3, <1>4 DEF IInv, TypeOK

LEMMA ReceiveInv ==
    ASSUME IInv, NEW w \in Servers, NEW o \in Orders, NEW k \in Kinds, Receive(w, o, k)
    PROVE  IInv'
<1> DEFINE row == [Idle EXCEPT !.pc = AfterRecord(k, order[o]), !.order = o, !.event = k,
                               !.session = order[o].session]
<1>1. /\ order[o].status # "absent" /\ order[o] \in OrderRow
      /\ event' = [event EXCEPT ![o][k] = "pending"] /\ UNCHANGED <<order, binding, provider>>
      /\ server' = [server EXCEPT ![w] = row]
  BY DEF Receive, Handle, IInv, TypeOK
<1>2. /\ k = "revoking" => provider[o].refunded
      /\ k = "completed" => provider[o].session = "complete"
  BY DEF Receive, Emitted, IInv, EventInv
<1>3. Kept /\ (server' \in [Servers -> ServerRow] /\ ServerInv' => IInv')
  BY <1>1, <1>2, EventStep DEF EventStatus
<1>4. /\ row \in ServerRow
      /\ row.pc = AfterRecord(k, order[o]) /\ row.order = o /\ row.event = k
  BY <1>1 DEF Idle, ServerRow, OrderRow, AfterRecord
<1>5. /\ server' \in [Servers -> ServerRow]
      /\ server'[w] = row
      /\ \A v \in Servers \ {w} : server'[v] = server[v]
  BY <1>1, <1>4, RowTyped DEF IInv
<1>6. row.pc # "close" /\ row.pc # "cancel" /\ (row.pc = "finish" => k \notin {"completed", "succeeded"})
  BY <1>4 DEF AfterRecord
<1>7. ServerKnows(server[w])'
  BY <1>1, <1>2, <1>4, <1>5, <1>6 DEF ServerKnows
<1>8. ServerStage(server[w])'
  BY <1>4, <1>5 DEF ServerStage, AfterRecord
<1> QED
  BY <1>3, <1>5, <1>7, <1>8, ServerStep DEF IInv

LEMMA QuarantineInv ==
    ASSUME IInv, NEW w \in Servers, Quarantine(w)
    PROVE  IInv'
<1> DEFINE o == server[w].order
           k == server[w].event
<1>1. /\ o \in Orders /\ k \in Kinds /\ k = "succeeded"
      /\ event' = [event EXCEPT ![o][k] = "failed"] /\ UNCHANGED <<order, binding, provider>>
  BY Serves DEF Quarantine, At, ServerStage
<1>2. Kept /\ (server' \in [Servers -> ServerRow] /\ ServerInv' => IInv')
  BY <1>1, EventStep DEF EventStatus
<1> QED
  BY <1>2, DoneTyped, DoneServer DEF Quarantine, IInv

LEMMA FinishInv ==
    ASSUME IInv, NEW w \in Servers, Finish(w)
    PROVE  IInv'
<1> DEFINE o == server[w].order
           k == server[w].event
           row == RowAfter(k, order[o])
<1>1. /\ server[w].pc = "finish" /\ ServerKnows(server[w]) /\ k \in Kinds /\ o \in Orders
      /\ order[o] \in OrderRow /\ OrderOk(order[o]) /\ ProviderOk(provider[o])
  BY Serves, Unserved DEF Finish, At, ServerKnows, ServerStage
<1>2. /\ order' = [order EXCEPT ![o] = row]
      /\ event' = [event EXCEPT ![o][k] = "fulfilled"]
      /\ UNCHANGED <<binding, provider>>
  BY DEF Finish
<1>3. /\ row \in OrderRow /\ OrderOk(row) /\ row.scope = order[o].scope
      /\ order[o].status \in {"paid", "revoked"} => row.status \in {"paid", "revoked"}
      /\ k \in {"revoking", "completed", "succeeded"} => row.status \in {"paid", "revoked"}
      /\ k \notin {"revoking", "completed", "succeeded"} => row = order[o]
  BY <1>1 DEF RowAfter, Revoked, Paid, MayGrant, OrderRow, Status, OrderOk
<1>4. /\ k = "revoking" => provider[o].refunded
      /\ k \in {"completed", "succeeded"} => provider[o].session = "complete"
  BY <1>1 DEF ServerKnows
<1>5. order[o].status = "expired" => Dead(o)
  BY <1>1 DEF IInv, OrderInv
<1>6. k \in {"revoking", "completed", "succeeded"} => ~Dead(o)
  BY <1>1, <1>4 DEF Dead, ProviderOk
<1>7. /\ row.status = "expired" => Dead(o)
      /\ order[o].status = "expired" => row.status = "expired"
  BY <1>3, <1>5, <1>6
<1>8. event' \in [Orders -> [Kinds -> EventStatus]]
  BY <1>1, <1>2, EventTyped DEF EventStatus, IInv
<1>9. /\ Kept /\ order'[o] = row
      /\ server' \in [Servers -> ServerRow] /\ ServerInv' /\ EventInv' => IInv'
  <2> HIDE DEF row
  <2> QED
    BY <1>1, <1>2, <1>3, <1>7, <1>8, OrderStep
<1>10. EventInv'
  <2> SUFFICES ASSUME NEW p \in Orders
               PROVE  /\ "revoking" \in Kinds /\ event'[p]["revoking"] # "absent" =>
                            provider[p].refunded
                      /\ "completed" \in Kinds /\ event'[p]["completed"] # "absent" =>
                            provider[p].session = "complete"
                      /\ "completed" \in Kinds
                            /\ event'[p]["completed"] \in {"fulfilled", "failed"} =>
                            order'[p].status \in {"paid", "revoked"}
    BY <1>2 DEF EventInv
  <2> HIDE DEF row
  <2>1. \A j \in Kinds : p # o \/ j # k => event'[p][j] = event[p][j]
    BY <1>1, <1>2, EventTyped DEF EventStatus, IInv
  <2>2. order[p].status \in {"paid", "revoked"} => order'[p].status \in {"paid", "revoked"}
    <3>1. CASE p = o
      BY <1>3, <1>9, <3>1
    <3>2. CASE p # o
      BY <1>2, <3>2 DEF IInv, TypeOK
    <3> QED
      BY <3>1, <3>2
  <2>3. CASE p = o /\ k = "completed"
    BY <1>3, <1>4, <1>9, <2>1, <2>3 DEF EventInv, IInv
  <2>4. CASE p = o /\ k = "revoking"
    BY <1>4, <2>1, <2>2, <2>4 DEF EventInv, IInv
  <2>5. CASE p # o \/ k \notin {"completed", "revoking"}
    BY <2>1, <2>2, <2>5 DEF EventInv, IInv
  <2> QED
    BY <2>3, <2>4, <2>5
<1> QED
  BY <1>9, <1>10, DoneTyped, DoneServer DEF Finish, IInv

LEMMA BindingTyped ==
    ASSUME TypeOK, NEW k \in Keys, NEW o \in Orders, binding' = [binding EXCEPT ![k] = o]
    PROVE  binding' \in [Keys -> Orders \cup {None}]
BY DEF TypeOK

\* The scope of an order that is placed has no other order that is not expired: one
\* that is live would be reused, and one that was revoked bars the checkout.
LEMMA PlaceInv ==
    ASSUME IInv, NEW w \in Servers, NEW k \in Keys, NEW s \in Scopes,
           Place(w, k, s), ~ScopeRevoked(s),
           UNCHANGED <<event, provider>>
    PROVE  IInv'
<1> DEFINE row == [NoOrder EXCEPT !.scope = s, !.status = "creating"]
<1>1. PICK o \in Orders :
        /\ order[o].status = "absent"
        /\ order' = [order EXCEPT ![o] = row]
        /\ binding' = [binding EXCEPT ![k] = o]
        /\ Serve(w, o, row)
  BY DEF Place
<1>2. /\ row \in OrderRow /\ row.scope = s /\ row.status = "creating"
      /\ row.entitlement = "none"
  <2>1. NoOrder \in OrderRow /\ NoOrder.entitlement = "none"
    BY DEF NoOrder, OrderRow, Status
  <2> QED
    BY <2>1 DEF OrderRow, Status
<1> HIDE DEF row
<1>3. /\ order' \in [Orders -> OrderRow]
      /\ order'[o] = row
      /\ \A p \in Orders \ {o} : order'[p] = order[p]
  BY <1>1, <1>2 DEF IInv, TypeOK
<1>4. Kept
  BY <1>1, <1>2, <1>3 DEF Kept, Dead
<1>5. ServerInv'
  BY <1>1, <1>2, <1>3, <1>4, ServeServer DEF IInv
<1>6. OrderInv'
  BY <1>2, <1>3 DEF OrderInv, IInv, Dead
<1>7. EventInv'
  BY <1>1, <1>2, <1>3 DEF EventInv, IInv
<1>8. \A p \in Orders \ {o} : order[p].scope = s => order[p].status = "expired"
  <2> SUFFICES ASSUME NEW p \in Orders \ {o}, order[p].scope = s
               PROVE  order[p].status = "expired"
    OBVIOUS
  <2>1. order[p].status # "absent" /\ order[p].status \in Status
    BY DEF IInv, TypeOK, OrderRow, OrderInv
  <2> QED
    BY <2>1 DEF Place, Live, InScope, ScopeRevoked, Status
<1>9. ScopeInv'
  BY <1>2, <1>3, <1>8 DEF ScopeInv, IInv
<1>10. ProviderInv'
  BY DEF ProviderInv, IInv
<1> QED
  BY <1>1, <1>2, <1>3, <1>5, <1>6, <1>7, <1>9, <1>10, BindingTyped, ServeTyped DEF IInv, TypeOK

LEMMA CheckoutInv ==
    ASSUME IInv, NEW w \in Servers, NEW k \in Keys, NEW s \in Scopes, Checkout(w, k, s)
    PROVE  IInv'
<1>1. ASSUME NEW o \in InScope(s), Serve(w, o, order[o]), UNCHANGED <<order, event, provider>>,
             binding' = binding \/ binding' = [binding EXCEPT ![k] = o]
      PROVE  IInv'
  <2>1. o \in Orders /\ order[o] \in OrderRow /\ order'[o].status # "absent"
    BY <1>1 DEF InScope, IInv, TypeOK, OrderInv
  <2>2. Kept /\ ProviderInv' /\ OrderInv' /\ EventInv' /\ ScopeInv'
    BY <1>1 DEF Kept, ProviderInv, OrderInv, EventInv, ScopeInv, IInv, Dead
  <2>3. ServerInv'
    BY <1>1, <2>1, <2>2, ServeServer DEF IInv
  <2> QED
    BY <1>1, <2>1, <2>2, <2>3, BindingTyped, ServeTyped DEF IInv, TypeOK
<1>2. CASE Replay(w, k, s)
  BY <1>1, <1>2 DEF Checkout, Replay
<1>3. CASE Reuse(w, k, s)
  BY <1>1, <1>3 DEF Checkout, Reuse
<1>4. CASE Place(w, k, s)
  BY <1>4, PlaceInv DEF Checkout, Place
<1> QED
  BY <1>2, <1>3, <1>4 DEF Checkout

(***************************************************************************)
(* The invariant, and what follows from it.                                *)
(***************************************************************************)
LEMMA NextInv == IInv /\ [Next]_vars => IInv'
<1> SUFFICES ASSUME IInv, [Next]_vars PROVE IInv'
  OBVIOUS
<1>1. ASSUME NEW w \in Servers, Serving(w) PROVE IInv'
  <2>1. ASSUME NEW k \in Keys, NEW s \in Scopes, Checkout(w, k, s) PROVE IInv'
    BY <2>1, CheckoutInv
  <2>2. ASSUME NEW o \in Orders, Poll(w, o) PROVE IInv'
    BY <2>2, PollInv
  <2>3. ASSUME NEW o \in Orders, NEW k \in Kinds, Receive(w, o, k) PROVE IInv'
    BY <2>3, ReceiveInv
  <2>4. CASE CheckoutStep(w)
    BY <2>4, AbandonInv, CreateInv, AttachInv, RetrieveInv, ExpireSessionInv, CancelIntentInv,
       CloseOrderInv DEF CheckoutStep
  <2>5. CASE SettlementStep(w)
    BY <2>5, SettleInv, ReadIntentInv, QuarantineInv, FinishInv DEF SettlementStep
  <2> QED
    BY <1>1, <2>1, <2>2, <2>3, <2>4, <2>5 DEF Serving
<1>2. ASSUME NEW w \in Servers, Crash(w) PROVE IInv'
  BY <1>2, CrashInv
<1>3. ASSUME NEW o \in Orders, Outside(o) \/ Tick(o) PROVE IInv'
  BY <1>3, OutsideInv, TickInv
<1>4. CASE UNCHANGED vars
  <2>1. UNCHANGED <<order, binding, event, provider, server>>
    BY <1>4 DEF vars
  <2> QED
    BY <2>1 DEF IInv, TypeOK, ProviderInv, OrderInv, EventInv, ServerInv, ServerKnows,
        ServerStage, ScopeInv, Dead
<1> QED
  BY <1>1, <1>2, <1>3, <1>4 DEF Next

LEMMA InvHolds == Spec => []IInv
<1>1. IInv /\ [Next]_vars => IInv'
  BY NextInv
<1> QED
  BY InitInv, <1>1, PTL DEF Spec

\* Every row of the tables keeps to the statuses the migration allows, and every
\* process to the steps of its handler.
THEOREM TypeCorrect == Spec => []TypeOK
<1>1. IInv => TypeOK
  BY DEF IInv
<1> QED
  BY <1>1, InvHolds, PTL

\* An order whose customer was told to buy again cannot be charged any more, whatever
\* the interleaving of polls, expiries, cancellations and payments.
THEOREM ReplacedIsDead == Spec => []ReplacedNeverCharged
<1>1. IInv => ReplacedNeverCharged
  BY DEF IInv, OrderInv, Dead, ReplacedNeverCharged
<1> QED
  BY <1>1, InvHolds, PTL

\* A handled completion has given the customer the scope, or a refund took it back.
THEOREM CompletionKept == Spec => []CompletionNotLost
<1>1. IInv => CompletionNotLost
  BY DEF IInv, EventInv, CompletionNotLost
<1> QED
  BY <1>1, InvHolds, PTL

\* An order that was paid for is revoked, or no other order of its scope is live or
\* gives access: the unique indexes never abort its settlement.
THEOREM SettlementFree == Spec => []SettlementNotBlocked
<1>1. IInv => SettlementNotBlocked
  <2> SUFFICES ASSUME IInv, NEW o \in Orders, provider[o].session = "complete",
                      NEW p \in InScope(order[o].scope) \ {o}
               PROVE  ~Live(p) /\ order[p].entitlement # "active"
    BY DEF SettlementNotBlocked, NoOtherOwner
  <2>1. provider[o].intent = "succeeded"
    BY DEF IInv, ProviderInv
  <2>2. order[o].status # "expired" /\ order[o].scope # None
    BY <2>1 DEF IInv, OrderInv, Dead
  <2>3. order[p].status = "expired"
    BY <2>2 DEF IInv, ScopeInv, InScope
  <2> QED
    BY <2>3 DEF Live, IInv, OrderInv, InScope
<1> QED
  BY <1>1, InvHolds, PTL


(***************************************************************************)
(* The paid Workshop keeps the promise of PurchaseOnce.                    *)
(***************************************************************************)
ChargesOf == [s \in Scopes |-> Charges(s)]
AccessOf == [s \in Scopes |-> Access(s)]

Sells == [Promised!PurchaseNext]_<<ChargesOf, AccessOf>>

\* What the promise sees of an order.
Taken(o) == provider[o].intent = "succeeded"
Closed(o) == order[o].status = "revoked"
Granted(o) == order[o].entitlement = "active"

LEMMA SameSale ==
    ASSUME \A o \in Orders :
            /\ (Taken(o) <=> Taken(o)') /\ (Closed(o) <=> Closed(o)')
            /\ (Granted(o) <=> Granted(o)')
            /\ order'[o].scope # order[o].scope => ~Taken(o) /\ ~Closed(o) /\ ~Granted(o)
    PROVE  Sells
<1>1. \A s \in Scopes : Charges(s)' = Charges(s)
  BY DEF Charges, InScope, Taken
<1>2. \A s \in Scopes : /\ (\E o \in InScope(s)' : Closed(o)') <=> \E o \in InScope(s) : Closed(o)
                        /\ (\E o \in InScope(s)' : Granted(o)') <=> \E o \in InScope(s) : Granted(o)
  BY DEF InScope
<1>3. \A s \in Scopes : Access(s)' = Access(s)
  BY <1>2 DEF Access, Closed, Granted
<1> QED
  BY <1>1, <1>3 DEF Sells, ChargesOf, AccessOf

\* An order that is not dead is alone in its scope with a charge or an access.
LEMMA AloneInScope ==
    ASSUME IInv, NEW o \in Orders, order[o].status \notin {"absent", "expired"}
    PROVE  /\ order[o].scope \in Scopes
           /\ \A p \in InScope(order[o].scope) \ {o} : ~Taken(p) /\ ~Closed(p) /\ ~Granted(p)
<1>1. order[o].scope \in Scopes
  BY DEF IInv, TypeOK, OrderRow, OrderInv
<1>2. \A p \in InScope(order[o].scope) \ {o} : order[p].status = "expired"
  BY <1>1 DEF IInv, ScopeInv, InScope
<1>3. \A p \in Orders : order[p].status = "expired" => ~Taken(p) /\ ~Closed(p) /\ ~Granted(p)
  BY DEF IInv, OrderInv, Dead, Taken, Closed, Granted
<1> QED
  BY <1>1, <1>2, <1>3 DEF InScope

LEMMA ChargeSells ==
    ASSUME IInv, NEW o \in Orders, Charge(o), UNCHANGED order
    PROVE  Sells
<1> DEFINE s == order[o].scope
<1>1. /\ provider' = [provider EXCEPT ![o].intent = "succeeded"]
      /\ provider[o].intent = "unpaid"
      /\ provider'[o].intent = "succeeded"
      /\ \A p \in Orders \ {o} : provider'[p] = provider[p]
  BY DEF Charge, IInv, TypeOK, ProviderRow
<1>2. order[o].status \notin {"absent", "expired"}
  BY <1>1 DEF IInv, ProviderInv, OrderInv, Dead
<1>3. s \in Scopes /\ \A p \in InScope(s) \ {o} : ~Taken(p)
  BY <1>2, AloneInScope
<1>4. Charges(s) = {} /\ Charges(s)' = {o}
  BY <1>1, <1>3 DEF Charges, InScope, Taken
<1>5. \A t \in Scopes \ {s} : Charges(t)' = Charges(t)
  BY <1>1 DEF Charges, InScope
<1>6. AccessOf' = AccessOf
  BY DEF AccessOf, Access, InScope
<1>7. ChargesOf' = [ChargesOf EXCEPT ![s] = {o}]
  BY <1>3, <1>4, <1>5 DEF ChargesOf
<1>8. Promised!TakeMoney(s)
  BY <1>3, <1>4, <1>6, <1>7 DEF Promised!TakeMoney, ChargesOf, AccessOf
<1> QED
  BY <1>3, <1>8 DEF Promised!PurchaseNext, Sells

LEMMA FinishSells ==
    ASSUME IInv, NEW w \in Servers, Finish(w)
    PROVE  Sells
<1> DEFINE o == server[w].order
           k == server[w].event
           row == RowAfter(k, order[o])
<1>1. /\ server[w].pc = "finish" /\ ServerKnows(server[w]) /\ k \in Kinds /\ o \in Orders
      /\ order[o] \in OrderRow /\ OrderOk(order[o]) /\ ProviderOk(provider[o])
  BY Serves, Unserved DEF Finish, At, ServerKnows, ServerStage
<1>2. /\ order' = [order EXCEPT ![o] = row] /\ provider' = provider
      /\ order'[o] = row
      /\ \A p \in Orders \ {o} : order'[p] = order[p]
  BY <1>1 DEF Finish, IInv, TypeOK
<1>. PICK s \in Scopes \cup {None} : s = order[o].scope
  BY <1>1 DEF OrderRow
<1>3. row.scope = s
  BY <1>1 DEF RowAfter, Revoked, Paid, MayGrant, OrderRow
<1>4. \A t \in Scopes : InScope(t)' = InScope(t)
  BY <1>1, <1>2, <1>3 DEF InScope
<1>5. ChargesOf' = ChargesOf
  BY <1>2, <1>4 DEF ChargesOf, Charges
<1>6. CASE row.status = order[o].status \/ k \notin {"revoking", "completed", "succeeded"}
  <2>1. row.status = order[o].status /\ (row.entitlement = "active" <=> order[o].entitlement = "active")
    BY <1>1, <1>6 DEF RowAfter, Revoked, Paid, MayGrant, OrderRow, OrderOk
  <2> HIDE DEF row
  <2> QED
    BY <1>2, <1>3, <2>1, SameSale DEF Taken, Closed, Granted
<1>7. CASE row.status # order[o].status /\ k \in {"revoking", "completed", "succeeded"}
  <2>1. Taken(o) /\ order[o].status \notin {"absent", "expired"}
    BY <1>1, <1>7 DEF ServerKnows, ProviderOk, Taken, OrderOk, IInv, OrderInv, Dead
  <2>2. /\ s \in Scopes
        /\ \A p \in InScope(s) \ {o} : ~Closed(p) /\ ~Granted(p)
    BY <1>1, <2>1, AloneInScope
  <2>3. Charges(s) # {}
    BY <1>1, <2>1 DEF Charges, InScope, Taken
  <2>4. \A t \in Scopes \ {s} : Access(t)' = Access(t)
    <3>1. \A t \in Scopes \ {s} : \A p \in InScope(t) : order'[p] = order[p]
      BY <1>2 DEF InScope
    <3> QED
      BY <1>4, <3>1 DEF Access
  <2>5. ~Closed(o) /\ (k # "revoking" => ~Granted(o))
    BY <1>1, <1>7 DEF RowAfter, Revoked, Paid, MayGrant, OrderRow, OrderOk, Closed, Granted
  <2>6. Access(s) \in {"none", "granted"} /\ (k # "revoking" => Access(s) = "none")
    BY <2>2, <2>5 DEF Access, Closed, Granted, InScope
  <2>7. CASE k = "revoking"
    <3>1. row.status = "revoked" /\ row.entitlement # "active"
      BY <1>1, <2>7 DEF RowAfter, Revoked, OrderRow
    <3>2. Access(s)' = "closed"
      <4> HIDE DEF row
      <4>1. order'[o].scope = s
        BY <1>2, <1>3
      <4>2. \A p \in Orders : order'[p].scope = s => order'[p].entitlement # "active"
        BY <1>1, <1>2, <1>3, <2>2, <3>1 DEF InScope, Granted
      <4> QED
        BY <1>1, <1>2, <3>1, <4>1, <4>2 DEF Access, InScope
    <3>3. AccessOf' = [AccessOf EXCEPT ![s] = "closed"]
      BY <2>2, <2>4, <3>2 DEF AccessOf
    <3>4. Promised!TakeBack(s)
      BY <1>5, <2>2, <2>3, <2>6, <3>3 DEF Promised!TakeBack, ChargesOf, AccessOf
    <3> QED
      BY <2>2, <3>4 DEF Promised!PurchaseNext, Sells
  <2>8. CASE k # "revoking"
    <3>1. row.status = "paid" /\ row.entitlement = "active"
      BY <1>1, <1>7, <2>8 DEF RowAfter, Paid, OrderRow
    <3>2. Access(s)' = "granted"
      BY <1>1, <1>2, <1>4, <2>2, <3>1 DEF Access, InScope, Closed
    <3>3. AccessOf' = [AccessOf EXCEPT ![s] = "granted"]
      BY <2>2, <2>4, <3>2 DEF AccessOf
    <3>4. Promised!Give(s)
      BY <1>5, <2>2, <2>3, <2>6, <2>8, <3>3 DEF Promised!Give, ChargesOf, AccessOf
    <3> QED
      BY <2>2, <3>4 DEF Promised!PurchaseNext, Sells
  <2> QED
    BY <2>7, <2>8
<1> QED
  BY <1>6, <1>7

LEMMA OrderSells ==
    ASSUME IInv, NEW o \in Orders, NEW row, order' = [order EXCEPT ![o] = row],
           UNCHANGED provider, row.scope = order[o].scope,
           row.status = "revoked" <=> order[o].status = "revoked",
           row.entitlement = order[o].entitlement
    PROVE  Sells
<1>1. order'[o] = row /\ \A p \in Orders \ {o} : order'[p] = order[p]
  BY DEF IInv, TypeOK
<1> QED
  BY <1>1, SameSale DEF Taken, Closed, Granted

LEMMA ProviderSells ==
    ASSUME UNCHANGED order,
           \A o \in Orders : provider'[o].intent = "succeeded" <=> provider[o].intent = "succeeded"
    PROVE  Sells
BY SameSale DEF Taken, Closed, Granted

LEMMA CheckoutSells ==
    ASSUME IInv, NEW w \in Servers, NEW k \in Keys, NEW s \in Scopes, Checkout(w, k, s)
    PROVE  Sells
<1>1. CASE UNCHANGED order
  BY <1>1, ProviderSells DEF Checkout
<1>2. CASE Place(w, k, s)
  <2> DEFINE row == [NoOrder EXCEPT !.scope = s, !.status = "creating"]
  <2>1. PICK o \in Orders : order[o].status = "absent" /\ order' = [order EXCEPT ![o] = row]
    BY <1>2 DEF Place
  <2>2. row.status = "creating" /\ row.entitlement = "none"
    BY DEF NoOrder
  <2> HIDE DEF row
  <2>3. order'[o] = row /\ (\A p \in Orders \ {o} : order'[p] = order[p]) /\ provider' = provider
    BY <2>1 DEF IInv, TypeOK, Checkout
  <2>4. ~Taken(o) /\ ~Closed(o) /\ ~Granted(o)
    BY <2>1 DEF IInv, OrderInv, ProviderInv, Taken, Closed, Granted
  <2>5. ~Taken(o)' /\ ~Closed(o)' /\ ~Granted(o)'
    BY <2>2, <2>3, <2>4 DEF Taken, Closed, Granted
  <2>6. \A p \in Orders \ {o} : /\ (Taken(p)' <=> Taken(p)) /\ (Closed(p)' <=> Closed(p))
                              /\ (Granted(p)' <=> Granted(p)) /\ order'[p].scope = order[p].scope
    BY <2>3 DEF Taken, Closed, Granted
  <2> QED
    BY <2>4, <2>5, <2>6, SameSale
<1> QED
  BY <1>1, <1>2 DEF Checkout, Replay, Reuse

LEMMA RowsSell ==
    ASSUME IInv, NEW w \in Servers, Abandon(w) \/ Attach(w) \/ CloseOrder(w)
    PROVE  Sells
<1> DEFINE o == server[w].order
<1>1. o \in Orders /\ order[o] \in OrderRow /\ order \in [Orders -> OrderRow]
  BY Serves DEF Abandon, Attach, CloseOrder, At, IInv, TypeOK
<1>2. CASE UNCHANGED order
  BY <1>2, ProviderSells DEF Abandon, Attach, CloseOrder
<1>3. CASE order[o].status = "creating" /\ Abandon(w)
  <2> DEFINE row == [order[o] EXCEPT !.status = "reconciliation_required"]
  <2>1. order' = [order EXCEPT ![o] = row] /\ UNCHANGED provider
    BY <1>1, <1>3 DEF Abandon
  <2>2. /\ row.scope = order[o].scope /\ row.entitlement = order[o].entitlement
        /\ row.status = "reconciliation_required"
    BY <1>1 DEF OrderRow
  <2> HIDE DEF row
  <2> QED
    BY <1>1, <1>3, <2>1, <2>2, OrderSells
<1>4. CASE Attach(w)
  <2> DEFINE row == [order[o] EXCEPT !.session = TRUE, !.status = StatusWithSession(order[o].status)]
  <2>1. order' = [order EXCEPT ![o] = row] /\ UNCHANGED provider
    BY <1>1, <1>4 DEF Attach
  <2>2. /\ row.scope = order[o].scope /\ row.entitlement = order[o].entitlement
        /\ row.status = StatusWithSession(order[o].status)
    BY <1>1 DEF OrderRow
  <2> HIDE DEF row
  <2> QED
    BY <1>1, <1>4, <2>1, <2>2, OrderSells DEF StatusWithSession
<1>5. CASE StillOpen(o) /\ CloseOrder(w)
  <2> DEFINE row == [order[o] EXCEPT !.status = "expired"]
  <2>1. order' = [order EXCEPT ![o] = row] /\ UNCHANGED provider
    BY <1>1, <1>5 DEF CloseOrder
  <2>2. /\ row.scope = order[o].scope /\ row.entitlement = order[o].entitlement
        /\ row.status = "expired"
    BY <1>1 DEF OrderRow
  <2> HIDE DEF row
  <2> QED
    BY <1>1, <1>5, <2>1, <2>2, OrderSells DEF StillOpen
<1> QED
  BY <1>2, <1>3, <1>4, <1>5 DEF Abandon, CloseOrder

LEMMA CallsSell ==
    ASSUME IInv, NEW w \in Servers, Create(w) \/ ExpireSession(w) \/ CancelIntent(w)
    PROVE  Sells
<1> DEFINE o == server[w].order
<1>1. /\ o \in Orders /\ provider \in [Orders -> ProviderRow]
      /\ UNCHANGED order
  BY Serves DEF Create, ExpireSession, CancelIntent, At, IInv, TypeOK, db
<1>2. \A p \in Orders : provider'[p].intent = "succeeded" <=> provider[p].intent = "succeeded"
  BY <1>1 DEF Create, ExpireSession, CancelIntent, ProviderRow
<1> QED
  BY <1>1, <1>2, ProviderSells

LEMMA OutsideSells ==
    ASSUME IInv, NEW o \in Orders, Outside(o)
    PROVE  Sells
<1>1. UNCHANGED order
  BY DEF Outside, db
<1>2. CASE Charge(o)
  BY <1>1, <1>2, ChargeSells
<1>3. CASE BeginPayment(o) \/ CompleteSession(o) \/ LapseSession(o) \/ Refund(o)
  <2>1. \A p \in Orders :
            provider'[p].intent = "succeeded" <=> provider[p].intent = "succeeded"
    BY <1>3 DEF BeginPayment, CompleteSession, LapseSession, Refund, IInv, TypeOK, ProviderRow
  <2> QED
    BY <1>1, <2>1, ProviderSells
<1> QED
  BY <1>2, <1>3 DEF Outside

LEMMA TickSells ==
    ASSUME IInv, NEW o \in Orders, Tick(o)
    PROVE  Sells
<1> DEFINE row == [order[o] EXCEPT !.age = @ + 1]
<1>1. order' = [order EXCEPT ![o] = row] /\ UNCHANGED provider
  BY DEF Tick
<1>2. /\ row.scope = order[o].scope /\ row.entitlement = order[o].entitlement
      /\ row.status = order[o].status
  BY DEF IInv, TypeOK, OrderRow
<1> HIDE DEF row
<1> QED
  BY <1>1, <1>2, OrderSells

LEMMA StepSells == IInv /\ [Next]_vars => Sells
<1> SUFFICES ASSUME IInv, [Next]_vars PROVE Sells
  OBVIOUS
<1>1. CASE UNCHANGED <<order, provider>>
  BY <1>1, ProviderSells
<1>2. ASSUME NEW w \in Servers, Serving(w) PROVE Sells
  <2>1. ASSUME NEW k \in Keys, NEW s \in Scopes, Checkout(w, k, s) PROVE Sells
    BY <2>1, CheckoutSells
  <2>2. CASE CheckoutStep(w)
    BY <1>1, <2>2, RowsSell, CallsSell DEF CheckoutStep, Retrieve, db
  <2>3. CASE SettlementStep(w)
    BY <1>1, <2>3, FinishSells DEF SettlementStep, Settle, ReadIntent, Quarantine, db
  <2> QED
    BY <1>1, <1>2, <2>1, <2>2, <2>3 DEF Serving, Poll, Receive, db
<1>3. ASSUME NEW o \in Orders, Outside(o) \/ Tick(o) PROVE Sells
  BY <1>3, OutsideSells, TickSells
<1> QED
  BY <1>1, <1>2, <1>3 DEF Next, Crash, vars, db

\* Whatever the interleaving of checkouts, expiries, events and payments, an account is
\* charged for a scope once at most, has access only after a charge, and none after a
\* refund (commerce_service.py:230-466).
THEOREM SellsAtMostOnce == Spec => SellsOnce
<1>1. Init => Promised!Unsold
  <2> SUFFICES ASSUME Init, NEW s \in Scopes PROVE Charges(s) = {} /\ Access(s) = "none"
    BY DEF Promised!Unsold
  <2>1. InScope(s) = {}
    BY DEF Init, NoOrder, InScope
  <2> QED
    BY <2>1 DEF Charges, Access
<1>2. IInv /\ [Next]_vars => [Promised!PurchaseNext]_<<ChargesOf, AccessOf>>
  BY StepSells DEF Sells
<1>3. IInv /\ [Next]_vars =>
        [Promised!PurchaseNext]_<<[s \in Scopes |-> Charges(s)], [s \in Scopes |-> Access(s)]>>
  BY <1>2 DEF ChargesOf, AccessOf
<1> QED
  BY <1>1, <1>3, InvHolds, PTL DEF Spec, SellsOnce, Promised!Promise

=============================================================================
