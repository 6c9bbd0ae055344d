--------------------------- MODULE CheckoutProofs ---------------------------
(***************************************************************************)
(* Theorems about Checkout, for every value of its constants: typing, the  *)
(* token that goes with its session, one order under way for an account,   *)
(* and an order that charges what was quoted.                              *)
(***************************************************************************)
EXTENDS CheckoutProperties, SumLemmas

USE DEF sessionVars, orderVars, shopVars

-----------------------------------------------------------------------------
(* The inductive invariant *)

\* A session that does not exist has left nothing behind, and one for quests has an account.
RowsInv ==
  /\ \A s \in Sessions : state[s] = "NONE" =>
       /\ page[s] = 0 /\ selected[s] = {} /\ order[s] = Nothing /\ operation[s] = "NONE"
  /\ \A s \in Sessions : operation[s] = "CHECKOUT" => account[s] \in Accounts
  /\ \A s \in open : state[s] = "CONFIRMED"

\* What a handler remembers is there, and is what it took it for.
HandlerKnows(h) ==
  /\ mem[h].pc \in {"resolve", "complete"} =>
       /\ mem[h].entry \in Sessions /\ operation[mem[h].entry] = "TOKEN_ENTRY"
       /\ state[mem[h].entry] # "NONE"
  /\ mem[h].pc = "resolve" => mem[h].account \in Accounts
  /\ mem[h].pc \in Steps \ {"idle", "resolve"} =>
       /\ mem[h].session \in Sessions /\ operation[mem[h].session] = "CHECKOUT"
       /\ state[mem[h].session] # "NONE" /\ mem[h].values \subseteq Options(mem[h].session)
MemoryInv == \A h \in Handlers : HandlerKnows(h)

CheckoutInv == TypeOK /\ RowsInv /\ MemoryInv /\ TokenFollowsSession /\ OneOrderPerAccount

-----------------------------------------------------------------------------
(* Operators *)

\* There is always a page.
LEMMA PagesType == \A s \in Sessions : Pages(s) \in Nat \ {0}
<1> SUFFICES ASSUME NEW s \in Sessions PROVE Pages(s) \in Nat \ {0}
  OBVIOUS
<1>1. Cardinality(Options(s)) \in Nat
  <2>1. IsFiniteSet(Quests)
    <3>1. MaxQuests \in Int
      BY CheckoutAssumption
    <3> QED BY <3>1, FS_Interval DEF Quests
  <2>2. Options(s) \in SUBSET Quests
    BY DEF Options
  <2> QED BY <2>1, <2>2, FS_Subset, FS_CardinalityType
<1>2. ASSUME NEW n \in Nat PROVE (n + PageSize - 1) \div PageSize \in Nat
  BY CheckoutAssumption
<1>3. (Cardinality(Options(s)) + PageSize - 1) \div PageSize \in Nat
  BY <1>1, <1>2
<1> QED BY <1>3 DEF Pages

\* A new session takes a free place.
LEMMA NewSessionIsFree == FreeSessions # {} => NewSession \in Sessions /\ state[NewSession] = "NONE"
<1> SUFFICES ASSUME FreeSessions # {} PROVE NewSession \in FreeSessions
  BY DEF FreeSessions
<1>1. FreeSessions \in SUBSET Nat
  BY CheckoutAssumption DEF FreeSessions, Sessions
<1>2. \E s \in FreeSessions : \A t \in FreeSessions : s <= t
  BY <1>1, LeastNat
<1> QED BY <1>2 DEF NewSession

\* A session's number is one a handler can remember.
LEMMA SessionNumber == \A s \in Sessions : s \in 0 .. MaxSessions
BY CheckoutAssumption DEF Sessions

\* A handler that does nothing remembers nothing.
LEMMA IdleType == Idle \in Memory /\ Idle.pc = "idle"
BY CheckoutAssumption DEF Idle, Memory, Steps

\* What handlers put into their memory.
LEMMA Remembered ==
  ASSUME NEW m \in Memory
  PROVE  /\ \A s \in 0 .. MaxSessions, b \in BOOLEAN, a \in Accounts, d \in SUBSET Quests :
              [m EXCEPT !.pc = "resolve", !.entry = s, !.moved = b, !.account = a, !.done = d] \in Memory
         /\ \A s, e \in 0 .. MaxSessions, b \in BOOLEAN :
              [m EXCEPT !.pc = "complete", !.session = s, !.entry = e, !.moved = b] \in Memory
         /\ \A s \in 0 .. MaxSessions, step \in Steps, v \in SUBSET Quests :
              [m EXCEPT !.pc = step, !.session = s, !.values = v] \in Memory
<1>1. ASSUME NEW s \in 0 .. MaxSessions, NEW b \in BOOLEAN, NEW a \in Accounts, NEW d \in SUBSET Quests
      PROVE  [m EXCEPT !.pc = "resolve", !.entry = s, !.moved = b, !.account = a, !.done = d] \in Memory
  BY DEF Memory, Steps
<1>2. ASSUME NEW s \in 0 .. MaxSessions, NEW e \in 0 .. MaxSessions, NEW b \in BOOLEAN
      PROVE  [m EXCEPT !.pc = "complete", !.session = s, !.entry = e, !.moved = b] \in Memory
  BY DEF Memory, Steps
<1>3. ASSUME NEW s \in 0 .. MaxSessions, NEW step \in Steps, NEW v \in SUBSET Quests
      PROVE  [m EXCEPT !.pc = step, !.session = s, !.values = v] \in Memory
  BY DEF Memory
<1> QED BY <1>1, <1>2, <1>3

\* What they add to it.
LEMMA Noted ==
  ASSUME NEW m \in [Handlers -> Memory], NEW h \in Handlers
  PROVE  /\ \A v \in SUBSET Quests, step \in Steps :
              /\ [m EXCEPT ![h].rows = v, ![h].pc = step] \in [Handlers -> Memory]
              /\ [m EXCEPT ![h].items = v, ![h].pc = step] \in [Handlers -> Memory]
              /\ [m EXCEPT ![h].done = v, ![h].pc = step] \in [Handlers -> Memory]
         /\ \A q \in Quests, price \in Rules \cup {Nothing} :
              [m EXCEPT ![h].asked = @ \cup {q}, ![h].prices[q] = price] \in [Handlers -> Memory]
<1> DEFINE r == m[h]
<1>0. r \in Memory
  OBVIOUS
<1>1. ASSUME NEW v \in SUBSET Quests, NEW step \in Steps
      PROVE  /\ [m EXCEPT ![h].rows = v, ![h].pc = step] \in [Handlers -> Memory]
             /\ [m EXCEPT ![h].items = v, ![h].pc = step] \in [Handlers -> Memory]
             /\ [m EXCEPT ![h].done = v, ![h].pc = step] \in [Handlers -> Memory]
  <2>1. /\ [r EXCEPT !.rows = v, !.pc = step] \in Memory
        /\ [r EXCEPT !.items = v, !.pc = step] \in Memory
        /\ [r EXCEPT !.done = v, !.pc = step] \in Memory
    BY <1>0 DEF Memory
  <2>2. /\ [m EXCEPT ![h].rows = v, ![h].pc = step] = [m EXCEPT ![h] = [r EXCEPT !.rows = v, !.pc = step]]
        /\ [m EXCEPT ![h].items = v, ![h].pc = step] = [m EXCEPT ![h] = [r EXCEPT !.items = v, !.pc = step]]
        /\ [m EXCEPT ![h].done = v, ![h].pc = step] = [m EXCEPT ![h] = [r EXCEPT !.done = v, !.pc = step]]
    OBVIOUS
  <2> QED BY <2>1, <2>2
<1>2. ASSUME NEW q \in Quests, NEW price \in Rules \cup {Nothing}
      PROVE  [m EXCEPT ![h].asked = @ \cup {q}, ![h].prices[q] = price] \in [Handlers -> Memory]
  <2>1. [r EXCEPT !.asked = @ \cup {q}, !.prices[q] = price] \in Memory
    BY <1>0 DEF Memory
  <2>2. [m EXCEPT ![h].asked = @ \cup {q}, ![h].prices[q] = price]
           = [m EXCEPT ![h] = [r EXCEPT !.asked = @ \cup {q}, !.prices[q] = price]]
    OBVIOUS
  <2> QED BY <2>1, <2>2
<1> QED BY <1>1, <1>2

-----------------------------------------------------------------------------
(* Typing of the handlers *)

\* Whatever a handler does, its memory stays well typed.
LEMMA MemoryType ==
  ASSUME CheckoutInv, [Next]_vars
  PROVE  mem' \in [Handlers -> Memory]
<1> USE IdleType
<1>0. mem \in [Handlers -> Memory] /\ SelectionOK /\ ShopOK
  BY DEF CheckoutInv, TypeOK
<1>1. ASSUME NEW h \in Handlers, Ends(h) PROVE mem' \in [Handlers -> Memory]
  BY <1>0, <1>1 DEF Ends
<1>2. ASSUME NEW h \in Handlers, NEW step \in Steps, Goes(h, step) PROVE mem' \in [Handlers -> Memory]
  BY <1>0, <1>2 DEF Goes, Memory
<1>3. ASSUME NEW h \in Handlers, NEW m \in Memory, mem' = [mem EXCEPT ![h] = m]
      PROVE  mem' \in [Handlers -> Memory]
  BY <1>0, <1>3
<1>4. ASSUME NEW h \in Handlers, NEW s \in Sessions, NEW a \in Accounts, HandleTokenSubmit(h, s, a)
      PROVE  mem' \in [Handlers -> Memory]
  <2> DEFINE m == [Idle EXCEPT !.pc = "resolve", !.entry = s, !.moved = s \in moved,
                               !.account = a, !.done = done[a]]
  <2>1. s \in 0 .. MaxSessions /\ (s \in moved) \in BOOLEAN /\ done[a] \in SUBSET Quests
    BY <1>0, SessionNumber DEF ShopOK
  <2>2. m \in Memory
    BY <2>1, Remembered
  <2>3. mem' = [mem EXCEPT ![h] = m]
    BY <1>4 DEF HandleTokenSubmit
  <2> HIDE DEF m
  <2> QED BY <1>3, <2>2, <2>3
<1>5. ASSUME NEW h \in Handlers, NEW s \in Sessions,
             NEW what \in {"previous", "next", "select", "all", "quote", "confirm"},
             NEW values \in SUBSET Quests, Click(h, s, what, values)
      PROVE  mem' \in [Handlers -> Memory]
  <2> DEFINE m == [Idle EXCEPT !.pc = what, !.session = s, !.values = values]
  <2>1. m \in Memory
    BY Remembered, SessionNumber DEF Steps
  <2>2. mem' = [mem EXCEPT ![h] = m]
    BY <1>5 DEF Click
  <2> HIDE DEF m
  <2> QED BY <1>3, <2>1, <2>2
<1>6. ASSUME NEW h \in Handlers, NEW q \in Quests, ResolveSaleEligibility(h, q)
      PROVE  mem' \in [Handlers -> Memory]
  <2> DEFINE price == IF q \in onSale \ mem[h].done THEN rule[q] ELSE Nothing
  <2>1. price \in Rules \cup {Nothing}
    BY <1>0 DEF ShopOK
  <2>2. mem' = [mem EXCEPT ![h].asked = @ \cup {q}, ![h].prices[q] = price]
    BY <1>6 DEF ResolveSaleEligibility
  <2> HIDE DEF price
  <2> QED BY <1>0, <2>1, <2>2, Noted
<1>7. ASSUME NEW h \in Handlers, CreateSession(h) PROVE mem' \in [Handlers -> Memory]
  <2> DEFINE m == [Idle EXCEPT !.pc = "complete", !.session = NewSession,
                               !.entry = mem[h].entry, !.moved = mem[h].moved]
  <2>1. NewSession \in 0 .. MaxSessions /\ mem[h].entry \in 0 .. MaxSessions /\ mem[h].moved \in BOOLEAN
    BY <1>0, <1>7, NewSessionIsFree, SessionNumber DEF CreateSession, Memory
  <2>2. m \in Memory
    BY <2>1, Remembered
  <2>3. mem' = [mem EXCEPT ![h] = m]
    BY <1>7 DEF CreateSession
  <2> HIDE DEF m
  <2> QED BY <1>3, <2>2, <2>3
<1>8. ASSUME NEW h \in Handlers, ReadRows(h) PROVE mem' \in [Handlers -> Memory]
  <2>1. Rows(mem[h].session) \in SUBSET Quests
    BY DEF Rows, Options
  <2>2. mem' = [mem EXCEPT ![h].rows = Rows(mem[h].session), ![h].pc = "deselect"]
    BY <1>8 DEF ReadRows
  <2> QED BY <1>0, <2>1, <2>2, Noted DEF Steps
<1>9. ASSUME NEW h \in Handlers, LoadPreflight(h) PROVE mem' \in [Handlers -> Memory]
  <2>1. mem[h].session \in Sessions
    BY <1>9 DEF LoadPreflight, At, CheckoutInv, MemoryInv, HandlerKnows, Steps
  <2>2. selected[mem[h].session] \in SUBSET Quests
    BY <1>0, <2>1 DEF SelectionOK
  <2>3. mem' = [mem EXCEPT ![h].items = selected[mem[h].session], ![h].pc = "fetch"]
    BY <1>9 DEF LoadPreflight
  <2> QED BY <1>0, <2>2, <2>3, Noted DEF Steps
<1>10. ASSUME NEW h \in Handlers, FetchAccount(h) PROVE mem' \in [Handlers -> Memory]
  <2>1. account[mem[h].session] \in Accounts
    BY <1>10 DEF FetchAccount, At, CheckoutInv, MemoryInv, HandlerKnows, RowsInv, Steps
  <2>2. done[account[mem[h].session]] \in SUBSET Quests
    BY <1>0, <2>1 DEF ShopOK
  <2>3. mem' = [mem EXCEPT ![h].done = done[account[mem[h].session]], ![h].pc = "order"]
    BY <1>10 DEF FetchAccount
  <2> QED BY <1>0, <2>2, <2>3, Noted DEF Steps
<1>11. ASSUME NEW h \in Handlers, PreflightTimesOut(h) PROVE mem' \in [Handlers -> Memory]
  <2>1. mem' = [mem EXCEPT ![h].old = TRUE]
    BY <1>11 DEF PreflightTimesOut
  <2> QED BY <1>0, <2>1 DEF Memory
<1>12. ASSUME NEW h \in Handlers, Handles(h) PROVE mem' \in [Handlers -> Memory]
  <2>1. CASE TerminateEntry(h)
    BY <1>2, <2>1 DEF TerminateEntry, Steps
  <2>2. CASE ShowSelection(h)
    BY <1>2, <2>2 DEF ShowSelection, Steps
  <2>3. CASE Deselect(h) \/ Choose(h) \/ SelectAll(h)
    BY <1>2, <2>3 DEF Deselect, Choose, SelectAll, UpdateSelection, Steps
  <2>4. CASE BindSessionMessage(h) \/ TurnPage(h) \/ Refresh(h) \/ BuildQuote(h) \/ ConfirmOrder(h) \/ Fails(h)
    BY <1>1, <2>4 DEF BindSessionMessage, TurnPage, Refresh, BuildQuote, ConfirmOrder, Fails
  <2> QED BY <1>6, <1>7, <1>8, <1>9, <1>10, <1>12, <2>1, <2>2, <2>3, <2>4 DEF Handles
<1>13. ASSUME UNCHANGED vars \/ HandleStart \/ ExpireSessions \/ (\E s \in Sessions : SessionTimesOut(s)) \/ Changes
       PROVE  mem' \in [Handlers -> Memory]
  BY <1>0, <1>13 DEF vars, HandleStart, ExpireSessions, SessionTimesOut, Changes, PriceChanges, SaleChanges,
     CompletesElsewhere, UpdateRuntimeConfig, BlockOrUnblockUser, OrderCompletes
<1> QED BY <1>4, <1>5, <1>11, <1>12, <1>13 DEF Next, Interacts

-----------------------------------------------------------------------------
(* Steps that change neither sessions nor orders, except what they show    *)

RestInv == SessionsOK /\ SelectionOK /\ OrdersOK /\ RowsInv /\ MemoryInv
           /\ TokenFollowsSession /\ OneOrderPerAccount

\* What the invariant says of sessions, but for pages, and orders.
TablesInv == SelectionOK /\ OrdersOK /\ RowsInv /\ TokenFollowsSession /\ OneOrderPerAccount

\* The tables it speaks of.
tables == << state, operation, account, credential, page, selected, option, order, open, busy >>

\* What is known of the tables follows from the tables alone.
LEMMA TablesStay == TablesInv /\ UNCHANGED tables => TablesInv'
<1> SUFFICES ASSUME TablesInv, UNCHANGED tables PROVE TablesInv'
  OBVIOUS
<1> USE DEF TablesInv, tables
<1>1. \A s \in Sessions : Options(s)' = Options(s) /\ Pages(s)' = Pages(s)
  BY DEF Options, Pages
<1>2. SelectionOK' /\ OrdersOK'
  BY <1>1 DEF SelectionOK, OrdersOK
<1>3. RowsInv' /\ TokenFollowsSession' /\ OneOrderPerAccount'
  BY DEF RowsInv, TokenFollowsSession, OneOrderPerAccount
<1> QED BY <1>2, <1>3

\* A session that is there stays what it is.
Persist ==
  \A s \in Sessions : state[s] # "NONE" =>
    state'[s] # "NONE" /\ operation'[s] = operation[s] /\ option'[s] = option[s]

\* A step of one handler that changes no session and no option leaves what the others know.
LEMMA MemoryFrame ==
  ASSUME MemoryInv, Persist, NEW h \in Handlers, HandlerKnows(h)',
         \A g \in Handlers : g # h => mem'[g] = mem[g]
  PROVE  MemoryInv'
<1> SUFFICES ASSUME NEW g \in Handlers, g # h PROVE HandlerKnows(g)'
  BY DEF MemoryInv
<1> QED BY DEF MemoryInv, HandlerKnows, Persist, Options

\* A handler that ends has nothing to know, one that goes on keeps its session.
LEMMA EndsKnows ==
  ASSUME mem \in [Handlers -> Memory], MemoryInv, Persist, NEW h \in Handlers, Ends(h)
  PROVE  MemoryInv'
<1>1. mem'[h] = Idle /\ \A g \in Handlers : g # h => mem'[g] = mem[g]
  BY DEF Ends
<1>2. HandlerKnows(h)'
  BY <1>1, IdleType DEF HandlerKnows
<1> QED BY <1>1, <1>2, MemoryFrame

SessionSteps == Steps \ { "idle", "resolve", "complete" }

\* What a step that leaves the session of a handler keeps.
LEMMA GoesOnKnows ==
  ASSUME mem \in [Handlers -> Memory], MemoryInv, Persist, NEW h \in Handlers,
         mem[h].pc \in SessionSteps \cup { "complete" }, mem'[h].pc \in SessionSteps,
         mem'[h].session = mem[h].session, mem'[h].values = mem[h].values,
         \A g \in Handlers : g # h => mem'[g] = mem[g]
  PROVE  MemoryInv'
<1>1. HandlerKnows(h)'
  BY DEF HandlerKnows, MemoryInv, SessionSteps, Steps, Persist, Options
<1> QED BY <1>1, MemoryFrame

\* A handler that only goes on keeps what it knows, but for what its next step asks for.
LEMMA GoesKnows ==
  ASSUME mem \in [Handlers -> Memory], MemoryInv, Persist, NEW h \in Handlers, NEW step \in SessionSteps,
         mem[h].pc \in SessionSteps \cup { "complete" }, Goes(h, step)
  PROVE  MemoryInv'
<1>1. mem'[h] = [mem[h] EXCEPT !.pc = step] /\ \A g \in Handlers : g # h => mem'[g] = mem[g]
  BY DEF Goes
<1>2. mem'[h].pc = step /\ mem'[h].session = mem[h].session /\ mem'[h].values = mem[h].values
  BY <1>1 DEF Memory
<1> QED BY <1>1, <1>2, GoesOnKnows

\* There is a page after every step too.
LEMMA PagesNext == \A s \in Sessions : Pages(s)' \in Nat \ {0}
<1>1. (\A s \in Sessions : Pages(s) \in Nat \ {0})'
  BY PagesType, PTL
<1> QED BY <1>1

-----------------------------------------------------------------------------
(* Each step *)

\* A new session.
LEMMA InsertKeeps ==
  ASSUME CheckoutInv, FreeSessions # {}, NEW op \in { "TOKEN_ENTRY", "CHECKOUT" },
         NEW acct \in Accounts \cup {Nothing}, op = "CHECKOUT" => acct \in Accounts,
         NEW prices \in [Quests -> Rules \cup {Nothing}], Insert(NewSession, op, acct, prices),
         credential' = IF op = "CHECKOUT" THEN credential \cup {NewSession} ELSE credential,
         UNCHANGED << orderVars, view, config >>
  PROVE  SessionsOK' /\ TablesInv' /\ Persist
<1> DEFINE n == NewSession
<1>1. n \in Sessions /\ state[n] = "NONE"
  BY NewSessionIsFree
<1>2. SessionsOK /\ SelectionOK /\ OrdersOK /\ ShopOK /\ RowsInv /\ TokenFollowsSession /\ OneOrderPerAccount
  BY DEF CheckoutInv, TypeOK
<1> HIDE DEF n
<1>3. /\ state' = [state EXCEPT ![n] = "ACTIVE"] /\ operation' = [operation EXCEPT ![n] = op]
      /\ message' = [message EXCEPT ![n] = From("panel")]
      /\ account' = [account EXCEPT ![n] = acct] /\ version' = [version EXCEPT ![n] = config]
      /\ fresh' = fresh \cup {n} /\ option' = [option EXCEPT ![n] = prices]
      /\ UNCHANGED << page, quoted, moved, selected >>
      /\ credential' = IF op = "CHECKOUT" THEN credential \cup {n} ELSE credential
  BY DEF Insert, n
<1>4. page[n] = 0 /\ selected[n] = {} /\ order[n] = Nothing /\ n \notin open
  BY <1>1, <1>2 DEF RowsInv
<1>5. SessionsOK'
  BY <1>1, <1>2, <1>3 DEF SessionsOK, ShopOK, From
<1>6. SelectionOK'
  <2>1. \A s \in Sessions : s # n => Options(s)' = Options(s) /\ Pages(s)' = Pages(s)
    BY <1>2, <1>3 DEF Options, Pages, SelectionOK
  <2>2. option' \in [Sessions -> [Quests -> Rules \cup {Nothing}]]
    BY <1>2, <1>3 DEF SelectionOK
  <2>3. \A s \in Sessions : selected'[s] \subseteq Options(s)' /\ page'[s] < Pages(s)'
    BY <1>2, <1>3, <1>4, <2>1, PagesNext DEF SelectionOK
  <2> QED BY <1>2, <1>3, <2>2, <2>3 DEF SelectionOK
<1>7. OrdersOK' /\ RowsInv'
  BY <1>1, <1>2, <1>3, <1>4 DEF OrdersOK, RowsInv, SessionsOK
<1>8. TokenFollowsSession'
  BY <1>1, <1>2, <1>3 DEF TokenFollowsSession, SessionsOK
<1>9. OneOrderPerAccount'
  BY <1>1, <1>2, <1>3, <1>4 DEF OneOrderPerAccount, SessionsOK, OrdersOK
<1>10. Persist
  BY <1>1, <1>2, <1>3 DEF Persist, SessionsOK
<1> QED BY <1>5, <1>6, <1>7, <1>8, <1>9, <1>10 DEF TablesInv

\* The steps of a form.
LEMMA FormKeeps ==
  ASSUME CheckoutInv,
         \/ HandleStart
         \/ \E h \in Handlers : CreateSession(h) \/ TerminateEntry(h) \/ \E q \in Quests : ResolveSaleEligibility(h, q)
         \/ \E h \in Handlers, s \in Sessions, a \in Accounts : HandleTokenSubmit(h, s, a)
  PROVE  SessionsOK' /\ TablesInv' /\ MemoryInv'
<1>0. /\ SessionsOK /\ TablesInv /\ MemoryInv /\ mem \in [Handlers -> Memory] /\ ShopOK
      /\ SelectionOK /\ OrdersOK /\ RowsInv /\ TokenFollowsSession /\ OneOrderPerAccount
  BY DEF CheckoutInv, TypeOK, TablesInv
<1>1. CASE HandleStart
  <2>1. [q \in Quests |-> Nothing] \in [Quests -> Rules \cup {Nothing}]
    OBVIOUS
  <2>2. SessionsOK' /\ TablesInv' /\ Persist
    BY <1>1, <2>1, InsertKeeps DEF HandleStart
  <2>3. MemoryInv'
    BY <1>0, <1>1, <2>2 DEF HandleStart, MemoryInv, HandlerKnows, Persist, Options
  <2> QED BY <2>2, <2>3
<1>2. ASSUME NEW h \in Handlers, CreateSession(h)
      PROVE  SessionsOK' /\ TablesInv' /\ MemoryInv'
  <2>1. mem[h].account \in Accounts /\ mem[h].prices \in [Quests -> Rules \cup {Nothing}]
    BY <1>0, <1>2 DEF CreateSession, At, MemoryInv, HandlerKnows, Memory
  <2>2. SessionsOK' /\ TablesInv' /\ Persist
    BY <1>2, <2>1, InsertKeeps DEF CreateSession
  <2>3. /\ mem'[h] = [Idle EXCEPT !.pc = "complete", !.session = NewSession,
                                  !.entry = mem[h].entry, !.moved = mem[h].moved]
        /\ \A g \in Handlers : g # h => mem'[g] = mem[g]
    BY <1>0, <1>2 DEF CreateSession
  <2>4. /\ mem'[h].pc = "complete" /\ mem'[h].session = NewSession /\ mem'[h].entry = mem[h].entry
        /\ mem'[h].values = {}
    BY <2>3 DEF Idle
  <2>5. /\ mem[h].entry \in Sessions /\ operation[mem[h].entry] = "TOKEN_ENTRY" /\ state[mem[h].entry] # "NONE"
    BY <1>0, <1>2 DEF CreateSession, At, MemoryInv, HandlerKnows
  <2>6. NewSession \in Sessions /\ operation'[NewSession] = "CHECKOUT" /\ state'[NewSession] # "NONE"
    BY <1>0, <1>2, NewSessionIsFree DEF CreateSession, Insert, SessionsOK
  <2>7. HandlerKnows(h)'
    BY <2>2, <2>4, <2>5, <2>6 DEF HandlerKnows, Persist
  <2> QED BY <1>0, <2>2, <2>3, <2>7, MemoryFrame
<1>3. ASSUME NEW h \in Handlers, TerminateEntry(h)
      PROVE  SessionsOK' /\ TablesInv' /\ MemoryInv'
  <2> DEFINE s == mem[h].entry
  <2>1. s \in Sessions /\ operation[s] = "TOKEN_ENTRY" /\ state[s] = "ACTIVE"
    BY <1>0, <1>3 DEF TerminateEntry, At, MemoryInv, HandlerKnows
  <2>2. /\ state' = [state EXCEPT ![s] = "TERMINAL"] /\ moved' = moved \cup {s} /\ Goes(h, "show")
        /\ UNCHANGED << operation, message, account, version, page, quoted, fresh, credential, option,
                        selected, orderVars, shopVars, events, view >>
    BY <1>3 DEF TerminateEntry, Moves
  <2> HIDE DEF s
  <2>3. SessionsOK' /\ Persist
    BY <1>0, <2>1, <2>2 DEF SessionsOK, Persist
  <2>4. SelectionOK' /\ OrdersOK'
    <3>1. \A t \in Sessions : Options(t)' = Options(t) /\ Pages(t)' = Pages(t)
      BY <2>2 DEF Options, Pages
    <3> QED BY <1>0, <2>2, <3>1 DEF SelectionOK, OrdersOK
  <2>5. RowsInv' /\ TokenFollowsSession' /\ OneOrderPerAccount'
    BY <1>0, <2>1, <2>2 DEF RowsInv, TokenFollowsSession, OneOrderPerAccount, SessionsOK
  <2>6. MemoryInv'
    BY <1>0, <1>3, <2>2, <2>3, GoesKnows DEF TerminateEntry, At, SessionSteps, Steps
  <2> QED BY <2>3, <2>4, <2>5, <2>6 DEF TablesInv
<1>4. ASSUME NEW h \in Handlers, NEW q \in Quests, ResolveSaleEligibility(h, q)
      PROVE  SessionsOK' /\ TablesInv' /\ MemoryInv'
  <2>1. UNCHANGED << sessionVars, orderVars, shopVars, view >>
    BY <1>4 DEF ResolveSaleEligibility
  <2>2. SessionsOK' /\ TablesInv' /\ Persist
    BY <1>0, <2>1, TablesStay DEF SessionsOK, tables, Persist
  <2>3. /\ mem'[h].pc = mem[h].pc /\ mem'[h].entry = mem[h].entry /\ mem'[h].account = mem[h].account
        /\ mem[h].pc = "resolve" /\ \A g \in Handlers : g # h => mem'[g] = mem[g]
    BY <1>0, <1>4 DEF ResolveSaleEligibility, At, Memory
  <2>4. HandlerKnows(h)'
    BY <1>0, <2>2, <2>3 DEF MemoryInv, HandlerKnows, Persist
  <2> QED BY <1>0, <2>2, <2>3, <2>4, MemoryFrame
<1>5. ASSUME NEW h \in Handlers, NEW s \in Sessions, NEW a \in Accounts, HandleTokenSubmit(h, s, a)
      PROVE  SessionsOK' /\ TablesInv' /\ MemoryInv'
  <2>1. UNCHANGED << sessionVars, orderVars, shopVars, view >> /\ operation[s] = "TOKEN_ENTRY" /\ state[s] = "ACTIVE"
    BY <1>5 DEF HandleTokenSubmit, Authorized
  <2>2. SessionsOK' /\ TablesInv' /\ Persist
    BY <1>0, <2>1, TablesStay DEF SessionsOK, tables, Persist
  <2>3. /\ mem'[h] = [Idle EXCEPT !.pc = "resolve", !.entry = s, !.moved = s \in moved,
                                  !.account = a, !.done = done[a]]
        /\ \A g \in Handlers : g # h => mem'[g] = mem[g]
    BY <1>0, <1>5 DEF HandleTokenSubmit
  <2>4. mem'[h].pc = "resolve" /\ mem'[h].entry = s /\ mem'[h].account = a
    BY <2>3 DEF Idle
  <2>5. HandlerKnows(h)'
    BY <2>1, <2>4 DEF HandlerKnows
  <2> QED BY <1>0, <2>2, <2>3, <2>5, MemoryFrame
<1> QED BY <1>1, <1>2, <1>3, <1>4, <1>5

\* A handler at work on the session of a reply.
LEMMA AtWork ==
  ASSUME CheckoutInv, NEW h \in Handlers, mem[h].pc \in SessionSteps
  PROVE  /\ mem[h].session \in Sessions /\ operation[mem[h].session] = "CHECKOUT"
         /\ mem[h].values \subseteq Options(mem[h].session)
BY DEF CheckoutInv, MemoryInv, HandlerKnows, SessionSteps, Steps

\* The steps that change no table but show something or go on.
LEMMA ReadingKeeps ==
  ASSUME CheckoutInv, NEW h \in Handlers,
         \/ ShowSelection(h) \/ Refresh(h) \/ ReadRows(h) \/ LoadPreflight(h) \/ FetchAccount(h)
         \/ BindSessionMessage(h) \/ Fails(h) \/ PreflightTimesOut(h)
         \/ \E s \in Sessions, what \in {"previous", "next", "select", "all", "quote", "confirm"},
               values \in SUBSET Quests : Click(h, s, what, values)
  PROVE  SessionsOK' /\ TablesInv' /\ MemoryInv'
<1>0. SessionsOK /\ TablesInv /\ MemoryInv /\ mem \in [Handlers -> Memory] /\ RowsInv
  BY DEF CheckoutInv, TypeOK, TablesInv
<1>1. UNCHANGED << tables, version, config, quoted >> /\ Persist
  BY DEF ShowSelection, Refresh, ReadRows, LoadPreflight, FetchAccount, BindSessionMessage, Fails,
     PreflightTimesOut, Click, tables, Persist
<1>2. TablesInv'
  BY <1>0, <1>1, TablesStay
<1>3. ASSUME NEW s, Shows(s, "selection") PROVE view' \in [Sessions -> {"none", "selection", "quote"}]
  BY <1>0, <1>3 DEF Shows, SessionsOK
<1>4. SessionsOK'
  <2>1. CASE BindSessionMessage(h)
    <3>1. mem[h].session \in Sessions
      BY <2>1, AtWork DEF BindSessionMessage, At, SessionSteps, Steps
    <3> QED BY <1>0, <1>1, <2>1, <3>1 DEF BindSessionMessage, Moves, From, SessionsOK, tables
  <2>2. CASE ~BindSessionMessage(h)
    BY <1>0, <1>1, <1>3, <2>2 DEF ShowSelection, Refresh, ReadRows, LoadPreflight, FetchAccount, Fails,
       PreflightTimesOut, Click, SessionsOK, tables
  <2> QED BY <2>1, <2>2
<1>5. CASE Refresh(h) \/ BindSessionMessage(h) \/ Fails(h)
  BY <1>0, <1>1, <1>2, <1>4, <1>5, EndsKnows DEF Refresh, BindSessionMessage, Fails
<1>6. CASE ShowSelection(h)
  <2>1. MemoryInv'
    BY <1>0, <1>1, <1>6, GoesKnows DEF ShowSelection, At, SessionSteps, Steps
  <2> QED BY <1>2, <1>4, <2>1
<1>7. CASE ReadRows(h) \/ LoadPreflight(h) \/ FetchAccount(h)
  <2>1. /\ mem[h].pc \in SessionSteps /\ mem'[h].pc \in SessionSteps
        /\ mem'[h].session = mem[h].session /\ mem'[h].values = mem[h].values
        /\ \A g \in Handlers : g # h => mem'[g] = mem[g]
    BY <1>0, <1>7 DEF ReadRows, LoadPreflight, FetchAccount, At, Memory, SessionSteps, Steps
  <2> QED BY <1>0, <1>1, <1>2, <1>4, <2>1, GoesOnKnows
<1>8. CASE PreflightTimesOut(h)
  <2>1. /\ mem[h].pc \in SessionSteps /\ mem'[h].pc \in SessionSteps
        /\ mem'[h].session = mem[h].session /\ mem'[h].values = mem[h].values
        /\ \A g \in Handlers : g # h => mem'[g] = mem[g]
    BY <1>0, <1>8 DEF PreflightTimesOut, At, Memory, SessionSteps, Steps
  <2> QED BY <1>0, <1>1, <1>2, <1>4, <2>1, GoesOnKnows
<1>9. ASSUME NEW s \in Sessions, NEW what \in {"previous", "next", "select", "all", "quote", "confirm"},
             NEW values \in SUBSET Quests, Click(h, s, what, values)
      PROVE  MemoryInv'
  <2>1. /\ mem'[h] = [Idle EXCEPT !.pc = what, !.session = s, !.values = values]
        /\ \A g \in Handlers : g # h => mem'[g] = mem[g]
    BY <1>0, <1>9 DEF Click
  <2>2. mem'[h].pc = what /\ mem'[h].session = s /\ mem'[h].values = values
    BY <2>1 DEF Idle
  <2>3. operation[s] = "CHECKOUT" /\ state[s] # "NONE" /\ values \subseteq Options(s)
    BY <1>0, <1>9 DEF Click, RowsInv, Rows
  <2>4. what \notin {"resolve", "complete"} /\ Options(s)' = Options(s) /\ operation' = operation /\ state' = state
    BY <1>1 DEF Options, tables
  <2>5. HandlerKnows(h)'
    BY <2>2, <2>3, <2>4 DEF HandlerKnows
  <2> QED BY <1>0, <1>1, <2>1, <2>5, MemoryFrame
<1> QED BY <1>2, <1>4, <1>5, <1>6, <1>7, <1>8, <1>9

\* The steps that turn pages, select and quote.
LEMMA SelectingKeeps ==
  ASSUME CheckoutInv, NEW h \in Handlers,
         TurnPage(h) \/ Deselect(h) \/ Choose(h) \/ SelectAll(h) \/ BuildQuote(h)
  PROVE  SessionsOK' /\ TablesInv' /\ MemoryInv'
<1> DEFINE s == mem[h].session
<1>0. /\ SessionsOK /\ TablesInv /\ MemoryInv /\ mem \in [Handlers -> Memory]
      /\ SelectionOK /\ OrdersOK /\ RowsInv /\ TokenFollowsSession /\ OneOrderPerAccount
  BY DEF CheckoutInv, TypeOK, TablesInv
<1>1. /\ mem[h].pc \in SessionSteps /\ state[s] = "ACTIVE"
      /\ UNCHANGED << state, operation, message, account, version, fresh, credential, option, orderVars, shopVars >>
  BY DEF TurnPage, Deselect, Choose, SelectAll, BuildQuote, UpdateSelection, Locked, Authorized, At,
     SessionSteps, Steps
<1>2. s \in Sessions /\ mem[h].values \subseteq Options(s)
  BY <1>1, AtWork
<1>3. Persist /\ \A t \in Sessions : Options(t)' = Options(t)
  BY <1>1 DEF Persist, Options
<1>4. selected' = selected \/ \E chosen \in SUBSET Options(s) : selected' = [selected EXCEPT ![s] = chosen]
  <2>1. selected[s] \subseteq Options(s) /\ Options(s) \in SUBSET Options(s)
    BY <1>0, <1>2 DEF SelectionOK
  <2> QED BY <1>2, <2>1 DEF TurnPage, Deselect, Choose, SelectAll, BuildQuote, UpdateSelection
<1>5. page' = page \/ \E p \in Nat : p < Pages(s) /\ page' = [page EXCEPT ![s] = p]
  <2>1. PageInRange(s, page[s] + 1) \in Nat /\ PageInRange(s, page[s] + 1) < Pages(s)
    BY <1>0, <1>2, PagesType DEF PageInRange, SelectionOK
  <2>2. PageInRange(s, page[s] - 1) \in Nat /\ PageInRange(s, page[s] - 1) < Pages(s)
    BY <1>0, <1>2, PagesType DEF PageInRange, SelectionOK
  <2> QED BY <2>1, <2>2 DEF TurnPage, Deselect, Choose, SelectAll, BuildQuote, UpdateSelection
<1>6. quoted' = quoted \/ quoted' = [quoted EXCEPT ![s] = selected[s]]
  BY DEF TurnPage, Deselect, Choose, SelectAll, BuildQuote, UpdateSelection
<1>7. /\ moved' \in { moved, moved \cup {s} }
      /\ view' = view \/ view' = [view EXCEPT ![s] = "selection"] \/ view' = [view EXCEPT ![s] = "quote"]
  BY DEF TurnPage, Deselect, Choose, SelectAll, BuildQuote, UpdateSelection, Moves, Shows
<1>8. MemoryInv'
  <2>1. CASE Ends(h)
    BY <1>0, <1>3, <2>1, EndsKnows
  <2>2. ASSUME NEW step \in {"choose", "refresh"}, Goes(h, step) PROVE MemoryInv'
    BY <1>0, <1>1, <1>3, <2>2, GoesKnows DEF SessionSteps, Steps
  <2> QED BY <2>1, <2>2 DEF TurnPage, Deselect, Choose, SelectAll, BuildQuote, UpdateSelection
<1> HIDE DEF s
<1>9. SessionsOK'
  <2>1. selected[s] \in SUBSET Quests
    BY <1>0, <1>2 DEF SelectionOK
  <2> QED BY <1>0, <1>1, <1>2, <1>6, <1>7, <2>1 DEF SessionsOK
<1>10. SelectionOK'
  <2>1. Options(s) \in SUBSET Quests /\ \A t \in Sessions : Pages(t)' = Pages(t)
    BY <1>1 DEF Options, Pages
  <2>2. selected' \in [Sessions -> SUBSET Quests] /\ \A t \in Sessions : selected'[t] \subseteq Options(t)
    BY <1>0, <1>2, <1>4, <2>1 DEF SelectionOK
  <2>3. page' \in [Sessions -> Nat] /\ \A t \in Sessions : page'[t] < Pages(t)
    BY <1>0, <1>2, <1>5 DEF SelectionOK
  <2> QED BY <1>0, <1>1, <1>3, <2>1, <2>2, <2>3 DEF SelectionOK
<1>11. \A t \in Sessions : t # s => selected'[t] = selected[t] /\ page'[t] = page[t]
  BY <1>0, <1>4, <1>5 DEF SelectionOK
<1>12. order[s] = Nothing
  BY <1>0, <1>1, <1>2 DEF OneOrderPerAccount
<1>13. OrdersOK' /\ RowsInv'
  BY <1>0, <1>1, <1>11, <1>12 DEF OrdersOK, RowsInv
<1>14. TokenFollowsSession' /\ OneOrderPerAccount'
  BY <1>0, <1>1 DEF TokenFollowsSession, OneOrderPerAccount
<1> QED BY <1>8, <1>9, <1>10, <1>13, <1>14 DEF TablesInv

\* The order is made.
LEMMA ConfirmKeeps ==
  ASSUME CheckoutInv, NEW h \in Handlers, ConfirmOrder(h)
  PROVE  SessionsOK' /\ TablesInv' /\ MemoryInv'
<1> DEFINE s == mem[h].session
           lines == [q \in selected[s] |-> option[s][q]]
<1>0. /\ SessionsOK /\ TablesInv /\ MemoryInv /\ mem \in [Handlers -> Memory]
      /\ SelectionOK /\ OrdersOK /\ RowsInv /\ TokenFollowsSession /\ OneOrderPerAccount
  BY DEF CheckoutInv, TypeOK, TablesInv
<1>1. mem[h].pc \in SessionSteps /\ state[s] = "ACTIVE" /\ account[s] \notin busy /\ selected[s] # {}
  BY DEF ConfirmOrder, Locked, Authorized, At, SessionSteps, Steps, FreeAccount
<1>2. s \in Sessions /\ operation[s] = "CHECKOUT"
  BY <1>1, AtWork
<1>3. /\ busy' = busy \cup {account[s]} /\ order' = [order EXCEPT ![s] = lines] /\ open' = open \cup {s}
      /\ state' = [state EXCEPT ![s] = "CONFIRMED"] /\ moved' = moved \cup {s} /\ credential' = credential \ {s}
      /\ view' = [view EXCEPT ![s] = "none"] /\ Ends(h)
      /\ UNCHANGED << operation, message, account, version, page, quoted, fresh, option, selected, shopVars, events >>
  BY DEF ConfirmOrder, FinishCheckout, Moves, Shows
<1>4. lines \in [selected[s] -> Rules] /\ lines # Nothing
  <2>1. selected[s] \in SUBSET Quests /\ \A q \in selected[s] : option[s][q] \in Rules
    BY <1>0, <1>2 DEF SelectionOK, Options
  <2>2. lines \in [selected[s] -> Rules]
    BY <2>1
  <2>3. Nothing \notin [selected[s] -> Rules]
    BY <2>1, CheckoutAssumption DEF Quests
  <2> HIDE DEF lines
  <2> QED BY <2>2, <2>3
<1> HIDE DEF s, lines
<1>5. Persist /\ SessionsOK'
  BY <1>0, <1>1, <1>2, <1>3 DEF Persist, SessionsOK
<1>6. MemoryInv'
  BY <1>0, <1>3, <1>5, EndsKnows
<1>7. SelectionOK'
  <2>1. \A t \in Sessions : Options(t)' = Options(t) /\ Pages(t)' = Pages(t)
    BY <1>3 DEF Options, Pages
  <2> QED BY <1>0, <1>3, <2>1 DEF SelectionOK
<1>8. account[s] \in Accounts
  BY <1>0, <1>2 DEF RowsInv
<1>9. OrdersOK'
  BY <1>0, <1>2, <1>3, <1>4, <1>8 DEF OrdersOK
<1>10. \A t \in Sessions : order'[t] = (IF t = s THEN lines ELSE order[t])
                           /\ state'[t] = (IF t = s THEN "CONFIRMED" ELSE state[t])
  BY <1>0, <1>3 DEF OrdersOK, SessionsOK
<1>11. RowsInv' /\ TokenFollowsSession'
  BY <1>0, <1>1, <1>2, <1>3, <1>10 DEF RowsInv, TokenFollowsSession, OrdersOK
<1>12. OneOrderPerAccount'
  <2>1. \A t \in Sessions : state'[t] = "CONFIRMED" <=> order'[t] # Nothing
    BY <1>0, <1>4, <1>10 DEF OneOrderPerAccount
  <2>2. \A t, r \in open' : account'[t] = account'[r] => t = r
    BY <1>0, <1>1, <1>3 DEF OneOrderPerAccount
  <2>3. busy' = { account'[t] : t \in open' }
    BY <1>0, <1>3 DEF OneOrderPerAccount
  <2> QED BY <2>1, <2>2, <2>3 DEF OneOrderPerAccount
<1> QED BY <1>5, <1>6, <1>7, <1>9, <1>11, <1>12 DEF TablesInv

\* Maintenance.
LEMMA ExpiryKeeps ==
  ASSUME CheckoutInv, ExpireSessions
  PROVE  SessionsOK' /\ TablesInv' /\ MemoryInv'
<1>0. /\ SessionsOK /\ TablesInv /\ MemoryInv /\ mem \in [Handlers -> Memory]
      /\ SelectionOK /\ OrdersOK /\ RowsInv /\ TokenFollowsSession /\ OneOrderPerAccount
  BY DEF CheckoutInv, TypeOK, TablesInv
<1>1. PICK old \in {{}, Forgettable} :
        /\ state' = [s \in Sessions |-> IF s \in Overdue THEN "EXPIRED"
                                        ELSE IF s \in old THEN "NONE" ELSE state[s]]
        /\ operation' = [s \in Sessions |-> IF s \in old THEN "NONE" ELSE operation[s]]
        /\ message' = [s \in Sessions |-> IF s \in old THEN "none" ELSE message[s]]
        /\ account' = [s \in Sessions |-> IF s \in old THEN Nothing ELSE account[s]]
        /\ version' = [s \in Sessions |-> IF s \in old THEN 0 ELSE version[s]]
        /\ page' = [s \in Sessions |-> IF s \in old THEN 0 ELSE page[s]]
        /\ quoted' = [s \in Sessions |-> IF s \in old THEN {} ELSE quoted[s]]
        /\ fresh' = fresh \ old /\ moved' = (moved \cup Overdue) \ old
        /\ option' = [s \in Sessions |-> IF s \in old THEN [q \in Quests |-> Nothing] ELSE option[s]]
        /\ selected' = [s \in Sessions |-> IF s \in old THEN {} ELSE selected[s]]
        /\ view' = [s \in Sessions |-> IF s \in old THEN "none" ELSE view[s]]
  BY DEF ExpireSessions
<1>2. UNCHANGED << orderVars, shopVars, mem >> /\ credential' = credential \ Overdue
  BY DEF ExpireSessions
<1>3. /\ \A s \in old : s \in Sessions /\ state[s] \in {"EXPIRED", "TERMINAL"} /\ order[s] = Nothing /\ s \notin open
      /\ \A s \in old : \A h \in Handlers : mem[h].entry # s /\ mem[h].session # s
  BY <1>0 DEF Forgettable, OneOrderPerAccount, RowsInv
<1>4. Overdue \subseteq Sessions /\ \A s \in Overdue : state[s] = "ACTIVE" /\ s \notin old
  BY <1>3 DEF Overdue
<1>5. SessionsOK'
  <2>1. config' = config /\ old \subseteq Sessions
    BY <1>2, <1>3 DEF shopVars
  <2>2. state' \in [Sessions -> {"NONE", "ACTIVE", "CONFIRMED", "EXPIRED", "TERMINAL"}]
        /\ operation' \in [Sessions -> {"NONE", "TOKEN_ENTRY", "CHECKOUT"}]
        /\ message' \in [Sessions -> {"none", "panel", "reply"}]
    BY <1>0, <1>1 DEF SessionsOK
  <2>3. account' \in [Sessions -> Accounts \cup {Nothing}]
    BY <1>0, <1>1 DEF SessionsOK
  <2>4. version' \in [Sessions -> 0 .. config']
    <3>1. config \in Nat /\ version \in [Sessions -> 0 .. config]
      BY <1>0 DEF CheckoutInv, TypeOK, SessionsOK, ShopOK
    <3> QED BY <1>1, <2>1, <3>1
  <2>5. quoted' \in [Sessions -> SUBSET Quests]
    BY <1>0, <1>1 DEF SessionsOK
  <2>6. view' \in [Sessions -> {"none", "selection", "quote"}]
    BY <1>0, <1>1 DEF SessionsOK
  <2>7. fresh' \subseteq Sessions /\ moved' \subseteq Sessions /\ credential' \subseteq Sessions
    BY <1>0, <1>1, <1>2, <1>4 DEF SessionsOK
  <2> QED BY <2>2, <2>3, <2>4, <2>5, <2>6, <2>7 DEF SessionsOK
<1>6. SelectionOK'
  <2>1. \A s \in Sessions \ old : Options(s)' = Options(s) /\ Pages(s)' = Pages(s)
    BY <1>1 DEF Options, Pages
  <2>2. option' \in [Sessions -> [Quests -> Rules \cup {Nothing}]] /\ selected' \in [Sessions -> SUBSET Quests]
        /\ page' \in [Sessions -> Nat]
    BY <1>0, <1>1 DEF SelectionOK
  <2>3. \A s \in Sessions : selected'[s] \subseteq Options(s)' /\ page'[s] < Pages(s)'
    BY <1>0, <1>1, <2>1, PagesNext DEF SelectionOK
  <2> QED BY <2>2, <2>3 DEF SelectionOK
<1>7. OrdersOK'
  BY <1>0, <1>1, <1>2, <1>3 DEF OrdersOK
<1>8. RowsInv'
  BY <1>0, <1>1, <1>2, <1>3, <1>4 DEF RowsInv, OrdersOK
<1>9. TokenFollowsSession'
  BY <1>0, <1>1, <1>2, <1>3, <1>4 DEF TokenFollowsSession
<1>10. OneOrderPerAccount'
  <2>1. \A s \in Sessions : state'[s] = "CONFIRMED" <=> order'[s] # Nothing
    BY <1>0, <1>1, <1>2, <1>3, <1>4 DEF OneOrderPerAccount
  <2>2. \A s \in open : account'[s] = account[s]
    BY <1>0, <1>1, <1>3 DEF OrdersOK
  <2> QED BY <1>0, <1>2, <2>1, <2>2 DEF OneOrderPerAccount
<1>11. MemoryInv'
  <2> SUFFICES ASSUME NEW h \in Handlers PROVE HandlerKnows(h)'
    BY DEF MemoryInv
  <2>1. mem[h].entry \notin old /\ mem[h].session \notin old /\ HandlerKnows(h) /\ mem' = mem
    BY <1>0, <1>2, <1>3 DEF MemoryInv
  <2>2. \A s \in Sessions \ old : /\ operation'[s] = operation[s] /\ Options(s)' = Options(s)
                                  /\ state[s] # "NONE" => state'[s] # "NONE"
    BY <1>1 DEF Options
  <2> QED BY <2>1, <2>2 DEF HandlerKnows
<1> QED BY <1>5, <1>6, <1>7, <1>8, <1>9, <1>10, <1>11 DEF TablesInv

\* Time, administrators and what happens elsewhere.
LEMMA SurroundingsKeep ==
  ASSUME CheckoutInv, UNCHANGED vars \/ Changes \/ \E s \in Sessions : SessionTimesOut(s)
  PROVE  SessionsOK' /\ TablesInv' /\ MemoryInv'
<1>0. /\ SessionsOK /\ TablesInv /\ MemoryInv /\ mem \in [Handlers -> Memory] /\ ShopOK
      /\ SelectionOK /\ OrdersOK /\ RowsInv /\ TokenFollowsSession /\ OneOrderPerAccount
  BY DEF CheckoutInv, TypeOK, TablesInv
<1>1. /\ UNCHANGED << state, operation, message, account, version, page, quoted, moved, credential, option,
                      selected, order, view, mem >>
      /\ fresh' \subseteq fresh /\ config' \in { config, config + 1 }
  BY DEF vars, Changes, PriceChanges, SaleChanges, UpdateRuntimeConfig, BlockOrUnblockUser, CompletesElsewhere,
     OrderCompletes, SessionTimesOut
<1>2. SessionsOK'
  BY <1>0, <1>1 DEF SessionsOK, ShopOK
<1>3. MemoryInv'
  BY <1>0, <1>1 DEF MemoryInv, HandlerKnows, Options
<1>4. CASE UNCHANGED << open, busy >>
  <2>1. UNCHANGED tables
    BY <1>1, <1>4 DEF tables
  <2> QED BY <1>0, <1>2, <1>3, <2>1, TablesStay
<1>5. ASSUME NEW s \in Sessions, OrderCompletes(s)
      PROVE  TablesInv'
  <2>1. s \in open /\ open' = open \ {s} /\ busy' = busy \ {account[s]}
    BY <1>5 DEF OrderCompletes
  <2>2. SelectionOK'
    <3>1. \A t \in Sessions : Options(t)' = Options(t) /\ Pages(t)' = Pages(t)
      BY <1>1 DEF Options, Pages
    <3> QED BY <1>0, <1>1, <3>1 DEF SelectionOK
  <2>3. OrdersOK' /\ RowsInv' /\ TokenFollowsSession'
    BY <1>0, <1>1, <2>1 DEF OrdersOK, RowsInv, TokenFollowsSession
  <2>4. OneOrderPerAccount'
    BY <1>0, <1>1, <2>1 DEF OneOrderPerAccount
  <2> QED BY <2>2, <2>3, <2>4 DEF TablesInv
<1> QED BY <1>2, <1>3, <1>4, <1>5 DEF vars, Changes, PriceChanges, SaleChanges, UpdateRuntimeConfig,
     BlockOrUnblockUser, CompletesElsewhere, SessionTimesOut

\* The counters and the shop stay typed.
LEMMA ShopType ==
  ASSUME CheckoutInv, [Next]_vars
  PROVE  ShopOK'
<1>0. ShopOK
  BY DEF CheckoutInv, TypeOK
<1>1. ASSUME Happens PROVE events' \in 0 .. MaxEvents
  BY <1>0, <1>1, CheckoutAssumption DEF Happens, ShopOK
<1>2. CASE UNCHANGED shopVars /\ (UNCHANGED events \/ Happens)
  BY <1>0, <1>1, <1>2 DEF ShopOK
<1>3. CASE Changes
  <2>1. events' \in 0 .. MaxEvents
    BY <1>1, <1>3 DEF Changes, PriceChanges, SaleChanges, UpdateRuntimeConfig, BlockOrUnblockUser,
       CompletesElsewhere, OrderCompletes
  <2>2. rule' \in [Quests -> Rules \cup {Nothing}] /\ onSale' \subseteq Quests
    BY <1>0, <1>3 DEF Changes, PriceChanges, SaleChanges, UpdateRuntimeConfig, BlockOrUnblockUser,
       CompletesElsewhere, OrderCompletes, ShopOK
  <2>3. config' \in Nat /\ blocked' \in BOOLEAN
    <3>1. config' \in Nat
      BY <1>0, <1>3 DEF Changes, PriceChanges, SaleChanges, UpdateRuntimeConfig, BlockOrUnblockUser,
         CompletesElsewhere, OrderCompletes, ShopOK
    <3>2. blocked' = blocked \/ blocked' = ~blocked
      BY <1>3, Zenon DEF Changes, PriceChanges, SaleChanges, UpdateRuntimeConfig, BlockOrUnblockUser,
         CompletesElsewhere, OrderCompletes
    <3>3. blocked' \in BOOLEAN
      BY <1>0, <3>2, Zenon DEF ShopOK
    <3> QED BY <3>1, <3>3
  <2>4. done' \in [Accounts -> SUBSET Quests]
    <3>1. CASE done' = done
      BY <1>0, <3>1 DEF ShopOK
    <3>2. ASSUME NEW a \in Accounts, NEW q \in Quests, CompletesElsewhere(a, q) PROVE done' \in [Accounts -> SUBSET Quests]
      <4>1. done' = [done EXCEPT ![a] = @ \cup {q}]
        BY <3>2 DEF CompletesElsewhere
      <4>2. done \in [Accounts -> SUBSET Quests]
        BY <1>0 DEF ShopOK
      <4> QED BY <4>1, <4>2
    <3> QED BY <1>3, <3>1, <3>2 DEF Changes, PriceChanges, SaleChanges, UpdateRuntimeConfig, BlockOrUnblockUser,
          OrderCompletes
  <2> QED BY <2>1, <2>2, <2>3, <2>4 DEF ShopOK
<1>4. ASSUME NEW h \in Handlers, Interacts(h) \/ Handles(h) \/ PreflightTimesOut(h)
      PROVE  UNCHANGED shopVars /\ (UNCHANGED events \/ Happens)
  BY <1>4 DEF Interacts, Handles, PreflightTimesOut, HandleTokenSubmit, Click, ResolveSaleEligibility, CreateSession,
     TerminateEntry, ShowSelection, BindSessionMessage, TurnPage, ReadRows, Deselect, Choose, UpdateSelection,
     SelectAll, Refresh, BuildQuote, LoadPreflight, FetchAccount, ConfirmOrder, Fails
<1>5. ASSUME UNCHANGED vars \/ HandleStart \/ ExpireSessions \/ \E s \in Sessions : SessionTimesOut(s)
      PROVE  UNCHANGED shopVars /\ (UNCHANGED events \/ Happens)
  BY <1>5 DEF vars, HandleStart, ExpireSessions, SessionTimesOut
<1> QED BY <1>2, <1>3, <1>4, <1>5 DEF Next

-----------------------------------------------------------------------------
(* Theorems *)

\* The invariant holds initially.
LEMMA CheckoutInit == Init => CheckoutInv
<1> SUFFICES ASSUME Init PROVE CheckoutInv
  OBVIOUS
<1>1. SessionsOK /\ OrdersOK /\ ShopOK
  <2>1. (CHOOSE r \in Rules : TRUE) \in Rules
    BY CheckoutAssumption
  <2>2. SessionsOK
    <3>1. account \in [Sessions -> Accounts \cup {Nothing}] /\ version \in [Sessions -> 0 .. config]
      BY DEF Init
    <3>2. state \in [Sessions -> {"NONE", "ACTIVE", "CONFIRMED", "EXPIRED", "TERMINAL"}]
          /\ operation \in [Sessions -> {"NONE", "TOKEN_ENTRY", "CHECKOUT"}]
          /\ message \in [Sessions -> {"none", "panel", "reply"}]
      BY DEF Init
    <3>3. quoted \in [Sessions -> SUBSET Quests] /\ view \in [Sessions -> {"none", "selection", "quote"}]
          /\ fresh \subseteq Sessions /\ moved \subseteq Sessions /\ credential \subseteq Sessions
      BY DEF Init
    <3> QED BY <3>1, <3>2, <3>3 DEF SessionsOK
  <2>3. OrdersOK
    BY DEF Init, OrdersOK
  <2>4. ShopOK
    <3>1. rule \in [Quests -> Rules \cup {Nothing}]
      BY <2>1 DEF Init
    <3>2. events \in 0 .. MaxEvents
      BY CheckoutAssumption DEF Init
    <3>3. onSale \subseteq Quests /\ config \in Nat /\ blocked \in BOOLEAN /\ done \in [Accounts -> SUBSET Quests]
      BY DEF Init
    <3> QED BY <3>1, <3>2, <3>3 DEF ShopOK
  <2> QED BY <2>2, <2>3, <2>4
<1>2. SelectionOK
  BY PagesType DEF Init, SelectionOK
<1>3. mem \in [Handlers -> Memory] /\ MemoryInv
  BY IdleType DEF Init, MemoryInv, HandlerKnows
<1>4. RowsInv /\ TokenFollowsSession /\ OneOrderPerAccount
  BY DEF Init, RowsInv, TokenFollowsSession, OneOrderPerAccount
<1> QED BY <1>1, <1>2, <1>3, <1>4 DEF CheckoutInv, TypeOK

\* Every step preserves the invariant.
LEMMA CheckoutNext == CheckoutInv /\ [Next]_vars => CheckoutInv'
<1> SUFFICES ASSUME CheckoutInv, [Next]_vars PROVE CheckoutInv'
  OBVIOUS
<1>1. SessionsOK' /\ TablesInv' /\ MemoryInv'
  BY FormKeeps, ReadingKeeps, SelectingKeeps, ConfirmKeeps, ExpiryKeeps, SurroundingsKeep DEF Next, Interacts, Handles
<1> QED BY <1>1, MemoryType, ShopType DEF CheckoutInv, TypeOK, TablesInv

\* The invariant holds always.
LEMMA CheckoutInvariant == Spec => []CheckoutInv
BY CheckoutInit, CheckoutNext, PTL DEF Spec

\* Every row of the sessions and orders and every handler's memory is well typed; in
\* particular no session shows a page it does not have, and what is selected and
\* ordered has a price.
THEOREM CheckoutTypeCorrect == Spec => []TypeOK
<1>1. CheckoutInv => TypeOK
  BY DEF CheckoutInv
<1> QED BY <1>1, CheckoutInvariant, PTL

\* A token is stored exactly for the sessions that can still become an order.
THEOREM TokensFollowSessions == Spec => []TokenFollowsSession
<1>1. CheckoutInv => TokenFollowsSession
  BY DEF CheckoutInv
<1> QED BY <1>1, CheckoutInvariant, PTL

\* However many handlers confirm at once, a session has at most one order and an
\* account at most one under way.
THEOREM OneOrder == Spec => []OneOrderPerAccount
<1>1. CheckoutInv => OneOrderPerAccount
  BY DEF CheckoutInv
<1> QED BY <1>1, CheckoutInvariant, PTL

\* An order charges what the last quote of its session listed, at the prices in force.
THEOREM OrdersAreQuoted == Spec => OrderIsQuoted
<1>1. CheckoutInv /\ [Next]_vars =>
        [\A s \in Sessions : order'[s] # order[s] =>
           /\ DOMAIN order'[s] = quoted[s] /\ quoted[s] \subseteq onSale
           /\ \A q \in quoted[s] : order'[s][q] = rule[q]]_vars
  <2> SUFFICES ASSUME CheckoutInv, Next, NEW s \in Sessions, order'[s] # order[s]
               PROVE  /\ DOMAIN order'[s] = quoted[s] /\ quoted[s] \subseteq onSale
                      /\ \A q \in quoted[s] : order'[s][q] = rule[q]
    OBVIOUS
  <2>0. UNCHANGED order \/ \E h \in Handlers : ConfirmOrder(h)
    <3>1. ASSUME NEW h \in Handlers, Handles(h) PROVE UNCHANGED order \/ ConfirmOrder(h)
      BY <3>1 DEF Handles, orderVars, ResolveSaleEligibility, CreateSession, TerminateEntry, ShowSelection,
         BindSessionMessage, TurnPage, ReadRows, Deselect, Choose, UpdateSelection, SelectAll, Refresh, BuildQuote,
         LoadPreflight, FetchAccount, Fails
    <3>2. ASSUME NEW h \in Handlers, Interacts(h) \/ PreflightTimesOut(h) PROVE UNCHANGED order
      BY <3>2 DEF Interacts, PreflightTimesOut, HandleTokenSubmit, Click, orderVars
    <3>3. ASSUME Changes PROVE UNCHANGED order
      BY <3>3 DEF Changes, PriceChanges, SaleChanges, UpdateRuntimeConfig, BlockOrUnblockUser, CompletesElsewhere,
         OrderCompletes, orderVars
    <3>4. ASSUME HandleStart \/ ExpireSessions \/ \E r \in Sessions : SessionTimesOut(r) PROVE UNCHANGED order
      BY <3>4 DEF HandleStart, ExpireSessions, SessionTimesOut, orderVars
    <3> QED BY <3>1, <3>2, <3>3, <3>4 DEF Next
  <2>1. PICK h \in Handlers : ConfirmOrder(h)
    BY <2>0
  <2> DEFINE t == mem[h].session
  <2>2. DOMAIN order = Sessions
    BY DEF CheckoutInv, TypeOK, OrdersOK
  <2>3. /\ order' = [order EXCEPT ![t] = [q \in selected[t] |-> option[t][q]]]
        /\ quoted[t] = selected[t] /\ \A q \in selected[t] : q \in onSale /\ rule[q] = option[t][q]
    BY <2>1 DEF ConfirmOrder, Quoted, Sellable
  <2>4. s = t
    BY <2>2, <2>3
  <2>5. order'[s] = [q \in selected[s] |-> option[s][q]]
    BY <2>2, <2>3, <2>4
  <2> QED BY <2>3, <2>4, <2>5
<1> QED BY <1>1, CheckoutInvariant, PTL DEF OrderIsQuoted, Spec
=============================================================================
