------------------------------ MODULE Checkout ------------------------------
(***************************************************************************)
(* From the token a customer enters to the order: the interaction sessions *)
(* of domain/checkout/service.js and domain/admin/session-service.js, and  *)
(* the handlers of discord/interactions/router.js that drive them, each    *)
(* over several transactions and concurrently with the others.             *)
(*                                                                         *)
(* One customer.  The account's token is one value, what the reservation   *)
(* does to the wallet is in Fulfilment; any transaction may be refused for *)
(* a reason that is left out (gates, rate limits, the wallet, a full       *)
(* queue), which ends its handler.                                         *)
(***************************************************************************)
EXTENDS Integers, FiniteSets

CONSTANTS Handlers,      \* interactions that can be in progress at once
          MaxSessions, MaxQuests, Accounts,
          PageSize,      \* 25 in the code
          Rules,         \* price rules: each has its amount for good
          MaxEvents,     \* bound: clicks, failures and changes in all
          Discord,       \* interactions name their message; the calls of the tests do not
          Nothing

ASSUME CheckoutAssumption ==
  /\ MaxSessions \in Nat /\ MaxQuests \in Nat /\ MaxEvents \in Nat
  /\ PageSize \in Nat \ {0} /\ Discord \in BOOLEAN
  /\ Nothing \notin Rules \cup Accounts
  /\ \A lines \in SUBSET (1 .. MaxQuests) : Nothing \notin [lines -> Rules]
  /\ Rules # {}

Sessions == 1 .. MaxSessions
Quests == 1 .. MaxQuests         \* in the order of their options

VARIABLES
  state, operation, message, account, version, page,  \* interaction_sessions
  quoted,                          \* payload.quoteHash: the lines it was made of, if any
  fresh,                           \* not past expires_at
  moved,                           \* state_version is no longer that of the insertion
  credential,                      \* checkout_credentials
  option, selected,                \* checkout_quest_options: their rules, those selected
  order, open, busy,               \* orders by session, those not completed, active_quest_accounts
  rule, onSale, config, blocked,   \* what applies: price rules, quests, config, blocklist
  done,                            \* the quests an account has completed
  events,                          \* how much has happened
  view,                            \* what the reply of a session shows the customer
  mem                              \* the handlers

sessionVars == << state, operation, message, account, version, page, quoted, fresh, moved,
                  credential, option, selected >>
orderVars == << order, open, busy >>
shopVars  == << rule, onSale, config, blocked, done >>
vars == << sessionVars, orderVars, shopVars, events, view, mem >>

Idle == [ pc |-> "idle", entry |-> 0, moved |-> FALSE, account |-> Nothing, session |-> 0,
          asked |-> {}, prices |-> [q \in Quests |-> Nothing], rows |-> {}, values |-> {},
          done |-> {}, items |-> {}, old |-> FALSE ]

Init ==
  /\ state = [s \in Sessions |-> "NONE"] /\ operation = [s \in Sessions |-> "NONE"]
  /\ message = [s \in Sessions |-> "none"] /\ account = [s \in Sessions |-> Nothing]
  /\ version = [s \in Sessions |-> 0] /\ page = [s \in Sessions |-> 0]
  /\ quoted = [s \in Sessions |-> {}] /\ fresh = {} /\ moved = {} /\ credential = {}
  /\ option = [s \in Sessions |-> [q \in Quests |-> Nothing]]
  /\ selected = [s \in Sessions |-> {}]
  /\ order = [s \in Sessions |-> Nothing] /\ open = {} /\ busy = {}
  /\ rule = [q \in Quests |-> CHOOSE r \in Rules : TRUE] /\ onSale = Quests /\ config = 1 /\ blocked = FALSE
  /\ done = [a \in Accounts |-> {}] /\ events = 0
  /\ view = [s \in Sessions |-> "none"]
  /\ mem = [h \in Handlers |-> Idle]

Happens == events < MaxEvents /\ events' = events + 1

-----------------------------------------------------------------------------
(* Sessions: insertion, authorisation and pages.                           *)

From(place) == IF Discord THEN place ELSE "none"
FreeSessions == { s \in Sessions : state[s] = "NONE" }
NewSession == CHOOSE s \in FreeSessions : \A t \in FreeSessions : s <= t

\* A session takes the message its interaction came from: the panel with the start button.
Insert(s, op, acct, prices) ==
  /\ state' = [state EXCEPT ![s] = "ACTIVE"] /\ operation' = [operation EXCEPT ![s] = op]
  /\ message' = [message EXCEPT ![s] = From("panel")]
  /\ account' = [account EXCEPT ![s] = acct] /\ version' = [version EXCEPT ![s] = config]
  /\ fresh' = fresh \cup {s} /\ option' = [option EXCEPT ![s] = prices]
  /\ UNCHANGED << page, quoted, moved, selected >>

Permits(s, place) == place = "none" \/ message[s] \in {"none", place}
\* lockAuthorizedSession and loadAdminSession: the owner's active session, from its own message.
Authorized(s, op, place) ==
  state[s] = "ACTIVE" /\ s \in fresh /\ operation[s] = op /\ Permits(s, place)
Locked(s) == Authorized(s, "CHECKOUT", From("reply"))
UpToDate(s) == version[s] = config

Options(s) == { q \in Quests : option[s][q] # Nothing }
Rank(s, q) == Cardinality({ r \in Options(s) : r < q })
Rows(s) == { q \in Options(s) : Rank(s, q) \div PageSize = page[s] }
Pages(s) == LET full == (Cardinality(Options(s)) + PageSize - 1) \div PageSize
            IN IF full = 0 THEN 1 ELSE full

At(h, step) == mem[h].pc = step
Goes(h, step) == mem' = [mem EXCEPT ![h].pc = step]
Ends(h) == mem' = [mem EXCEPT ![h] = Idle]
Shows(s, what) == view' = [view EXCEPT ![s] = what]
Moves(s) == moved' = moved \cup {s}

-----------------------------------------------------------------------------
(* The start button and the token form.                                    *)

HandleStart ==
  /\ Happens /\ FreeSessions # {} /\ \E q \in onSale : rule[q] # Nothing
  /\ Insert(NewSession, "TOKEN_ENTRY", Nothing, [q \in Quests |-> Nothing])
  /\ UNCHANGED << credential, orderVars, shopVars, view, mem >>

\* The form is submitted; the account's quests are fetched.
HandleTokenSubmit(h, s, a) ==
  /\ At(h, "idle") /\ Authorized(s, "TOKEN_ENTRY", From("panel")) /\ Happens
  /\ mem' = [mem EXCEPT ![h] = [Idle EXCEPT !.pc = "resolve", !.entry = s, !.moved = s \in moved,
                                            !.account = a, !.done = done[a]]]
  /\ UNCHANGED << sessionVars, orderVars, shopVars, view >>

\* One quest after the other, each in a transaction of its own.
ResolveSaleEligibility(h, q) ==
  /\ At(h, "resolve") /\ mem[h].asked = 1 .. q - 1
  /\ mem' = [mem EXCEPT ![h].asked = @ \cup {q},
                        ![h].prices[q] = IF q \in onSale \ mem[h].done THEN rule[q] ELSE Nothing]
  /\ UNCHANGED << sessionVars, orderVars, shopVars, events, view >>

CreateSession(h) ==
  /\ At(h, "resolve") /\ mem[h].asked = Quests /\ FreeSessions # {}
  /\ Insert(NewSession, "CHECKOUT", mem[h].account, mem[h].prices)
  /\ credential' = credential \cup {NewSession}
  /\ mem' = [mem EXCEPT ![h] = [Idle EXCEPT !.pc = "complete", !.session = NewSession,
                                            !.entry = mem[h].entry, !.moved = mem[h].moved]]
  /\ UNCHANGED << orderVars, shopVars, events, view >>

TerminateEntry(h) ==
  LET s == mem[h].entry IN
  /\ At(h, "complete") /\ state[s] = "ACTIVE" /\ (s \in moved) = mem[h].moved
  /\ state' = [state EXCEPT ![s] = "TERMINAL"] /\ Moves(s) /\ Goes(h, "show")
  /\ UNCHANGED << operation, message, account, version, page, quoted, fresh, credential, option,
                  selected, orderVars, shopVars, events, view >>

ShowSelection(h) ==
  /\ At(h, "show") /\ Authorized(mem[h].session, "CHECKOUT", "none")
  /\ Shows(mem[h].session, "selection") /\ Goes(h, "bind")
  /\ UNCHANGED << sessionVars, orderVars, shopVars, events >>

\* The reply becomes the session's message unless it has another or has moved on.
BindSessionMessage(h) ==
  LET s == mem[h].session IN
  /\ At(h, "bind") /\ state[s] = "ACTIVE" /\ s \notin moved
  /\ message[s] \in {"none", From("reply")}
  /\ message' = [message EXCEPT ![s] = From("reply")] /\ Moves(s) /\ Ends(h)
  /\ UNCHANGED << state, operation, account, version, page, quoted, fresh, credential, option,
                  selected, orderVars, shopVars, events, view >>

-----------------------------------------------------------------------------
(* Clicks on the reply: what it shows can be clicked, and is handled later. *)

Click(h, s, what, values) ==
  /\ At(h, "idle") /\ operation[s] = "CHECKOUT"
  /\ view[s] = IF what = "confirm" THEN "quote" ELSE "selection"
  /\ what = "previous" => page[s] > 0
  /\ what = "next" => page[s] + 1 < Pages(s)
  /\ Happens
  /\ IF what = "select" THEN values \subseteq Rows(s) /\ Rows(s) # {} ELSE values = {}
  /\ mem' = [mem EXCEPT ![h] = [Idle EXCEPT !.pc = what, !.session = s, !.values = values]]
  /\ UNCHANGED << sessionVars, orderVars, shopVars, view >>

\* Mutant: the page that comes next is taken for one there is.
PageAnyway(s, new) == new
PageInRange(s, new) == IF new \in 0 .. Pages(s) - 1 THEN new ELSE page[s]

\* getSelectionPage with a direction: it may have been clicked on an older page.
TurnPage(h) ==
  LET s   == mem[h].session
      new == IF At(h, "next") THEN page[s] + 1 ELSE page[s] - 1
      in  == PageInRange(s, new)
  IN /\ mem[h].pc \in {"previous", "next"} /\ Locked(s)
     /\ page' = [page EXCEPT ![s] = in]
     /\ moved' = IF in # page[s] THEN moved \cup {s} ELSE moved
     /\ Shows(s, "selection") /\ Ends(h)
     /\ UNCHANGED << state, operation, message, account, version, quoted, fresh, credential,
                     option, selected, orderVars, shopVars, events >>

\* A choice takes four transactions: the rows of the page, none of them, those chosen, the page.
ReadRows(h) ==
  /\ At(h, "select") /\ Locked(mem[h].session)
  /\ mem' = [mem EXCEPT ![h].rows = Rows(mem[h].session), ![h].pc = "deselect"]
  /\ UNCHANGED << sessionVars, orderVars, shopVars, events, view >>

UpdateSelection(h, from, to, chosen) ==
  LET s == mem[h].session IN
  /\ At(h, from) /\ Locked(s) /\ UpToDate(s)
  /\ selected' = [selected EXCEPT ![s] = chosen] /\ Moves(s) /\ Goes(h, to)
  /\ UNCHANGED << state, operation, message, account, version, page, quoted, fresh, credential,
                  option, orderVars, shopVars, events, view >>
Deselect(h) == UpdateSelection(h, "deselect", "choose", selected[mem[h].session] \ mem[h].rows)
Choose(h) ==
  UpdateSelection(h, "choose", "refresh", selected[mem[h].session] \cup mem[h].values)

SelectAll(h) ==
  LET s == mem[h].session IN
  /\ At(h, "all") /\ Locked(s)
  /\ selected' = [selected EXCEPT ![s] = Options(s)] /\ Goes(h, "refresh")
  /\ UNCHANGED << state, operation, message, account, version, page, quoted, fresh, moved,
                  credential, option, orderVars, shopVars, events, view >>

Refresh(h) ==
  /\ At(h, "refresh") /\ Locked(mem[h].session)
  /\ Shows(mem[h].session, "selection") /\ Ends(h)
  /\ UNCHANGED << sessionVars, orderVars, shopVars, events >>

\* Mutant: the price is not looked up again.
SellableOnSale(s, lines) == \A q \in lines : q \in onSale
Sellable(s, lines) == \A q \in lines : q \in onSale /\ rule[q] = option[s][q]

BuildQuote(h) ==
  LET s == mem[h].session IN
  /\ At(h, "quote") /\ Locked(s)
  /\ selected[s] # {} /\ Sellable(s, selected[s])
  /\ quoted' = [quoted EXCEPT ![s] = selected[s]] /\ Moves(s)
  /\ Shows(s, "quote") /\ Ends(h)
  /\ UNCHANGED << state, operation, message, account, version, page, fresh, credential, option,
                  selected, orderVars, shopVars, events >>

-----------------------------------------------------------------------------
(* confirmOrder: the account is fetched between two transactions.          *)

LoadPreflight(h) ==
  LET s == mem[h].session IN
  /\ At(h, "confirm") /\ Locked(s) /\ selected[s] # {} /\ s \in credential
  /\ mem' = [mem EXCEPT ![h].items = selected[s], ![h].pc = "fetch"]
  /\ UNCHANGED << sessionVars, orderVars, shopVars, events, view >>

FetchAccount(h) ==
  /\ At(h, "fetch")
  /\ mem' = [mem EXCEPT ![h].done = done[account[mem[h].session]], ![h].pc = "order"]
  /\ UNCHANGED << sessionVars, orderVars, shopVars, events, view >>

\* Mutant: another order of the account is not in the way.
FreeAccountAny(a) == TRUE
FreeAccount(a) == a \notin busy

\* Mutant: the quote is not compared with the selection.
QuotedAnything(s) == quoted[s] # {}
Quoted(s) == quoted[s] = selected[s]

\* Mutant: a confirmed session keeps its token.
FinishKeepingToken(s) == state' = [state EXCEPT ![s] = "CONFIRMED"] /\ Moves(s) /\ UNCHANGED credential
FinishCheckout(s) ==
  state' = [state EXCEPT ![s] = "CONFIRMED"] /\ Moves(s) /\ credential' = credential \ {s}

ConfirmOrder(h) ==
  LET s == mem[h].session IN
  /\ At(h, "order") /\ Locked(s) /\ UpToDate(s) /\ ~mem[h].old /\ ~blocked
  /\ selected[s] # {} /\ Quoted(s)
  /\ selected[s] \cap mem[h].done = {} /\ Sellable(s, selected[s])
  /\ FreeAccount(account[s]) /\ busy' = busy \cup {account[s]}
  /\ order' = [order EXCEPT ![s] = [q \in selected[s] |-> option[s][q]]]
  /\ open' = open \cup {s}
  /\ FinishCheckout(s)
  /\ Shows(s, "none") /\ Ends(h)
  /\ UNCHANGED << operation, message, account, version, page, quoted, fresh, option, selected,
                  shopVars, events >>

\* A transaction is refused, a request fails or the process dies: what was committed stays.
Fails(h) ==
  /\ ~At(h, "idle") /\ Happens /\ Ends(h)
  /\ UNCHANGED << sessionVars, orderVars, shopVars, view >>

-----------------------------------------------------------------------------
(* Maintenance and time.                                                   *)

\* Mutant: only sessions that were quoted expire.
OverdueQuoted == { s \in Sessions : state[s] = "ACTIVE" /\ s \notin fresh /\ quoted[s] # {} }
Overdue == { s \in Sessions : state[s] = "ACTIVE" /\ s \notin fresh }

\* Sessions closed for a week go; no handler knows them any longer.
Forgettable == { s \in Sessions : state[s] \in {"EXPIRED", "TERMINAL"}
                   /\ \A h \in Handlers : s \notin {mem[h].entry, mem[h].session} }

ExpireSessions ==
  /\ credential' = credential \ Overdue
  /\ \E old \in {{}, Forgettable} :
       LET Reset(f, value) == [s \in Sessions |-> IF s \in old THEN value ELSE f[s]] IN
       /\ state' = [s \in Sessions |-> IF s \in Overdue THEN "EXPIRED"
                                       ELSE IF s \in old THEN "NONE" ELSE state[s]]
       /\ operation' = Reset(operation, "NONE") /\ message' = Reset(message, "none")
       /\ account' = Reset(account, Nothing) /\ version' = Reset(version, 0)
       /\ page' = Reset(page, 0) /\ quoted' = Reset(quoted, {})
       /\ fresh' = fresh \ old /\ moved' = (moved \cup Overdue) \ old
       /\ option' = Reset(option, [q \in Quests |-> Nothing]) /\ selected' = Reset(selected, {})
       /\ view' = Reset(view, "none")
       /\ IF old = {} THEN UNCHANGED events ELSE Happens
  /\ UNCHANGED << orderVars, shopVars, mem >>

SessionTimesOut(s) ==
  /\ s \in fresh /\ state[s] = "ACTIVE" /\ fresh' = fresh \ {s}
  /\ UNCHANGED << state, operation, message, account, version, page, quoted, moved, credential,
                  option, selected, orderVars, shopVars, events, view, mem >>

PreflightTimesOut(h) ==
  /\ mem[h].pc \in {"fetch", "order"} /\ ~mem[h].old /\ Happens
  /\ mem' = [mem EXCEPT ![h].old = TRUE]
  /\ UNCHANGED << sessionVars, orderVars, shopVars, view >>

-----------------------------------------------------------------------------
(* The surroundings: administrators, discovery, the customer elsewhere.     *)

\* A new rule, an old one switched on or off, or the window of a temporary one.
PriceChanges(q) ==
  /\ Happens /\ \E new \in (Rules \cup {Nothing}) \ {rule[q]} : rule' = [rule EXCEPT ![q] = new]
  /\ UNCHANGED << sessionVars, orderVars, onSale, config, blocked, done, view, mem >>

SaleChanges(q) ==
  /\ Happens /\ onSale' = IF q \in onSale THEN onSale \ {q} ELSE onSale \cup {q}
  /\ UNCHANGED << sessionVars, orderVars, rule, config, blocked, done, view, mem >>

UpdateRuntimeConfig ==
  /\ Happens /\ config' = config + 1
  /\ UNCHANGED << sessionVars, orderVars, rule, onSale, blocked, done, view, mem >>

BlockOrUnblockUser ==
  /\ Happens /\ blocked' = ~blocked
  /\ UNCHANGED << sessionVars, orderVars, rule, onSale, config, done, view, mem >>

CompletesElsewhere(a, q) ==
  /\ q \notin done[a] /\ Happens /\ done' = [done EXCEPT ![a] = @ \cup {q}]
  /\ UNCHANGED << sessionVars, orderVars, rule, onSale, config, blocked, view, mem >>

\* finalizeOrderIfTerminal: the account's row goes with the order.
OrderCompletes(s) ==
  /\ s \in open /\ Happens
  /\ open' = open \ {s} /\ busy' = busy \ {account[s]}
  /\ UNCHANGED << sessionVars, order, rule, onSale, config, blocked, done, view, mem >>

-----------------------------------------------------------------------------
Handles(h) ==
  \/ \E q \in Quests : ResolveSaleEligibility(h, q)
  \/ CreateSession(h) \/ TerminateEntry(h) \/ ShowSelection(h) \/ BindSessionMessage(h)
  \/ TurnPage(h) \/ ReadRows(h) \/ Deselect(h) \/ Choose(h) \/ SelectAll(h) \/ Refresh(h)
  \/ BuildQuote(h) \/ LoadPreflight(h) \/ FetchAccount(h) \/ ConfirmOrder(h) \/ Fails(h)

Interacts(h) ==
  \/ \E s \in Sessions, a \in Accounts : HandleTokenSubmit(h, s, a)
  \/ \E s \in Sessions, what \in {"previous", "next", "select", "all", "quote", "confirm"},
        values \in SUBSET Quests : Click(h, s, what, values)

Changes ==
  \/ \E q \in Quests : PriceChanges(q) \/ SaleChanges(q) \/ \E a \in Accounts : CompletesElsewhere(a, q)
  \/ UpdateRuntimeConfig \/ BlockOrUnblockUser \/ \E s \in Sessions : OrderCompletes(s)

Next ==
  \/ HandleStart \/ \E h \in Handlers : Interacts(h) \/ Handles(h) \/ PreflightTimesOut(h)
  \/ ExpireSessions \/ \E s \in Sessions : SessionTimesOut(s)
  \/ Changes

Spec == Init /\ [][Next]_vars

\* Time passes, and maintenance comes back.
FairSpec == Spec /\ WF_vars(ExpireSessions) /\ \A s \in Sessions : WF_vars(SessionTimesOut(s))
=============================================================================
