------------------------- MODULE CheckoutProperties -------------------------
(***************************************************************************)
(* What the checkout promises.                                             *)
(***************************************************************************)
EXTENDS Checkout

Steps == { "idle", "resolve", "complete", "show", "bind", "previous", "next", "select", "deselect",
           "choose", "all", "refresh", "quote", "confirm", "fetch", "order" }

Memory ==
  [ pc : Steps, entry : 0 .. MaxSessions, moved : BOOLEAN, account : Accounts \cup {Nothing},
    session : 0 .. MaxSessions, asked : SUBSET Quests, prices : [Quests -> Rules \cup {Nothing}],
    rows : SUBSET Quests, values : SUBSET Quests, done : SUBSET Quests, items : SUBSET Quests, old : BOOLEAN ]

\* Typing of sessions, options, orders and handlers (migration 0001, interaction_sessions).
SessionsOK ==
  /\ state \in [Sessions -> {"NONE", "ACTIVE", "CONFIRMED", "EXPIRED", "TERMINAL"}]
  /\ operation \in [Sessions -> {"NONE", "TOKEN_ENTRY", "CHECKOUT"}]
  /\ message \in [Sessions -> {"none", "panel", "reply"}]
  /\ account \in [Sessions -> Accounts \cup {Nothing}] /\ version \in [Sessions -> 0 .. config]
  /\ quoted \in [Sessions -> SUBSET Quests] /\ view \in [Sessions -> {"none", "selection", "quote"}]
  /\ fresh \subseteq Sessions /\ moved \subseteq Sessions /\ credential \subseteq Sessions

SelectionOK ==
  /\ option \in [Sessions -> [Quests -> Rules \cup {Nothing}]]
  /\ selected \in [Sessions -> SUBSET Quests] /\ \A s \in Sessions : selected[s] \subseteq Options(s)
  /\ page \in [Sessions -> Nat] /\ \A s \in Sessions : page[s] < Pages(s)

OrdersOK ==
  /\ DOMAIN order = Sessions /\ \A s \in Sessions : order[s] = Nothing \/ order[s] \in [selected[s] -> Rules]
  /\ open \subseteq Sessions /\ busy \subseteq Accounts

ShopOK ==
  /\ rule \in [Quests -> Rules \cup {Nothing}] /\ onSale \subseteq Quests
  /\ config \in Nat /\ blocked \in BOOLEAN /\ done \in [Accounts -> SUBSET Quests]
  /\ events \in 0 .. MaxEvents

TypeOK == SessionsOK /\ SelectionOK /\ OrdersOK /\ ShopOK /\ mem \in [Handlers -> Memory]

\* The customer's token lies with the session exactly while it can still become an order: every
\* way a session ends, by confirmation or by expiry, takes the token along in its transaction.
TokenFollowsSession ==
  credential = { s \in Sessions : operation[s] = "CHECKOUT" /\ state[s] = "ACTIVE" }

\* However many sessions and clicks compete, a confirmed session has one order, and an account
\* has one order under way and is reserved by it (test/concurrency/checkout-confirm.test.js:43).
OneOrderPerAccount ==
  /\ \A s \in Sessions : state[s] = "CONFIRMED" <=> order[s] # Nothing
  /\ \A s, t \in open : account[s] = account[t] => s = t
  /\ busy = { account[s] : s \in open }

\* What an order charges is what the last quote of its session listed, for quests still on sale
\* and at the prices still in force, whatever was selected, repriced or withdrawn between the
\* quote, the fetch of the account and the order.
OrderIsQuoted ==
  [][\A s \in Sessions : order'[s] # order[s] =>
       /\ DOMAIN order'[s] = quoted[s] /\ quoted[s] \subseteq onSale
       /\ \A q \in quoted[s] : order'[s][q] = rule[q]]_vars

\* A token that was entered does not stay: it becomes part of an order or is deleted, also when
\* its session was never shown.
TokenIsForgotten == \A s \in Sessions : s \in credential ~> s \notin credential

\* The reply a customer has before him is the message of his session: it takes his clicks
\* (test/security/interactions.test.js:66-68).
ReplyIsBound ==
  \A s \in Sessions :
    state[s] = "ACTIVE" /\ view[s] # "none" /\ (\A h \in Handlers : ~(At(h, "bind") /\ mem[h].session = s))
      => Permits(s, From("reply"))

\* An order covers the lines its preflight signed.
PreflightCoversOrder ==
  [][\A s \in Sessions, h \in Handlers :
       order'[s] # order[s] /\ mem[h].session = s /\ mem'[h] = Idle => DOMAIN order'[s] = mem[h].items]_vars
=============================================================================
