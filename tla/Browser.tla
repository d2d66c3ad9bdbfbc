------------------------------ MODULE Browser ------------------------------
(***************************************************************************)
(* A user of the back office with one page open.  The page asks the API    *)
(* for its lists, shows what arrives, and sends a request for each button  *)
(* pressed; the API decides by the caller's permissions and by the row's   *)
(* status at that time; the page then reloads, tells, or does neither.     *)
(* Routes says what each route of the API needs and does, Pages what each  *)
(* page loads, offers and does with an answer.                             *)
(*                                                                         *)
(* The API's data is a log of the changes made while the page is open: a   *)
(* version is a place in it, and a list shows the version it was answered  *)
(* with.  One row stands for the rows the page's buttons are about.        *)
(***************************************************************************)
EXTENDS SequencesExt, Roles, Pages

CONSTANTS
  OpenPages,   \* the pages a behaviour may open
  MaxPresses,  \* bound: the buttons pressed
  MaxTroubles  \* bound: the changes made by someone else, and the requests or answers
               \* lost, or refused for their data

VARIABLES
  page, role,  \* the open page and the role of its user
  log,         \* the versions of the API's data
  held,        \* per list: the version shown, or Loading or Empty
  asked,       \* per list: the versions at which its requests in flight were sent
  chosen,      \* how many of the page's choices are made
  writes,      \* the requests of pressed buttons, in flight
  mine,        \* the versions the page was answered to have made
  failed,      \* the acts whose last answer was a failure
  told,        \* those of which a message is on the page
  last,        \* per list: what became of its last request
  dead,        \* the acts refused for the very status the page showed
  barred,      \* the lists and acts refused to the role
  presses, troubles

counters == <<presses, troubles>>
verdicts == <<failed, told, dead, barred>>
browserVars == <<page, role, log, held, asked, last, chosen, writes, mine, verdicts, counters>>

LoadsOf(p) == AllPages[p].does.loads
ActsOf(p)  == AllPages[p].does.acts
ViewOf(p)  == AllPages[p].shows

Loads  == LoadsOf(page)
Acts   == ActsOf(page)
Screen == ViewOf(page)
RouteOf(a) == Acts[a].route

Has(r, code) == code \in EffectivePermissions({r})

\* Mutant: the guard refuses a route that asks for no permission.
GrantedByCode(route) == Has(role, route.needs)
Granted(route) == route.needs = Anyone \/ Has(role, route.needs)
Now == log[Len(log)].status
Takes(a) == RouteOf(a).on = None \/ Now \in RouteOf(a).from

\* The status a row of the page can have.
Statuses(p) ==
  LET rows == {ActsOf(p)[a].route : a \in DOMAIN ActsOf(p)}
      all == UNION {r.from \cup r.to : r \in rows}
  IN IF all = {} THEN {None} ELSE all

Trouble == troubles < MaxTroubles /\ troubles' = troubles + 1

\* The versions between which a list can tell a difference.
Versions(l, from) == {v \in from..Len(log) : v = from \/ log[v].changes \cap Loads[l].shows # {}}

\* Mutant: a list that is waited for is not asked for again.
SentOnce(lists) == [l \in DOMAIN asked |-> IF l \in lists /\ asked[l] = <<>> THEN <<Len(log)>> ELSE asked[l]]
Sent(lists) == [l \in DOMAIN asked |-> IF l \in lists THEN Append(asked[l], Len(log)) ELSE asked[l]]
Ask(lists) ==
  /\ asked' = Sent(lists)
  /\ last' = [l \in DOMAIN last |-> IF l \in lists THEN "waits" ELSE last[l]]

\* The i-th request of l in flight is answered; nothing cancels one when a newer is sent.
Settle(l, i, how) ==
  /\ asked' = [asked EXCEPT ![l] = RemoveAt(@, i)]
  /\ last' = [last EXCEPT ![l] = CASE @ # "waits" -> "overtaken"
                                   [] @ = "waits" /\ i = Len(asked[l]) -> how
                                   [] OTHER -> "waits"]
LoadsAt(n) == {l \in DOMAIN Loads : Loads[l].level = n}

\* The roles whose work the page is for; the menu shows every page to all.
Workers(p) == {r \in DOMAIN DefaultRoles : AllPages[p].needs \in DefaultRoles[r] \cup {Anyone}}

BrowserInit ==
  /\ page \in OpenPages
  /\ role \in Workers(page)
  /\ \E s \in Statuses(page) : log = <<[status |-> s, changes |-> {}, act |-> None]>>
  /\ held = [l \in DOMAIN Loads |-> Loads[l].starts]
  /\ asked = [l \in DOMAIN Loads |-> IF l \in LoadsAt(0) THEN <<1>> ELSE <<>>]
  /\ last = [l \in DOMAIN Loads |-> "waits"]
  /\ chosen = 0
  /\ writes = {} /\ mine = {} /\ failed = {} /\ told = {}
  /\ dead = {} /\ barred = {} /\ presses = 0 /\ troubles = 0

(***************************************************************************)
(* Lists.                                                                  *)
(***************************************************************************)
Choose ==
  /\ chosen < Len(Screen.path)
  /\ held[Screen.path[chosen + 1]] >= 1
  /\ chosen' = chosen + 1
  /\ Ask(LoadsAt(chosen'))
  /\ UNCHANGED <<page, role, log, held, writes, mine, verdicts, counters>>

\* A list answered: whatever it showed is replaced, by a newer answer or an older one.
Arrive(l) == \E i \in DOMAIN asked[l] : \E v \in Versions(l, asked[l][i]) :
  /\ Granted(Loads[l].route)
  /\ Settle(l, i, "shown")
  /\ held' = [held EXCEPT ![l] = v]
  /\ UNCHANGED <<page, role, log, chosen, writes, mine, verdicts, counters>>

\* Mutant: a load that fails leaves an empty list.
LoadEmpties(l) == \E i \in DOMAIN asked[l] :
  /\ Granted(Loads[l].route) /\ Trouble
  /\ Settle(l, i, "failed")
  /\ held' = [held EXCEPT ![l] = Empty]
  /\ UNCHANGED <<page, role, log, chosen, writes, mine, verdicts, presses>>

\* A list refused to the role, or its answer lost.
LoadFails(l) == \E i \in DOMAIN asked[l] :
  /\ \/ ~Granted(Loads[l].route) /\ barred' = barred \cup {l} /\ UNCHANGED troubles
     \/ Granted(Loads[l].route) /\ Trouble /\ UNCHANGED barred
  /\ Settle(l, i, "failed")
  /\ held' = [held EXCEPT ![l] = IF Loads[l].failure = "emptied" THEN Empty ELSE @]
  /\ UNCHANGED <<page, role, log, chosen, writes, mine, failed, told, dead, presses>>

\* The timer of a page that polls; the bound: not before the last answer.
Poll(l) ==
  /\ Loads[l].polled /\ asked[l] = <<>>
  /\ Ask({l})
  /\ UNCHANGED <<page, role, log, held, chosen, writes, mine, verdicts, counters>>

(***************************************************************************)
(* Buttons.                                                                *)
(***************************************************************************)
\* What the page shows of the row, where the button is in its list.
Shown(a) == IF Screen.buttons[a].in = None THEN None ELSE log[held[Screen.buttons[a].in]].status

\* Mutant: the button is on every row.
OfferedAlways(a) ==
  LET b == Screen.buttons[a] IN
  /\ b.in # None => held[b.in] >= 1
  /\ \A l \in b.needs : held[l] >= 1
  /\ chosen >= b.level
  /\ Acts[a].once => \A w \in writes : w.act # a

Offered(a) ==
  LET b == Screen.buttons[a] IN
  /\ b.in # None => /\ held[b.in] >= 1
                    /\ b.offers = {} \/ Shown(a) \in b.offers
  /\ \A l \in b.needs : held[l] >= 1
  /\ chosen >= b.level
  /\ Acts[a].once => \A w \in writes : w.act # a

Press(a) ==
  /\ presses < MaxPresses /\ presses' = presses + 1
  /\ Offered(a)
  /\ writes' = writes \cup {[n |-> presses, act |-> a, seen |-> Shown(a), at |-> 0, stage |-> "sent"]}
  /\ failed' = failed \ {a} /\ told' = told \ {a}
  /\ UNCHANGED <<page, role, log, held, asked, last, chosen, mine, dead, barred, troubles>>

Moved(w, stage, at) == (writes \ {w}) \cup {[w EXCEPT !.stage = stage, !.at = at]}
Change(a, status) == Append(log, [status |-> status, changes |-> RouteOf(a).changes, act |-> a])
Outcomes(a) == IF RouteOf(a).to = {} THEN {Now} ELSE RouteOf(a).to

Serve(w) ==
  /\ w.stage = "sent"
  /\ Granted(Acts[w.act].route) /\ Takes(w.act)
  /\ \E s \in Outcomes(w.act) : log' = Change(w.act, s)
  /\ writes' = Moved(w, "done", Len(log'))
  /\ UNCHANGED <<page, role, held, asked, last, chosen, mine, verdicts, counters>>

Refuse(w) ==
  /\ w.stage = "sent"
  /\ writes' = Moved(w, "refused", 0)
  /\ \/ /\ ~Granted(Acts[w.act].route)
        /\ barred' = barred \cup {w.act} /\ UNCHANGED dead
     \/ /\ Granted(Acts[w.act].route) /\ ~Takes(w.act)
        /\ dead' = IF w.seen = Now THEN dead \cup {w.act} ELSE dead
        /\ UNCHANGED barred
  /\ UNCHANGED <<page, role, log, held, asked, last, chosen, mine, failed, told, counters>>

\* Refused for its data, or lost, before the route changed anything or after.
Lose(w) ==
  /\ w.stage \in {"sent", "done"}
  /\ Trouble
  /\ writes' = Moved(w, "refused", 0)
  /\ UNCHANGED <<page, role, log, held, asked, last, chosen, mine, verdicts, presses>>

\* The lists asked for again, or the answer put in a list itself: then the requests in
\* flight come after it.
Succeeds(w) ==
  /\ w.stage = "done"
  /\ writes' = writes \ {w}
  /\ mine' = mine \cup {w.at}
  /\ LET does == Acts[w.act] IN
     /\ asked' = Sent(does.reloads)
     /\ last' = [l \in DOMAIN last |->
                   IF l \in does.patches THEN (IF \E v \in mine : v > w.at THEN "overtaken" ELSE "shown")
                   ELSE IF l \in does.reloads THEN "waits" ELSE last[l]]
     /\ held' = [l \in DOMAIN held |-> IF l \in does.patches THEN w.at ELSE held[l]]
  /\ UNCHANGED <<page, role, log, chosen, verdicts, counters>>

\* The handler's catch: a message, the reloads all the same, or nothing.
Fails(w) ==
  /\ w.stage = "refused"
  /\ writes' = writes \ {w}
  /\ LET how == Acts[w.act].failure
         tells == how = "told" \/ (how = "told if chosen" /\ chosen > 0) IN
     /\ told' = IF tells THEN told \cup {w.act} ELSE told
     /\ failed' = IF how = "reloads" THEN failed ELSE failed \cup {w.act}
     /\ IF how = "reloads" THEN Ask(Acts[w.act].reloads) ELSE UNCHANGED <<asked, last>>
  /\ UNCHANGED <<page, role, log, held, chosen, mine, dead, barred, counters>>

\* Someone else does one of the things the page is for.
Other(a) ==
  /\ Trouble
  /\ RouteOf(a).changes # {} /\ Takes(a)
  /\ \E s \in Outcomes(a) : log' = Change(a, s)
  /\ UNCHANGED <<page, role, held, asked, last, chosen, writes, mine, verdicts, presses>>

BrowserNext ==
  \/ Choose
  \/ \E l \in DOMAIN Loads : Arrive(l) \/ LoadFails(l) \/ Poll(l)
  \/ \E a \in DOMAIN Acts : Press(a) \/ Other(a)
  \/ \E w \in writes : Serve(w) \/ Refuse(w) \/ Lose(w) \/ Succeeds(w) \/ Fails(w)

BrowserSpec == BrowserInit /\ [][BrowserNext]_browserVars

(***************************************************************************)
(* What the pages promise their users.  Each property names the places     *)
(* where the code breaks it.                                               *)
(***************************************************************************)
AtRest == writes = {} /\ \A l \in DOMAIN Loads : asked[l] = <<>>

\* When nothing is in flight, every loaded list whose last request was answered last shows
\* at least the changes the API told the page it made.
StaleLists == {<<"receptions", "validate", "orders">>}
WritesAreShown ==
  AtRest => \A l \in DOMAIN Loads, v \in mine :
    held[l] >= 1 /\ last[l] = "shown" /\ log[v].changes \cap Loads[l].shows # {}
    => held[l] >= v \/ <<page, log[v].act, l>> \in StaleLists

\* No button is refused for the very status the page shows it for; but an order sent for
\* approval stays a draft to the list, and a movement held for it one to be posted.
DeadButtons == {<<"commandes", "send">>, <<"tresorerie", "post">>}
NoDeadButton == \A a \in dead : <<page, a>> \in DeadButtons

\* Whose role gives the permission a page's work needs may load what the page chooses from
\* and press what it shows; but the lists of other modules need permissions of theirs, the
\* steps of a delivery a driver's, and the dashboard those of two modules.
ShutDoors ==
  {<<p, "Gestionnaire", "suppliers">> : p \in {"achats", "commandes"}}
  \cup {<<"logistique", "Gestionnaire", a>> : a \in {"load", "depart", "fail", "cancel"}}
  \cup {<<p, "Comptable", "customers">> : p \in {"factures", "credit", "echeanciers"}}
  \cup {<<p, "Comptable", "items">> : p \in {"docEmployees", "docOrders"}}
  \cup {<<"cashTransfers", "Comptable", "registers">>, <<"actifs", "Comptable", "warehouses">>,
        <<"approbations", "Comptable", "roles">>, <<"paie", "DRH", "bankAccounts">>}
  \cup {<<"dashboard", r, "analytics">> : r \in DOMAIN DefaultRoles \ {"Administrateur"}}
  \cup {<<"dashboard", r, "approvals">> : r \in DOMAIN DefaultRoles \ {"Administrateur", "Comptable"}}
RolesCanWork == \A x \in barred : <<page, role, x>> \in ShutDoors

\* After a failure a message is on the page, or the list was asked for again; and a page
\* calls a list empty only when the API did.
Silences ==
  {<<"stockTransfer", "receive">>, <<"credit", "check">>, <<"actifs", "run">>, <<"roles", "delete">>,
   <<"paie", "pdf">>, <<"bell", "markAllRead">>, <<"bell", "notifications">>, <<"banque", "statements">>}
NothingIsHidden ==
  /\ \A a \in failed \ told : <<page, a>> \in Silences
  /\ \A l \in Screen.none : held[l] = Empty => <<page, l>> \in Silences

(***************************************************************************)
(* What the pages' tables say one by one; the rest is what a user, the     *)
(* network and the API make of them.                                       *)
(***************************************************************************)
\* Buttons stand in lists of their page, and a list starts with nothing.
Wired(p) ==
  /\ \A l \in DOMAIN LoadsOf(p) : LoadsOf(p)[l].starts \in {Loading, Empty}
  /\ \A a \in DOMAIN ActsOf(p) : /\ ViewOf(p).buttons[a].in \in DOMAIN LoadsOf(p) \cup {None}
                                  /\ ViewOf(p).buttons[a].level \in Nat
  /\ ViewOf(p).none \subseteq DOMAIN LoadsOf(p)

\* What a button changes is loaded again, or the answer is put in the list.
Reloads(p) ==
  \A a \in DOMAIN ActsOf(p), l \in DOMAIN LoadsOf(p) :
    ActsOf(p)[a].route.changes \cap LoadsOf(p)[l].shows # {} =>
      l \in ActsOf(p)[a].reloads \cup ActsOf(p)[a].patches \/ <<p, a, l>> \in StaleLists

\* A button is on rows of statuses that its route accepts.
Enables(p) ==
  \A a \in DOMAIN ActsOf(p) :
    LET b == ViewOf(p).buttons[a]
        offers == IF b.in = None THEN {} ELSE IF b.offers = {} THEN Statuses(p) ELSE b.offers \cap Statuses(p)
    IN \/ ActsOf(p)[a].route.on = None
       \/ None \notin Statuses(p) /\ offers \subseteq ActsOf(p)[a].route.from
       \/ <<p, a>> \in DeadButtons

\* The roles a page is for are granted what it loads and sends.
Admits(p) ==
  \A r \in Workers(p) :
    /\ \A l \in DOMAIN LoadsOf(p) : \/ LoadsOf(p)[l].route.needs = Anyone
                                    \/ Has(r, LoadsOf(p)[l].route.needs)
                                    \/ <<p, r, l>> \in ShutDoors
    /\ \A a \in DOMAIN ActsOf(p) : \/ ActsOf(p)[a].route.needs = Anyone
                                   \/ Has(r, ActsOf(p)[a].route.needs)
                                   \/ <<p, r, a>> \in ShutDoors

\* A failure is told, and no list that can be called empty is emptied by one.
Speaks(p) ==
  /\ \A a \in DOMAIN ActsOf(p) :
       \/ ActsOf(p)[a].failure \in {"told", "reloads"}
       \/ ActsOf(p)[a].failure = "told if chosen" /\ ViewOf(p).buttons[a].level > 0
       \/ <<p, a>> \in Silences
  /\ \A l \in ViewOf(p).none :
       \/ LoadsOf(p)[l].starts # Empty /\ LoadsOf(p)[l].failure # "emptied"
       \/ <<p, l>> \in Silences

ASSUME PagesAssumption ==
  \A p \in OpenPages : Wired(p) /\ Reloads(p) /\ Enables(p) /\ Admits(p) /\ Speaks(p)
=============================================================================
