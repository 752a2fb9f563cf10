-------------------------------- MODULE WebApp --------------------------------
(***************************************************************************)
(* The web app over the in-memory backend of frontend/src/api/mock.ts: the *)
(* stores auth.store and wallet.store, the pages that submit to them and   *)
(* the mock's database.                                                    *)
(*                                                                         *)
(* Every call of the mock waits for a timer and then runs to its end.  The *)
(* firing of a timer is one step: the mock's handler, what the awaiting    *)
(* store and page do with its answer, and the effects of the page it leads *)
(* to.  Between two timers the user may do anything the pages allow.       *)
(*                                                                         *)
(* One currency stands for both.  The pages make a new idempotency key for *)
(* every submission and never send it twice, so the mock's table of keys   *)
(* is never hit.                                                           *)
(***************************************************************************)
EXTENDS Lists, SequencesExt, FiniteSetsExt

CONSTANTS
    Phones,     \* telephone numbers; DemoPhone has the seeded account
    DemoPhone,
    Demo,       \* its seeded balance
    Amounts,    \* what may be sent, paid or topped up
    Flows,      \* names for the async functions of the app that are running
    MaxCalls    \* bound: submissions of a behaviour

ASSUME PhonesAssumption ==
    IsFiniteSet(Phones) /\ Phones \subseteq Nat \ {0} /\ DemoPhone \in Phones
ASSUME AmountsAssumption == Demo \in Nat /\ Amounts \subseteq Nat \ {0}
ASSUME CallsAssumption == MaxCalls \in Nat

VARIABLES
    users,     \* usersById with each one's wallet and transactions
    byPhone,   \* usersByPhone, 0 where there is nobody
    pendings,  \* pendingByToken: a token is the position
    session,   \* currentUserId, 0 for null
    timers,    \* the calls waiting, in the order they were made
    user,      \* auth.store: the user signed in, 0 for null
    pending,   \* auth.store: pendingUserId, 0 for null
    loading,   \* auth.store: status
    shown,     \* wallet.store: whose wallets are there, and the transactions
    fetching,  \* wallet.store: status
    page,
    step,      \* RegisterPage: which form is shown
    flow,      \* each flow: its operation, whether its page is still there, the
               \* movements it made, what fetchAll has read, what it reported
    calls      \* what the bound counts

mock == <<users, byPhone, pendings, session>>
stores == <<user, pending, loading, shown, fetching>>
screen == <<page, step>>
vars == <<users, byPhone, pendings, session, timers, user, pending, loading, shown,
          fetching, page, step, flow, calls>>

Unread == [owner |-> 0, history |-> <<>>]
Begun(op, to, amount, here) ==
    [op |-> op, to |-> to, amount |-> amount, here |-> here, moved |-> 0,
     got |-> Unread, told |-> "none"]
Nothing == Begun("none", 0, 0, FALSE)

Account(phone, balance) == [phone |-> phone, balance |-> balance, history |-> <<>>]

Init ==
    /\ users = <<Account(DemoPhone, Demo)>>
    /\ byPhone = [p \in Phones |-> IF p = DemoPhone THEN 1 ELSE 0]
    /\ pendings = <<>>
    /\ session = 0
    /\ timers = <<>>
    /\ user = 0 /\ pending = 0 /\ loading = FALSE
    /\ shown = Unread /\ fetching = FALSE
    /\ page = "welcome" /\ step = "phone"
    /\ flow = [f \in Flows |-> Nothing]
    /\ calls = 0

-------------------------------------------------------------------------------
(* Timers.                                                                 *)

(* Mutation of Latency: listTransactions is as quick as me.                *)
MutLatency(call) ==
    CASE call = "logout" -> 120 [] call = "listTransactions" -> 150 [] OTHER -> 350

(* delay(), in milliseconds. *)
Latency(call) == IF call = "logout" THEN 120 ELSE 350

Timer(f, call) == [flow |-> f, call |-> call]

(* A timer fires before those set later, unless they are quicker. *)
Due(f, call) ==
    \E i \in DOMAIN timers :
       /\ timers[i] = Timer(f, call)
       /\ \A j \in 1 .. i - 1 : Latency(timers[j].call) > Latency(call)

TimersOf(f) == {t \in ToSet(timers) : t.flow = f}
Others(f) == Without(timers, TimersOf(f))

(* fetchAll calls both lists in one turn. *)
Lists(f) == <<Timer(f, "listWallets"), Timer(f, "listTransactions")>>

Start(f, op, to, amount, call) ==
    /\ flow[f] = Nothing /\ calls < MaxCalls
    /\ calls' = calls + 1
    /\ flow' = [flow EXCEPT ![f] = Begun(op, to, amount, TRUE)]
    /\ timers' = Append(timers, Timer(f, call))

(* A flow whose page is left runs on, but has no form to write to. *)
Away(flows) == [f \in Flows |-> [flows[f] EXCEPT !.here = FALSE]]

-------------------------------------------------------------------------------
(* What the user does.                                                     *)

(* Mutation of Idle: the buttons stay enabled while a call is awaited.     *)
MutIdle == TRUE

(* The buttons of the sign-in and the registration share auth.store.status. *)
Idle == ~loading

SubmitLogin(f, phone) ==
    /\ page = "login" /\ Idle
    /\ Start(f, "login", phone, 0, "login")
    /\ loading' = TRUE
    /\ UNCHANGED <<mock, user, pending, shown, fetching, screen>>

SubmitPhone(f, phone) ==
    /\ page = "register" /\ step = "phone" /\ Idle
    /\ Start(f, "register", phone, 0, "register")
    /\ loading' = TRUE
    /\ UNCHANGED <<mock, user, pending, shown, fetching, screen>>

(* verifyPhone reads pendingUserId before it awaits. *)
SubmitCode(f) ==
    /\ page = "register" /\ step = "otp" /\ Idle /\ pending # 0
    /\ Start(f, "verify", pending, 0, "verifyPhone")
    /\ loading' = TRUE
    /\ UNCHANGED <<mock, user, pending, shown, fetching, screen>>

ChangePhone ==
    /\ page = "register" /\ step = "otp" /\ Idle
    /\ step' = "phone"
    /\ UNCHANGED <<mock, timers, stores, page, flow, calls>>

(* The button is never disabled. *)
LogOut(f) ==
    /\ page = "profile"
    /\ Start(f, "logout", 0, 0, "logout")
    /\ UNCHANGED <<mock, stores, screen>>

(* submitting, paying and topUpBusy live and die with their page. *)
Busy(op) == \E f \in Flows : flow[f].op = op /\ flow[f].here

(* HomePage hides its actions while it has no wallets and awaits some. *)
ActionsShown == page = "home" /\ ~(fetching /\ shown.owner = 0)

(* The wallets in the store are the database's own objects: the balance in *)
(* the store is always the one the mock has.                               *)
ShownBalance == IF shown.owner = 0 THEN 0 ELSE users[shown.owner].balance

(* SendMoneySheet checks the amount against the balance it last rendered.  *)
(* Every change of the status renders the page, so that balance can be old *)
(* only while a fetchAll was under way when it moved.                      *)
Send(f, phone, amount) ==
    /\ ActionsShown /\ ~Busy("send")
    /\ amount <= ShownBalance \/ fetching
    /\ Start(f, "send", phone, amount, "transfer")
    /\ UNCHANGED <<mock, stores, screen>>

(* PayPanel pays whatever code was pasted. *)
Pay(f, to, amount) ==
    /\ page = "qr" /\ ~Busy("pay")
    /\ Start(f, "pay", to, amount, "payRequest")
    /\ UNCHANGED <<mock, stores, screen>>

(* The panel for paying goes when the page is switched to charging. *)
SwitchMode(f) ==
    /\ page = "qr" /\ flow[f].op = "pay" /\ flow[f].here
    /\ flow' = [flow EXCEPT ![f].here = FALSE]
    /\ UNCHANGED <<mock, timers, stores, screen, calls>>

TopUp(f, amount) ==
    /\ ActionsShown /\ ~Busy("topUp")
    /\ Start(f, "topUp", 0, amount, "topUp")
    /\ UNCHANGED <<mock, stores, screen>>

(* The sheet, the panel or the message is closed. *)
Dismiss(f) ==
    /\ flow[f].told # "none"
    /\ flow' = [flow EXCEPT ![f] = Nothing]
    /\ UNCHANGED <<mock, timers, stores, screen, calls>>

-------------------------------------------------------------------------------
(* Pages.                                                                  *)

(* Mutation of Fetches: a page with wallets to show does not fetch again.  *)
MutFetches(p) == p \in {"home", "activity"} /\ shown.owner = 0

(* The pages that call fetchAll when they are mounted. *)
Fetches(p) == p \in {"home", "activity"}

(* Flow f has ended or not begun; page p appears, and f is its fetchAll. *)
GoTo(f, p) ==
    /\ page' = p /\ step' = "phone"
    /\ IF Fetches(p)
       THEN /\ flow' = [Away(flow) EXCEPT ![f] = Begun("fetch", 0, 0, FALSE)]
            /\ timers' = Others(f) \o Lists(f)
            /\ fetching' = TRUE
       ELSE /\ flow' = [Away(flow) EXCEPT ![f] = Nothing]
            /\ timers' = Others(f)
            /\ UNCHANGED fetching

(* A tab, a link or the history; ProtectedRoute lets no one else in. *)
Visit(f, p) ==
    /\ flow[f] = Nothing /\ page # p
    /\ p \in {"welcome", "login", "register"} \/ user # 0
    /\ GoTo(f, p)
    /\ UNCHANGED <<mock, user, pending, loading, shown, calls>>

(* navigate('/app/home') leaves a home page that is there as it is. *)
Enter(f, u) ==
    /\ session' = u /\ user' = u /\ loading' = FALSE
    /\ IF page # "home" THEN GoTo(f, "home")
       ELSE /\ flow' = [flow EXCEPT ![f] = Nothing]
            /\ timers' = Others(f)
            /\ UNCHANGED <<fetching, screen>>

-------------------------------------------------------------------------------
(* The mock's answers, and what the app does with them.                    *)

(* A store's catch: the error is shown and the form can be used again. *)
Rejected(f) ==
    /\ loading' = FALSE
    /\ flow' = [flow EXCEPT ![f] = Nothing]
    /\ timers' = Others(f)
    /\ UNCHANGED <<mock, user, pending, shown, fetching, screen, calls>>

LoginAnswered(f) ==
    /\ Due(f, "login")
    /\ byPhone[flow[f].to] # 0
    /\ Enter(f, byPhone[flow[f].to])
    /\ UNCHANGED <<users, byPhone, pendings, pending, shown, calls>>

(* Nobody has the number, or the password is wrong. *)
LoginRefused(f) == Due(f, "login") /\ Rejected(f)

Registered(f) ==
    /\ Due(f, "register")
    /\ byPhone[flow[f].to] = 0
    /\ pendings' = Append(pendings, [phone |-> flow[f].to, live |-> TRUE])
    /\ pending' = Len(pendings) + 1 /\ loading' = FALSE
    /\ step' = IF flow[f].here THEN "otp" ELSE step
    /\ flow' = [flow EXCEPT ![f] = Nothing]
    /\ timers' = Others(f)
    /\ UNCHANGED <<users, byPhone, session, user, shown, fetching, page, calls>>

RegisterRefused(f) ==
    /\ Due(f, "register")
    /\ byPhone[flow[f].to] # 0
    /\ Rejected(f)

(* The number is not looked up again: it was free at register. *)
Verified(f) ==
    /\ Due(f, "verifyPhone")
    /\ pendings[flow[f].to].live
    /\ LET phone == pendings[flow[f].to].phone
       IN /\ users' = Append(users, Account(phone, 0))
          /\ byPhone' = [byPhone EXCEPT ![phone] = Len(users) + 1]
    /\ pendings' = [pendings EXCEPT ![flow[f].to].live = FALSE]
    /\ pending' = 0
    /\ Enter(f, Len(users) + 1)
    /\ UNCHANGED <<shown, calls>>

(* The code is wrong, or the registration is gone. *)
VerifyRefused(f) == Due(f, "verifyPhone") /\ Rejected(f)

(* The wallet store is not reset. *)
LoggedOut(f) ==
    /\ Due(f, "logout")
    /\ session' = 0 /\ user' = 0 /\ pending' = 0
    /\ GoTo(f, "welcome")
    /\ UNCHANGED <<users, byPhone, pendings, loading, shown, calls>>

(* A movement, then fetchAll. *)
Moved(f) ==
    /\ flow' = [flow EXCEPT ![f].moved = @ + 1]
    /\ timers' = Others(f) \o Lists(f)
    /\ fetching' = TRUE
    /\ UNCHANGED <<byPhone, pendings, session, user, pending, loading, shown, screen,
                   calls>>

Told(f, what) ==
    /\ flow' = [flow EXCEPT ![f].told = what]
    /\ timers' = Others(f)
    /\ UNCHANGED <<mock, user, pending, loading, screen, calls>>

Credit(account, category, amount) ==
    [phone |-> account.phone, balance |-> account.balance + amount,
     history |-> Append(account.history, [category |-> category, amount |-> amount])]

Recipient(f) ==
    CASE flow[f].op = "send" -> byPhone[flow[f].to]
      [] flow[f].op = "pay" /\ flow[f].to \in DOMAIN users -> flow[f].to
      [] OTHER -> 0

(* Mutation of MayMove: the balance is left to the sheet's own check.      *)
MutMayMove(f) == session # 0 /\ Recipient(f) \notin {0, session}

(* requireSession, the recipient, and the guards of executeTransfer. *)
MayMove(f) ==
    /\ session # 0
    /\ Recipient(f) \notin {0, session}
    /\ users[session].balance >= flow[f].amount

PayDue(f) == Due(f, "transfer") \/ Due(f, "payRequest")

Transferred(f) ==
    /\ PayDue(f) /\ MayMove(f)
    /\ users' = [users EXCEPT
          ![session] = Credit(@, "transfer", -flow[f].amount),
          ![Recipient(f)] = Credit(@, "transfer", flow[f].amount)]
    /\ Moved(f)

TransferRefused(f) ==
    /\ PayDue(f) /\ ~MayMove(f)
    /\ Told(f, "failed")
    /\ UNCHANGED <<shown, fetching>>

ToppedUp(f) ==
    /\ Due(f, "topUp") /\ session # 0
    /\ users' = [users EXCEPT ![session] = Credit(@, "topup", flow[f].amount)]
    /\ Moved(f)

TopUpRefused(f) ==
    /\ Due(f, "topUp") /\ session = 0
    /\ Told(f, "failed")
    /\ UNCHANGED <<shown, fetching>>

(* The page's own fetchAll has nobody to tell.  The status is idle again,  *)
(* whatever other fetchAll is under way.                                   *)
FetchEnds(f, what) ==
    /\ fetching' = FALSE
    /\ IF flow[f].op = "fetch"
       THEN /\ flow' = [flow EXCEPT ![f] = Nothing]
            /\ timers' = Others(f)
            /\ UNCHANGED <<mock, user, pending, loading, screen, calls>>
       ELSE Told(f, what)

(* listWallets answers with the wallets themselves, listTransactions with  *)
(* the transactions there are.                                             *)
Read(f, call) ==
    IF call = "listWallets"
    THEN [flow[f].got EXCEPT !.owner = session]
    ELSE [flow[f].got EXCEPT !.history = users[session].history]

(* Promise.all: the store changes when the second list is there. *)
ListAnswered(f, call) ==
    /\ Due(f, call) /\ session # 0
    /\ IF TimersOf(f) = {Timer(f, call)}
       THEN shown' = Read(f, call) /\ FetchEnds(f, "done")
       ELSE /\ flow' = [flow EXCEPT ![f].got = Read(f, call)]
            /\ timers' = Without(timers, {Timer(f, call)})
            /\ UNCHANGED <<mock, stores, screen, calls>>

(* Mutation of FetchFailed: fetchAll passes the error on to its caller.    *)
MutFetchFailed(f) == FetchEnds(f, "failed") /\ UNCHANGED shown

(* fetchAll catches: its caller goes on as if it had read both. *)
FetchFailed(f) == FetchEnds(f, "done") /\ UNCHANGED shown

ListsRefused(f) ==
    /\ Due(f, "listWallets") \/ Due(f, "listTransactions")
    /\ session = 0
    /\ FetchFailed(f)

Fire(f) ==
    \/ LoginAnswered(f) \/ LoginRefused(f) \/ Registered(f) \/ RegisterRefused(f)
    \/ Verified(f) \/ VerifyRefused(f) \/ LoggedOut(f)
    \/ Transferred(f) \/ TransferRefused(f) \/ ToppedUp(f) \/ TopUpRefused(f)
    \/ (\E call \in {"listWallets", "listTransactions"} : ListAnswered(f, call))
    \/ ListsRefused(f)

Use(f) ==
    \/ \E p \in Phones : SubmitLogin(f, p) \/ SubmitPhone(f, p)
    \/ SubmitCode(f) \/ LogOut(f) \/ SwitchMode(f) \/ Dismiss(f)
    \/ \E n \in Amounts :
          \/ \E p \in Phones : Send(f, p, n)
          \/ \E to \in 1 .. Cardinality(Phones) : Pay(f, to, n)
          \/ TopUp(f, n)
    \/ \E p \in {"welcome", "login", "register", "home", "qr", "activity", "profile"} :
          Visit(f, p)

Next == ChangePhone \/ \E f \in Flows : Fire(f) \/ Use(f)

Spec == Init /\ [][Next]_vars

-------------------------------------------------------------------------------
(* Properties.                                                             *)

Movements == Seq([category : {"transfer", "topup"}, amount : Int])

(* The types; a balance is never negative: payments overlap, but each is   *)
(* weighed against the balance in the turn that debits it.                 *)
TypeOK ==
    /\ users \in Seq([phone : Phones, balance : Nat, history : Movements])
    /\ byPhone \in [Phones -> 0 .. Len(users)]
    /\ pendings \in Seq([phone : Phones, live : BOOLEAN])
    /\ session \in 0 .. Len(users) /\ user \in 0 .. Len(users)
    /\ pending \in 0 .. Len(pendings) /\ loading \in BOOLEAN
    /\ shown \in [owner : 0 .. Len(users), history : Movements] /\ fetching \in BOOLEAN
    /\ \A t \in ToSet(timers) : t.flow \in Flows /\ flow[t.flow] # Nothing

Sum(history, categories) ==
    SumFunction([i \in {j \in DOMAIN history : history[j].category \in categories}
                   |-> history[i].amount])

Opening(u) == IF u = 1 THEN Demo ELSE 0

FetchesUnderWay ==
    \E t \in ToSet(timers) : t.call \in {"listWallets", "listTransactions"}

(* A wallet is its opening balance and its history, and what one user was  *)
(* sent another has sent.  The pages hold the wallet itself and a copy of  *)
(* the history: the copy is a past of the true one, so that a page may     *)
(* show a balance its transactions do not explain, but only between a      *)
(* movement and the end of the fetchAll that follows it: with none under   *)
(* way the two agree again, whatever overlapped.                           *)
BooksAgree ==
    /\ \A u \in DOMAIN users :
          users[u].balance = Opening(u) + Sum(users[u].history, {"transfer", "topup"})
    /\ SumFunction([u \in DOMAIN users |-> Sum(users[u].history, {"transfer"})]) = 0
    /\ shown.owner # 0 => IsPrefix(shown.history, users[shown.owner].history)
    /\ user # 0 /\ ~FetchesUnderWay =>
          ShownBalance = Opening(shown.owner) + Sum(shown.history, {"transfer", "topup"})

(* register looks the number up, verifyPhone does not: that no number has  *)
(* two accounts rests on the forms of the app.                             *)
OneAccountPerPhone ==
    \A u, v \in DOMAIN users : users[u].phone = users[v].phone => u = v

(* Nothing resets the wallet store, and calls of one user are answered in  *)
(* the session of the next; still, once no fetchAll is under way, a user   *)
(* who is signed in sees their own money.                                  *)
ShowsOwnMoney ==
    user = 0 \/ shown.owner = user \/ FetchesUnderWay

(* What a submission reports is what it did: done with one movement,       *)
(* failed with none, whatever became of the fetchAll that follows.         *)
ReportIsTrue ==
    \A f \in Flows :
       /\ flow[f].told = "done" => flow[f].moved = 1
       /\ flow[f].told = "failed" => flow[f].moved = 0
===============================================================================
