------------------------------ MODULE Accounts ------------------------------
(***************************************************************************)
(* The account side of the server: the two tables of UserRepository, the   *)
(* HTTP endpoints and the socket's Login that read and write them, bearer  *)
(* tokens, the budget of attempts they share, and the report of a finished *)
(* match, which moves ratings and then writes the game down.               *)
(*                                                                         *)
(* Each request and each report has a thread of its own; every call of the *)
(* repository, the token store and the limiter holds that object's mutex   *)
(* and is one action, except a rating transaction, which a crash can cut.  *)
(* The process can be told to stop, crash at any step, and start again;    *)
(* the tables are what it finds then.                                      *)
(***************************************************************************)
EXTENDS Integers, Sequences, FiniteSets, Functions

CONSTANTS
    Users, BadNames,     \* names clients present; those new accounts may not have
    Words, WeakWords,    \* passwords likewise
    Requests,            \* requests ever made, one thread each
    Tokens,              \* values random_hex_token draws
    Ips,                 \* addresses of clients
    Games,               \* matches ever played
    StartingRating, Penalty,   \* kStartingRating, kDisconnectPenalty
    K, Spread, Expected, \* Elo: the factor, and the expected score in thousandths
                         \* of a player ahead by so much, level beyond Spread
    MaxAttempts, Window, \* RateLimiter
    SweepEvery,          \* kSweepEveryNCalls
    Lifetime,            \* kTokenLifetime
    MaxTime,             \* bound of the model: the clock
    MaxStarts,           \* bound of the model: starts of the process
    None                 \* std::nullopt, NULL

Times == Window .. MaxTime   \* the steady clock is past its epoch by a window
Sides == {"White", "Black"}
Reasons == {"decisive", "draw", "disconnect"}

ASSUME AccountsAssumption ==
    /\ BadNames \subseteq Users /\ WeakWords \subseteq Words /\ IsFiniteSet(Users)
    /\ StartingRating \in Nat /\ Penalty \in Nat /\ K \in Nat
    /\ Spread \in Nat /\ Expected \in [-Spread .. Spread -> 0 .. 1000]
    /\ \A d \in -Spread .. Spread : Expected[-d] = 1000 - Expected[d]
    /\ MaxAttempts \in Nat /\ Window \in Nat \ {0} /\ SweepEvery \in Nat \ {0}
    /\ Lifetime \in Nat /\ MaxTime \in Nat /\ Window <= MaxTime /\ MaxStarts \in Nat

VARIABLES
    users,      \* table users: [word, rating], or None
    games,      \* table games: rows [game, white, black, winner, reason]
    tx,         \* the ratings an open transaction has written
    tokens,     \* AuthTokenStore: [owner, expires], or None
    buckets,    \* RateLimiter::buckets_: [count, start], or None
    calls,      \* calls_since_sweep_
    passed,     \* how many attempts each address was allowed, when
    clock,      \* steady_clock
    request,    \* what each request asks, and how far its thread has come
    reply,      \* what it was answered: [status, token]
    report,     \* what on_result was told of a match, and how far it is
    process,    \* "up", "stopping", "quiet" or "down"
    starts      \* of the process

tables == <<users, games, tx>>
limiter == <<buckets, calls, passed>>
life == <<clock, process, starts>>
vars == <<tables, tokens, limiter, request, reply, report, life>>

Query == [kind : {"register", "login", "socket", "history"}, name : Users,
          word : Words \cup {None}, step : {"admitted", "known", "proved", "answered", "lost"}]
Answer == [status : {200, 201, 400, 401, 403, 409, 429}, token : Tokens \cup {None}]
Row == [game : Games, white : Users, black : Users, winner : Users \cup {None},
        reason : Reasons]
Report == [white : Users, black : Users, winner : Sides \cup {None},
           reason : Reasons \cup {None},
           step : {"playing", "rating", "rated", "recorded", "torn", "lost"}]

ASSUME NoneAssumption ==
    None \notin [word : Words, rating : Int] \cup Query \cup Answer \cup Report
                \cup [count : Nat \ {0}, start : Times] \cup Reasons

Init ==
    /\ users = [u \in Users |-> None] /\ games = {} /\ tx = None
    /\ tokens = [t \in Tokens |-> None]
    /\ buckets = [i \in Ips |-> None] /\ calls = 0
    /\ passed = [i \in Ips |-> [t \in Times |-> 0]]
    /\ clock = Window
    /\ request = [h \in Requests |-> None] /\ reply = [h \in Requests |-> None]
    /\ report = [g \in Games |-> None]
    /\ process = "up" /\ starts = 1
-----------------------------------------------------------------------------
\* RateLimiter: a fixed window per address, and a sweep every so many calls.

Fresh(bucket, now) == bucket # None /\ now - bucket.start < Window

Swept(now) == [i \in Ips |-> IF Fresh(buckets[i], now) THEN buckets[i] ELSE None]

Before(now) == IF calls + 1 >= SweepEvery THEN Swept(now) ELSE buckets
Mutant_Counted(i, now) == [count |-> 1, start |-> now]
Counted(i, now) ==
    LET bucket == Before(now)[i] IN
    IF Fresh(bucket, now) THEN [bucket EXCEPT !.count = @ + 1] ELSE [count |-> 1, start |-> now]
NextCalls == IF calls + 1 >= SweepEvery THEN 0 ELSE calls + 1
Allowed(i) == Counted(i, clock).count <= MaxAttempts

\* allow: every call counts, allowed or not.
Allow(i) ==
    /\ buckets' = [Before(clock) EXCEPT ![i] = Counted(i, clock)]
    /\ calls' = NextCalls
    /\ passed' = [passed EXCEPT ![i][clock] = @ + (IF Allowed(i) THEN 1 ELSE 0)]
-----------------------------------------------------------------------------
\* Requests.  An open transaction holds the repository's mutex.
Unlocked == tx = None
Answers(h, status, t) ==
    /\ request' = [request EXCEPT ![h].step = "answered"]
    /\ reply' = [reply EXCEPT ![h] = [status |-> status, token |-> t]]
Goes(h, step) == request' = [request EXCEPT ![h].step = step] /\ UNCHANGED reply
At(h, step) == request[h] # None /\ request[h].step = step
Listening(kind) == process = "up" \/ (process = "stopping" /\ kind # "socket")

\* POST /register and /login, and a socket's Login, share one budget.
Ask(h, kind, name, word, i) ==
    /\ request[h] = None /\ Listening(kind)
    /\ Allow(i)
    /\ request' = [request EXCEPT ![h] =
         [kind |-> kind, name |-> name, word |-> word,
          step |-> IF Allowed(i) THEN "admitted" ELSE "answered"]]
    /\ reply' = [reply EXCEPT ![h] =
         IF Allowed(i) THEN None ELSE [status |-> 429, token |-> None]]
    /\ UNCHANGED <<tables, tokens, report, life>>

\* handle_login asks whether the account exists, so that it registers nobody.
LookUp(h) ==
    /\ At(h, "admitted") /\ request[h].kind = "login" /\ Unlocked
    /\ IF users[request[h].name] = None THEN Answers(h, 401, None) ELSE Goes(h, "known")
    /\ UNCHANGED <<tables, tokens, limiter, report, life>>

ToAuthenticate(h) == \/ At(h, "known")
                     \/ At(h, "admitted") /\ request[h].kind # "login"
Mutant_Known(u) == FALSE
Known(u) == users[u] # None
Verified(h) == users[request[h].name].word = request[h].word
MayRegister(h) == request[h].name \notin BadNames /\ request[h].word \notin WeakWords

\* authenticate, by look-up or insertion under one lock, and what each of its
\* callers makes of the outcome.
Refusal(kind, outcome) ==
    IF kind # "register" THEN 401 ELSE IF outcome = "invalid" THEN 400 ELSE 409

Authenticate(h) ==
    LET q == request[h] IN
    /\ ToAuthenticate(h) /\ Unlocked
    /\ \/ /\ Known(q.name) /\ Verified(h)
          /\ CASE q.kind = "register" -> Answers(h, 409, None)
               [] q.kind = "login" -> Goes(h, "proved")
               [] q.kind = "socket" -> Answers(h, 200, None)
          /\ UNCHANGED users
       \/ /\ Known(q.name) /\ ~Verified(h)
          /\ Answers(h, Refusal(q.kind, "wrong"), None) /\ UNCHANGED users
       \/ /\ ~Known(q.name) /\ ~MayRegister(h)
          /\ Answers(h, Refusal(q.kind, "invalid"), None) /\ UNCHANGED users
       \/ /\ ~Known(q.name) /\ MayRegister(h)
          /\ users' = [users EXCEPT ![q.name] = [word |-> q.word, rating |-> StartingRating]]
          /\ IF q.kind = "socket" THEN Answers(h, 200, None) ELSE Goes(h, "proved")
    /\ UNCHANGED <<games, tx, tokens, limiter, report, life>>

\* Tokens drawn from 256 bits are never drawn twice.
Drawn == {reply[h].token : h \in {g \in Requests : reply[g] # None}}

Issue(h, t) ==
    /\ At(h, "proved") /\ t \notin Drawn
    /\ tokens' = [tokens EXCEPT ![t] = [owner |-> request[h].name, expires |-> clock + Lifetime]]
    /\ Answers(h, IF request[h].kind = "register" THEN 201 ELSE 200, t)
    /\ UNCHANGED <<tables, limiter, report, life>>

\* username_for: an entry that has expired is erased when it is asked for.
Expired(t) == tokens[t] # None /\ clock >= tokens[t].expires
Mutant_MayRead(t, name) == tokens[t] # None /\ ~Expired(t)
MayRead(t, name) == tokens[t] # None /\ ~Expired(t) /\ tokens[t].owner = name

\* GET /api/history/<name>, with any bearer token.
AskHistory(h, name, t) ==
    /\ request[h] = None /\ Listening("history")
    /\ request' = [request EXCEPT ![h] =
         [kind |-> "history", name |-> name, word |-> None, step |-> "answered"]]
    /\ reply' = [reply EXCEPT ![h] =
         [token |-> t,
          status |-> IF MayRead(t, name) THEN 200
                     ELSE IF tokens[t] = None \/ Expired(t) THEN 401 ELSE 403]]
    /\ tokens' = [tokens EXCEPT ![t] = IF Expired(t) THEN None ELSE @]
    /\ UNCHANGED <<tables, limiter, report, life>>
-----------------------------------------------------------------------------
\* Elo, in thousandths, rounded half away from zero (std::lround).
ExpectedScore(ahead) ==
    Expected[IF ahead > Spread THEN Spread ELSE IF ahead < -Spread THEN -Spread ELSE ahead]
Rounded(n) == IF n >= 0 THEN (n + 500) \div 1000 ELSE -((500 - n) \div 1000)
Updated(rating, opponent, score) ==
    rating + Rounded(K * (score - ExpectedScore(rating - opponent)))

RatingOf(u) == users[u].rating
Score(side, winner) == IF winner = None THEN 500 ELSE IF winner = side THEN 1000 ELSE 0
Opposite(side) == IF side = "White" THEN "Black" ELSE "White"
Player(g, side) == IF side = "White" THEN report[g].white ELSE report[g].black

\* apply_game_result: each side's new rating follows from both old ones.
AfterGame(g, side) ==
    Updated(RatingOf(Player(g, side)), RatingOf(Player(g, Opposite(side))),
            Score(side, report[g].winner))

ReportGoes(g, step) == report' = [report EXCEPT ![g].step = step]
Reporting(g, step) == report[g] # None /\ report[g].step = step /\ process # "down"

\* A match of two accounts that are logged in, and its end, on the tick thread.
Begin(g, white, black) ==
    /\ report[g] = None /\ process = "up" /\ white # black
    /\ users[white] # None /\ users[black] # None
    /\ report' = [report EXCEPT ![g] =
         [white |-> white, black |-> black, winner |-> None, reason |-> None, step |-> "playing"]]
    /\ UNCHANGED <<tables, tokens, limiter, request, reply, life>>

End(g, reason, winner) ==
    /\ Reporting(g, "playing") /\ (reason = "draw") = (winner = None)
    /\ report' = [report EXCEPT ![g].reason = reason, ![g].winner = winner, ![g].step = "rating"]
    /\ UNCHANGED <<tables, tokens, limiter, request, reply, life>>

\* rerate_pair, or rerate of the one who dropped, in one transaction.  Until it
\* commits a crash undoes it.
Side(g) == IF report[g].reason = "disconnect" THEN Opposite(report[g].winner) ELSE "White"

WriteFirst(g) ==
    /\ Reporting(g, "rating") /\ Unlocked
    /\ tx' = [game |-> g, written |-> <<
         IF report[g].reason = "disconnect" THEN RatingOf(Player(g, Side(g))) - Penalty
         ELSE AfterGame(g, "White")>>]
    /\ UNCHANGED <<users, games, tokens, limiter, request, reply, report, life>>

WriteSecond(g) ==
    /\ ~Unlocked /\ tx.game = g /\ Len(tx.written) = 1 /\ report[g].reason # "disconnect"
    /\ tx' = [tx EXCEPT !.written = Append(@, AfterGame(g, "Black"))]
    /\ UNCHANGED <<users, games, tokens, limiter, request, reply, report, life>>

Mutant_Complete(g) == Len(tx.written) >= 1
Complete(g) == Len(tx.written) = IF report[g].reason = "disconnect" THEN 1 ELSE 2

Commit(g) ==
    /\ ~Unlocked /\ tx.game = g /\ Complete(g)
    /\ users' = [u \in Users |->
         IF u = Player(g, Side(g)) THEN [users[u] EXCEPT !.rating = tx.written[1]]
         ELSE IF Len(tx.written) = 2 /\ u = Player(g, "Black")
              THEN [users[u] EXCEPT !.rating = tx.written[2]]
              ELSE users[u]]
    /\ tx' = None
    /\ ReportGoes(g, "rated")
    /\ UNCHANGED <<games, tokens, limiter, request, reply, life>>

\* record_game, in a statement of its own.
Record(g) ==
    /\ Reporting(g, "rated") /\ Unlocked
    /\ games' = games \cup {[game |-> g, white |-> report[g].white, black |-> report[g].black,
                             reason |-> report[g].reason,
                             winner |-> IF report[g].winner = None THEN None
                                        ELSE Player(g, report[g].winner)]}
    /\ ReportGoes(g, "recorded")
    /\ UNCHANGED <<users, tx, tokens, limiter, request, reply, life>>
-----------------------------------------------------------------------------
\* The process, from main: sockets are stopped first, then HTTP, then the rooms,
\* whose workers finish the tick, and with it the report, they are in.

Underway(g) == report[g] # None /\ report[g].step \in {"rating", "rated"}
InFlight(h) == request[h] # None /\ request[h].step \in {"admitted", "known", "proved"}

\* What was only in memory is gone.
Forgotten ==
    /\ tokens' = [t \in Tokens |-> None] /\ buckets' = [i \in Ips |-> None] /\ calls' = 0
    /\ passed' = [i \in Ips |-> [t \in Times |-> 0]]
    /\ request' = [h \in Requests |->
         IF InFlight(h) THEN [request[h] EXCEPT !.step = "lost"] ELSE request[h]]
    /\ UNCHANGED reply

Stop == /\ process = "up" /\ process' = "stopping"
        /\ \A h \in Requests : InFlight(h) => request[h].kind # "socket"
        /\ UNCHANGED <<tables, tokens, limiter, request, reply, report, clock, starts>>

StopHttp == /\ process = "stopping" /\ process' = "quiet"
            /\ \A h \in Requests : ~InFlight(h)
            /\ UNCHANGED <<tables, tokens, limiter, request, reply, report, clock, starts>>

WorkersJoined == \A g \in Games : ~Underway(g)

Exit ==
    /\ process = "quiet" /\ WorkersJoined
    /\ process' = "down" /\ Forgotten
    /\ report' = [g \in Games |->
         IF report[g] = None \/ report[g].step # "playing" THEN report[g]
         ELSE [report[g] EXCEPT !.step = "lost"]]
    /\ UNCHANGED <<tables, clock, starts>>

\* A signal, or an exception out of a worker thread.
Crash ==
    /\ process # "down" /\ process' = "down" /\ Forgotten /\ tx' = None
    /\ report' = [g \in Games |->
         IF report[g] = None THEN None
         ELSE [report[g] EXCEPT !.step = CASE @ \in {"playing", "rating"} -> "lost"
                                           [] @ = "rated" -> "torn"
                                           [] OTHER -> @]]
    /\ UNCHANGED <<users, games, clock, starts>>

Start == /\ process = "down" /\ starts < MaxStarts
         /\ process' = "up" /\ starts' = starts + 1
         /\ UNCHANGED <<tables, tokens, limiter, request, reply, report, clock>>

TimePasses == /\ clock < MaxTime /\ clock' = clock + 1
              /\ UNCHANGED <<tables, tokens, limiter, request, reply, report, process, starts>>
-----------------------------------------------------------------------------
Asked == \E h \in Requests, name \in Users :
            \/ \E kind \in {"register", "login", "socket"}, word \in Words, i \in Ips :
                 Ask(h, kind, name, word, i)
            \/ \E t \in Tokens : AskHistory(h, name, t)
Served == \E h \in Requests :
            LookUp(h) \/ Authenticate(h) \/ \E t \in Tokens : Issue(h, t)
Played == \E g \in Games :
            \/ \E white, black \in Users : Begin(g, white, black)
            \/ \E reason \in Reasons, winner \in Sides \cup {None} : End(g, reason, winner)
Reported == \E g \in Games : WriteFirst(g) \/ WriteSecond(g) \/ Commit(g) \/ Record(g)

Next == Asked \/ Served \/ Played \/ Reported
        \/ Stop \/ StopHttp \/ Exit \/ Crash \/ Start \/ TimePasses

Spec == Init /\ [][Next]_vars
-----------------------------------------------------------------------------
TypeOK ==
    /\ users \in [Users -> [word : Words, rating : Int] \cup {None}] /\ games \subseteq Row
    /\ tx \in [game : Games, written : Seq(Int)] \cup {None}
    /\ tokens \in [Tokens -> [owner : Users, expires : Nat] \cup {None}]
    /\ buckets \in [Ips -> [count : Nat \ {0}, start : Times] \cup {None}]
    /\ calls \in 0 .. SweepEvery - 1
    /\ clock \in Times /\ starts \in Nat
    /\ request \in [Requests -> Query \cup {None}]
    /\ reply \in [Requests -> Answer \cup {None}]
    /\ report \in [Games -> Report \cup {None}]
    /\ process \in {"up", "stopping", "quiet", "down"}

\* A name is given out once: two registrations of it are never both answered
\* 201, however they race and whatever crash lies between them.
NameIsTakenOnce ==
    \A h, g \in Requests :
        h # g /\ reply[h] # None /\ reply[g] # None /\ reply[h].status = 201
              /\ reply[g].status = 201 => request[h].name # request[g].name

\* A history is shown only against a token handed to one who knew that
\* account's password.
HistoryIsPrivate ==
    \A h \in Requests : reply[h] # None /\ request[h].kind = "history" /\ reply[h].status = 200 =>
        \E g \in Requests : /\ reply[g] # None /\ request[g].kind # "history"
                            /\ reply[g].token = reply[h].token
                            /\ request[g].name = request[h].name
                            /\ users[request[g].name].word = request[g].word

\* "At most 2x max_attempts can land across a window boundary", sweeps and
\* refused attempts notwithstanding.
BudgetHolds ==
    \A i \in Ips, t \in Times :
        SumFunctionOnSet(passed[i], {s \in Times : t <= s /\ s < t + Window})
            <= 2 * MaxAttempts

\* Games move points between accounts and forfeits take a fixed number away, in
\* whole transactions: the history, with the reports a crash tore or that are
\* under way, accounts for every point.
Forfeits == {g \in Games : report[g] # None /\ report[g].reason = "disconnect"
                           /\ report[g].step \in {"rated", "recorded", "torn"}}
Holders == {u \in Users : users[u] # None}
PointsAreAccountedFor ==
    SumFunctionOnSet([u \in Holders |-> RatingOf(u)], Holders)
        = StartingRating * Cardinality(Holders) - Penalty * Cardinality(Forfeits)
=============================================================================
