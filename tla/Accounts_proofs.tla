--------------------------- MODULE Accounts_proofs ---------------------------
(***************************************************************************)
(* Names, tokens, histories, budgets and points, for any number of         *)
(* accounts, requests and matches, any Elo table, limits and lifetimes,    *)
(* and any crashes.                                                        *)
(***************************************************************************)
EXTENDS Accounts, FiniteSetTheorems, SequenceTheorems, TLAPS

-----------------------------------------------------------------------------
\* The sum of a function over a set is a fold with +, and any element may be
\* picked.
Addition(x, y) == x + y
Some(s) == CHOOSE x \in s : TRUE
Total == INSTANCE FoldTheorems WITH Op <- Addition, Pick <- Some

\* What holds of sums there holds of the sums here.
LEMMA SumsAreFolds ==
  /\ Total!Sums
  /\ \A f, S : SumFunctionOnSet(f, S) = Total!Sum(f, S)
  /\ \A S : IsFiniteSet(S) => Total!IsFiniteSet(S)
<1>1. Total!Sums
  <2>1. \A S : Total!Picks(S)
    BY DEF Total!Picks, Some
  <2>2. QED BY <2>1 DEF Total!Sums, Addition
<1>2. ASSUME NEW f, NEW S PROVE SumFunctionOnSet(f, S) = Total!Sum(f, S)
  BY DEF SumFunctionOnSet, FoldFunctionOnSet, Total!Sum, Total!Fold, Total!MapThenFoldSet,
         Addition, Some, MapThenFoldSet
<1>3. ASSUME NEW S, IsFiniteSet(S) PROVE Total!IsFiniteSet(S)
  BY <1>3 DEF Total!IsFiniteSet, IsFiniteSet
<1>4. QED BY <1>1, <1>2, <1>3

-----------------------------------------------------------------------------
\* Arithmetic of Elo.

\* A rating that has moved is a whole number.
LEMMA UpdatedType ==
  ASSUME NEW a \in Int, NEW b \in Int, NEW score \in Int
  PROVE  Updated(a, b, score) \in Int
<1>1. ExpectedScore(a - b) \in 0 .. 1000
  <2>1. PICK d \in Int : d = a - b
    OBVIOUS
  <2>2. PICK i : i = IF d > Spread THEN Spread ELSE IF d < -Spread THEN -Spread ELSE d
    OBVIOUS
  <2>3. i \in -Spread .. Spread
    BY <2>1, <2>2, AccountsAssumption
  <2>d. PICK D : D = -Spread .. Spread
    OBVIOUS
  <2>4. Expected[i] \in 0 .. 1000
    <3>1. Expected \in [D -> 0 .. 1000]
      BY ZenonT(30), <2>d, AccountsAssumption
    <3>2. i \in D
      BY <2>d, <2>3
    <3>3. QED BY <3>1, <3>2
  <2>5. QED BY ZenonT(30), <2>1, <2>2, <2>4 DEF ExpectedScore
<1>2. PICK e \in Int : e = ExpectedScore(a - b)
  BY <1>1
<1>3. PICK n \in Int : n = K * (score - e)
  BY AccountsAssumption
<1>4. Rounded(n) \in Int
  BY DEF Rounded
<1>5. QED
  BY <1>2, <1>3, <1>4 DEF Updated
-----------------------------------------------------------------------------
Account == [word : Words, rating : Int]

\* Whoever plays has an account, what is reported ended for a reason, and an
\* open transaction belongs to a match that is being rated.
PlayersKnown ==
    /\ \A g \in Games : report[g] # None =>
          /\ users[report[g].white] # None /\ users[report[g].black] # None
          /\ report[g].step \in {"rating", "rated"} => report[g].reason \in Reasons
    /\ tx # None => report[tx.game] # None /\ report[tx.game].step = "rating"

\* What is answered stays answered.  A history is at once, others bring a word.
Settled ==
    /\ \A h \in Requests : reply[h] # None => request[h] # None /\ request[h].step = "answered"
    /\ \A h \in Requests : request[h] # None =>
          IF request[h].kind = "history" THEN request[h].step = "answered"
          ELSE request[h].word \in Words

\* A registration under way to its 201, or there.
Claims(h) ==
    /\ request[h] # None /\ request[h].kind = "register"
    /\ request[h].step = "proved" \/ (reply[h] # None /\ reply[h].status = 201)

ClaimsDiffer ==
    /\ \A h \in Requests : reply[h] # None /\ reply[h].status = 201 => request[h].kind = "register"
    /\ \A h \in Requests : Claims(h) => users[request[h].name] # None
    /\ \A h, g \in Requests : h # g /\ Claims(h) /\ Claims(g) => request[h].name # request[g].name

\* The request knew the password of the account it named.
Knew(h) == users[request[h].name] # None /\ users[request[h].name].word = request[h].word

Earned(t, name) ==
    \E g \in Requests : /\ reply[g] # None /\ request[g].kind # "history"
                        /\ reply[g].token = t /\ request[g].name = name /\ Knew(g)

\* A token in the store, and the one a history was shown against, was earned.
TokensEarned ==
    /\ \A h \in Requests : request[h] # None /\ request[h].step = "proved" =>
          request[h].kind # "history" /\ Knew(h)
    /\ \A t \in Tokens : tokens[t] # None => Earned(t, tokens[t].owner)
    /\ \A h \in Requests : reply[h] # None /\ request[h].kind = "history" /\ reply[h].status = 200
          => Earned(reply[h].token, request[h].name)

Inv == TypeOK /\ PlayersKnown /\ Settled /\ ClaimsDiffer /\ TokensEarned
-----------------------------------------------------------------------------
LEMMA InvInit == Init => Inv
<1> SUFFICES ASSUME Init PROVE Inv
  OBVIOUS
<1>1. TypeOK
  BY AccountsAssumption DEF Init, TypeOK, Times
<1>2. PlayersKnown /\ Settled /\ ClaimsDiffer /\ TokensEarned
  BY DEF Init, PlayersKnown, Settled, ClaimsDiffer, Claims, TokensEarned
<1>3. QED BY <1>1, <1>2 DEF Inv
-----------------------------------------------------------------------------
\* What every step respects: accounts keep their words, answers stand.
Growth ==
    /\ \A u \in Users : users[u] # None => users'[u] # None /\ users'[u].word = users[u].word
    /\ \A h \in Requests : reply[h] # None => reply'[h] = reply[h] /\ request'[h] = request[h]

\* What was earned stays earned.
LEMMA EarnedKept ==
  ASSUME TypeOK, Settled, Growth, NEW t, NEW name, Earned(t, name)
  PROVE  Earned(t, name)'
<1>1. PICK g \in Requests : /\ reply[g] # None /\ request[g].kind # "history"
                            /\ reply[g].token = t /\ request[g].name = name /\ Knew(g)
  BY DEF Earned
<1>2. request[g] \in Query
  BY <1>1 DEF TypeOK, Settled
<1>3. reply'[g] = reply[g] /\ request'[g] = request[g]
  BY <1>1 DEF Growth
<1>4. Knew(g)'
  BY <1>1, <1>2, <1>3 DEF Knew, Growth, Query
<1>5. QED BY <1>1, <1>3, <1>4 DEF Earned

\* Tokens are earned after a step that adds only earned ones and shows only
\* histories they open.
LEMMA TokensEarnedStep ==
  ASSUME Inv, Growth,
         \A h \in Requests : request'[h] # None /\ request'[h].step = "proved" =>
            request'[h].kind # "history" /\ Knew(h)',
         \A t \in Tokens : tokens'[t] # None =>
            tokens'[t] = tokens[t] \/ Earned(t, tokens[t].owner)',
         \A h \in Requests : reply[h] = None /\ reply'[h] # None /\ request'[h].kind = "history"
                             /\ reply'[h].status = 200
            => Earned(reply[h].token, request[h].name)'
  PROVE  TokensEarned'
<1>1. ASSUME NEW t \in Tokens, tokens'[t] # None
      PROVE  Earned(t, tokens[t].owner)'
  <2>1. CASE tokens'[t] = tokens[t]
    <3>1. PICK n : n = tokens[t].owner
      OBVIOUS
    <3>2. Earned(t, n)
      BY <1>1, <2>1, <3>1 DEF Inv, TokensEarned
    <3>3. Earned(t, n)'
      BY <3>2, EarnedKept DEF Inv
    <3>4. QED BY <2>1, <3>1, <3>3 DEF Earned
  <2>2. QED BY <1>1, <2>1
<1>2. ASSUME NEW h \in Requests, reply'[h] # None, request'[h].kind = "history",
             reply'[h].status = 200
      PROVE  Earned(reply[h].token, request[h].name)'
  <2>1. CASE reply[h] # None
    <3>1. reply'[h] = reply[h] /\ request'[h] = request[h]
      BY <2>1 DEF Growth
    <3>2. PICK t, n : t = reply[h].token /\ n = request[h].name
      OBVIOUS
    <3>3. Earned(t, n)
      BY <1>2, <2>1, <3>1, <3>2 DEF Inv, TokensEarned
    <3>4. Earned(t, n)'
      BY <3>3, EarnedKept DEF Inv
    <3>5. QED BY <3>1, <3>2, <3>4 DEF Earned
  <2>2. QED BY <1>2, <2>1
<1>3. QED BY <1>1, <1>2 DEF TokensEarned

\* A step that moves neither requests nor tokens, and keeps accounts, disturbs
\* only what is said of matches.
LEMMA Elsewhere ==
  ASSUME Inv, Growth, UNCHANGED <<request, reply, tokens>>
  PROVE  Settled' /\ ClaimsDiffer' /\ TokensEarned'
<1>1. Settled'
  BY DEF Inv, Settled
<1>2. ClaimsDiffer'
  <2>1. \A h \in Requests : Claims(h)' = Claims(h)
    BY DEF Claims
  <2>2. \A h \in Requests : Claims(h) => users'[request'[h].name] # None
    <3>1. \A h \in Requests : Claims(h) => request[h] \in Query
      BY DEF Inv, TypeOK, Claims
    <3>2. QED BY <3>1 DEF Inv, ClaimsDiffer, Growth, Query
  <2>3. QED BY <2>1, <2>2 DEF Inv, ClaimsDiffer
<1>3. TokensEarned'
  <2>1. ASSUME NEW h \in Requests, request'[h] # None, request'[h].step = "proved"
        PROVE  request'[h].kind # "history" /\ Knew(h)'
    <3>1. request[h] \in Query
      BY <2>1 DEF Inv, TypeOK
    <3>2. request[h].kind # "history" /\ Knew(h)
      BY <2>1 DEF Inv, TokensEarned
    <3>3. QED BY <3>1, <3>2 DEF Knew, Growth, Query
  <2>2. QED BY <2>1, TokensEarnedStep
<1>4. QED BY <1>1, <1>2, <1>3
-----------------------------------------------------------------------------
\* Requests.

\* A claim is new only when its request is about to register the name.
LEMMA ClaimsStep ==
  ASSUME Inv, Growth,
         \A h \in Requests : reply[h] = None /\ reply'[h] # None /\ reply'[h].status = 201
            => Claims(h) /\ request'[h].kind = "register",
         \A h \in Requests : Claims(h)' => Claims(h) /\ request'[h].name = request[h].name
  PROVE  ClaimsDiffer'
<1>1. \A h \in Requests : reply'[h] # None /\ reply'[h].status = 201
        => request'[h].kind = "register"
  BY DEF Inv, ClaimsDiffer, Growth
<1>2. \A h \in Requests : Claims(h)' => users'[request'[h].name] # None
  <2>1. ASSUME NEW h \in Requests, Claims(h)'
        PROVE  users'[request'[h].name] # None
    <3>1. Claims(h) /\ request'[h].name = request[h].name
      BY <2>1
    <3>2. request[h].name \in Users /\ users[request[h].name] # None
      BY <3>1 DEF Inv, TypeOK, Query, ClaimsDiffer, Claims
    <3>3. QED BY <3>1, <3>2 DEF Growth
  <2>2. QED BY <2>1
<1>3. \A h, g \in Requests : h # g /\ Claims(h)' /\ Claims(g)'
        => request'[h].name # request'[g].name
  BY DEF Inv, ClaimsDiffer
<1>4. QED BY <1>1, <1>2, <1>3 DEF ClaimsDiffer

LEMMA BucketsType ==
  ASSUME TypeOK, NEW i \in Ips, Allow(i)
  PROVE  /\ buckets' \in [Ips -> [count : Nat \ {0}, start : Times] \cup {None}]
         /\ calls' \in 0 .. SweepEvery - 1
<1>1. PICK B : B = [count : Nat \ {0}, start : Times]
  OBVIOUS
<1>2. Before(clock) \in [Ips -> B \cup {None}]
  BY <1>1 DEF TypeOK, Before, Swept
<1>3. Counted(i, clock) \in B
  <2>1. PICK b : b = Before(clock)[i]
    OBVIOUS
  <2>2. CASE Fresh(b, clock)
    <3>1. b \in B
      BY <1>2, <2>1, <2>2 DEF Fresh
    <3>2. [b EXCEPT !.count = @ + 1] \in B
      BY <3>1, <1>1
    <3>3. QED BY <2>1, <2>2, <3>2 DEF Counted
  <2>3. CASE ~Fresh(b, clock)
    <3>1. [count |-> 1, start |-> clock] \in B
      BY <1>1 DEF TypeOK
    <3>2. QED BY <2>1, <2>3, <3>1 DEF Counted
  <2>4. QED BY <2>2, <2>3
<1>4. buckets' \in [Ips -> B \cup {None}]
  BY <1>2, <1>3 DEF Allow
<1>5. calls' \in 0 .. SweepEvery - 1
  BY AccountsAssumption DEF TypeOK, Allow, NextCalls
<1>6. QED BY <1>1, <1>4, <1>5

LEMMA AskInv ==
  ASSUME Inv, NEW h \in Requests, NEW kind \in {"register", "login", "socket"},
         NEW name \in Users, NEW word \in Words, NEW i \in Ips, Ask(h, kind, name, word, i)
  PROVE  Inv'
<1>1. PICK q \in Query :
        /\ q.kind = kind /\ q.name = name /\ q.word = word /\ q.step \in {"admitted", "answered"}
        /\ request' = [request EXCEPT ![h] = q]
        /\ q.step = "answered" \/ reply' = [reply EXCEPT ![h] = None]
        /\ q.step = "admitted" \/ reply' = [reply EXCEPT ![h] = [status |-> 429, token |-> None]]
  <2>1. PICK s : s = IF Allowed(i) THEN "admitted" ELSE "answered"
    OBVIOUS
  <2>2. PICK q : q = [kind |-> kind, name |-> name, word |-> word, step |-> s]
    OBVIOUS
  <2>3. q \in Query /\ q.kind = kind /\ q.name = name /\ q.word = word /\ q.step = s
    BY <2>1, <2>2 DEF Query
  <2>4. request' = [request EXCEPT ![h] = q]
    BY <2>1, <2>2 DEF Ask
  <2>5. s = "answered" \/ reply' = [reply EXCEPT ![h] = None]
    BY <2>1 DEF Ask
  <2>6. s = "admitted" \/ reply' = [reply EXCEPT ![h] = [status |-> 429, token |-> None]]
    BY <2>1 DEF Ask
  <2>7. s \in {"admitted", "answered"}
    BY <2>1
  <2>8. QED BY ZenonT(30), <2>3, <2>4, <2>5, <2>6, <2>7
<1>n. q # None
  BY <1>1, NoneAssumption
<1>2. reply[h] = None
  BY DEF Ask, Inv, Settled
<1>3. TypeOK'
  <2>1. [status |-> 429, token |-> None] \in Answer
    BY DEF Answer
  <2>2. request' \in [Requests -> Query \cup {None}] /\ reply' \in [Requests -> Answer \cup {None}]
    BY <1>1, <2>1 DEF Inv, TypeOK
  <2>3. UNCHANGED <<users, games, tx, tokens, clock, starts, report, process>>
    BY DEF Ask, tables, life
  <2>4. QED BY <2>2, <2>3, BucketsType DEF Inv, TypeOK, Ask
<1>4. PlayersKnown'
  BY DEF Ask, tables, Inv, PlayersKnown
<1>5. Growth
  BY <1>1, <1>2 DEF Ask, tables, Growth, Inv, TypeOK
<1>6. Settled'
  BY <1>1, <1>2, <1>n DEF Inv, TypeOK, Settled
<1>7. ClaimsDiffer'
  <2>1. ASSUME NEW g \in Requests, Claims(g)'
        PROVE  Claims(g) /\ request'[g].name = request[g].name
    <3>1. g # h
      BY <2>1, <1>1 DEF Inv, TypeOK, Claims
    <3>2. request'[g] = request[g] /\ reply'[g] = reply[g]
      BY <3>1, <1>1 DEF Inv, TypeOK
    <3>3. QED BY <2>1, <3>2 DEF Claims
  <2>2. \A g \in Requests : reply[g] = None /\ reply'[g] # None => reply'[g].status # 201
    BY <1>1 DEF Inv, TypeOK
  <2>3. QED BY <1>5, <2>1, <2>2, ClaimsStep
<1>8. TokensEarned'
  <2>1. ASSUME NEW g \in Requests, request'[g] # None, request'[g].step = "proved"
        PROVE  request'[g].kind # "history" /\ Knew(g)'
    <3>1. request'[g] = request[g] /\ UNCHANGED users
      BY <2>1, <1>1 DEF Inv, TypeOK, Ask, tables
    <3>2. QED BY <2>1, <3>1 DEF Inv, TokensEarned, Knew
  <2>2. \A g \in Requests : reply[g] = None /\ reply'[g] # None => reply'[g].status # 200
    BY <1>1 DEF Inv, TypeOK
  <2>3. UNCHANGED tokens
    BY DEF Ask
  <2>4. QED BY <1>5, <2>1, <2>2, <2>3, TokensEarnedStep
<1>9. QED BY <1>3, <1>4, <1>6, <1>7, <1>8 DEF Inv

\* A step of one request that has no answer yet, and keeps accounts and tokens.
LEMMA Serves ==
  ASSUME Inv, NEW h \in Requests, request[h] # None, reply[h] = None,
         request[h].kind # "history",
         NEW q \in Query, q.kind = request[h].kind, q.name = request[h].name,
         q.word = request[h].word, NEW a \in Answer \cup {None},
         request' = [request EXCEPT ![h] = q], reply' = [reply EXCEPT ![h] = a],
         a # None => q.step = "answered"
  PROVE  /\ request' \in [Requests -> Query \cup {None}]
         /\ reply' \in [Requests -> Answer \cup {None}]
         /\ Settled'
         /\ \A g \in Requests : g # h => request'[g] = request[g] /\ reply'[g] = reply[g]
         /\ request'[h] = q /\ reply'[h] = a
<1>1. q # None
  BY NoneAssumption
<1>2. request'[h] = q /\ reply'[h] = a
  BY DEF Inv, TypeOK
<1>3. \A g \in Requests : g # h => request'[g] = request[g] /\ reply'[g] = reply[g]
  BY DEF Inv, TypeOK
<1>4. Settled'
  BY <1>1, <1>2, <1>3 DEF Inv, Settled
<1>5. QED BY <1>2, <1>3, <1>4 DEF Inv, TypeOK

\* Answers and Goes are such steps.
LEMMA AnswersServes ==
  ASSUME Inv, NEW h \in Requests, request[h] # None, request[h].step # "answered",
         NEW status \in {200, 201, 400, 401, 403, 409, 429}, NEW t \in Tokens \cup {None},
         Answers(h, status, t)
  PROVE  \E q \in Query, a \in Answer :
           /\ q.kind = request[h].kind /\ q.name = request[h].name /\ q.word = request[h].word
           /\ q.step = "answered" /\ a.status = status /\ a.token = t
           /\ request' = [request EXCEPT ![h] = q] /\ reply' = [reply EXCEPT ![h] = a]
<1>1. PICK r \in Query : r = request[h]
  BY DEF Inv, TypeOK
<1>2. PICK q : q = [r EXCEPT !.step = "answered"]
  <2>1. [r EXCEPT !.step = "answered"] \in Query
    BY <1>1 DEF Query
  <2>2. QED BY <2>1
<1>3. /\ q \in Query /\ q.kind = r.kind /\ q.name = r.name /\ q.word = r.word
      /\ q.step = "answered"
  BY <1>1, <1>2 DEF Query
<1>4. request' = [request EXCEPT ![h] = q]
  BY <1>1, <1>2 DEF Answers, Inv, TypeOK
<1>5. PICK a : a = [status |-> status, token |-> t]
  <2>1. [status |-> status, token |-> t] \in Answer
    BY DEF Answer
  <2>2. QED BY <2>1
<1>6. a \in Answer /\ a.status = status /\ a.token = t
  BY <1>5 DEF Answer
<1>7. reply' = [reply EXCEPT ![h] = a]
  BY <1>5 DEF Answers
<1>8. QED BY ZenonT(30), <1>1, <1>3, <1>4, <1>6, <1>7

LEMMA GoesServes ==
  ASSUME Inv, NEW h \in Requests, request[h] # None, reply[h] = None,
         NEW step \in {"known", "proved"}, Goes(h, step)
  PROVE  \E q \in Query :
           /\ q.kind = request[h].kind /\ q.name = request[h].name /\ q.word = request[h].word
           /\ q.step = step
           /\ request' = [request EXCEPT ![h] = q] /\ reply' = [reply EXCEPT ![h] = None]
<1>1. PICK r \in Query : r = request[h]
  BY DEF Inv, TypeOK
<1>2. PICK q : q = [r EXCEPT !.step = step]
  OBVIOUS
<1>3. /\ q \in Query /\ q.kind = r.kind /\ q.name = r.name /\ q.word = r.word
      /\ q.step = step
  BY <1>1, <1>2 DEF Query
<1>4. request' = [request EXCEPT ![h] = q]
  BY <1>1, <1>2 DEF Goes, Inv, TypeOK
<1>5. reply' = [reply EXCEPT ![h] = None]
  BY DEF Goes, Inv, TypeOK
<1>6. QED BY <1>1, <1>3, <1>4, <1>5

\* Such a step that hands out no token and proves nothing new.
LEMMA Unproved ==
  ASSUME Inv, NEW h \in Requests, request[h] # None, reply[h] = None,
         request[h].kind # "history",
         NEW q \in Query, q.kind = request[h].kind, q.name = request[h].name,
         q.word = request[h].word, q.step # "proved", NEW a \in Answer \cup {None},
         request' = [request EXCEPT ![h] = q], reply' = [reply EXCEPT ![h] = a],
         a # None => q.step = "answered" /\ a.status # 201,
         Growth, UNCHANGED tokens
  PROVE  ClaimsDiffer' /\ TokensEarned'
<1>1. /\ \A g \in Requests : g # h => request'[g] = request[g] /\ reply'[g] = reply[g]
      /\ request'[h] = q /\ reply'[h] = a
  BY ZenonT(30), Serves
<1>2. ClaimsDiffer'
  <2>1. ASSUME NEW g \in Requests, Claims(g)'
        PROVE  Claims(g) /\ request'[g].name = request[g].name
    <3>1. g # h
      BY <2>1, <1>1 DEF Claims
    <3>2. QED BY <2>1, <3>1, <1>1 DEF Claims
  <2>2. \A g \in Requests : reply[g] = None /\ reply'[g] # None => reply'[g].status # 201
    BY <1>1
  <2>3. QED BY <2>1, <2>2, ClaimsStep
<1>3. TokensEarned'
  <2>1. ASSUME NEW g \in Requests, request'[g] # None, request'[g].step = "proved"
        PROVE  request'[g].kind # "history" /\ Knew(g)'
    <3>1. g # h /\ request'[g] = request[g]
      BY <2>1, <1>1
    <3>2. request[g] \in Query /\ request[g].kind # "history" /\ Knew(g)
      BY <2>1, <3>1 DEF Inv, TypeOK, TokensEarned
    <3>3. QED BY <3>1, <3>2 DEF Knew, Growth, Query
  <2>2. \A g \in Requests : reply[g] = None /\ reply'[g] # None => request'[g].kind # "history"
    BY <1>1
  <2>3. QED BY <2>1, <2>2, TokensEarnedStep
<1>4. QED BY <1>2, <1>3

\* Such a step that proves its request knows the account's password.
LEMMA Proves ==
  ASSUME Inv, NEW h \in Requests, request[h] # None, reply[h] = None,
         request[h].kind # "history", request[h].step # "proved",
         NEW q \in Query, q.kind = request[h].kind, q.name = request[h].name,
         q.word = request[h].word, q.step = "proved",
         request' = [request EXCEPT ![h] = q], reply' = [reply EXCEPT ![h] = None],
         Growth, UNCHANGED tokens,
         users'[q.name] # None, users'[q.name].word = q.word,
         q.kind = "register" => users[q.name] = None
  PROVE  ClaimsDiffer' /\ TokensEarned'
<1>1. /\ \A g \in Requests : g # h => request'[g] = request[g] /\ reply'[g] = reply[g]
      /\ request'[h] = q /\ reply'[h] = None
  BY Serves
<1>2. ClaimsDiffer'
  <2>1. ASSUME NEW g \in Requests, Claims(g)', g # h
        PROVE  /\ Claims(g) /\ request'[g] = request[g] /\ request[g].name \in Users
               /\ users[request[g].name] # None
    BY <2>1, <1>1 DEF Claims, Inv, ClaimsDiffer, TypeOK, Query
  <2>2. \A g \in Requests : reply'[g] # None /\ reply'[g].status = 201
          => request'[g].kind = "register"
    BY <1>1 DEF Inv, ClaimsDiffer
  <2>3. ASSUME NEW g \in Requests, Claims(g)'
        PROVE  users'[request'[g].name] # None
    <3>1. CASE g = h
      BY <3>1, <1>1
    <3>2. CASE g # h
      BY <3>2, <2>3, <2>1 DEF Growth
    <3>3. QED BY <3>1, <3>2
  <2>4. ASSUME NEW g \in Requests, g # h, Claims(g)', Claims(h)'
        PROVE  request'[g].name # request'[h].name
    <3>1. users[q.name] = None
      BY <2>4, <1>1 DEF Claims
    <3>2. QED BY <3>1, <2>4, <2>1, <1>1
  <2>5. ASSUME NEW g \in Requests, NEW f \in Requests, g # f, Claims(g)', Claims(f)'
        PROVE  request'[g].name # request'[f].name
    <3>1. CASE g = h \/ f = h
      BY <3>1, <2>5, <2>4
    <3>2. CASE g # h /\ f # h
      BY <3>2, <2>5, <2>1 DEF Inv, ClaimsDiffer
    <3>3. QED BY <3>1, <3>2
  <2>6. QED BY <2>2, <2>3, <2>5 DEF ClaimsDiffer
<1>3. TokensEarned'
  <2>1. ASSUME NEW g \in Requests, request'[g] # None, request'[g].step = "proved"
        PROVE  request'[g].kind # "history" /\ Knew(g)'
    <3>1. CASE g = h
      BY <3>1, <1>1 DEF Knew
    <3>2. CASE g # h
      <4>1. request'[g] = request[g]
        BY <3>2, <1>1
      <4>2. request[g] \in Query /\ request[g].kind # "history" /\ Knew(g)
        BY <2>1, <4>1 DEF Inv, TypeOK, TokensEarned
      <4>3. QED BY <4>1, <4>2 DEF Knew, Growth, Query
    <3>3. QED BY <3>1, <3>2
  <2>2. \A g \in Requests : reply[g] = None => reply'[g] = None
    BY <1>1
  <2>3. QED BY <2>1, <2>2, TokensEarnedStep
<1>4. QED BY <1>2, <1>3

\* Both, with what else they leave alone.
AccountsGrow ==
    /\ users' \in [Users -> Account \cup {None}]
    /\ \A u \in Users : users[u] # None => users'[u] = users[u]
    /\ UNCHANGED <<games, tx, tokens, buckets, calls, clock, starts, report, process>>

LEMMA ServedInv ==
  ASSUME Inv, AccountsGrow, Growth,
         request' \in [Requests -> Query \cup {None}],
         reply' \in [Requests -> Answer \cup {None}],
         Settled', ClaimsDiffer', TokensEarned'
  PROVE  Inv'
<1>1. TypeOK'
  BY DEF Inv, TypeOK, AccountsGrow, Account
<1>2. PlayersKnown'
  <2>1. \A g \in Games : report[g] # None => report[g].white \in Users /\ report[g].black \in Users
    BY DEF Inv, TypeOK, Report
  <2>2. QED BY <2>1 DEF Inv, PlayersKnown, AccountsGrow
<1>3. QED BY <1>1, <1>2 DEF Inv

LEMMA UnprovedInv ==
  ASSUME Inv, NEW h \in Requests, request[h] # None, reply[h] = None,
         request[h].kind # "history",
         NEW q \in Query, q.kind = request[h].kind, q.name = request[h].name,
         q.word = request[h].word, q.step # "proved", NEW a \in Answer \cup {None},
         request' = [request EXCEPT ![h] = q], reply' = [reply EXCEPT ![h] = a],
         a # None => q.step = "answered" /\ a.status # 201,
         AccountsGrow
  PROVE  Inv'
<1>1. /\ request' \in [Requests -> Query \cup {None}]
      /\ reply' \in [Requests -> Answer \cup {None}]
      /\ Settled'
      /\ \A g \in Requests : g # h => request'[g] = request[g] /\ reply'[g] = reply[g]
  BY ZenonT(30), Serves
<1>2. Growth
  BY <1>1 DEF Growth, AccountsGrow
<1>3. ClaimsDiffer' /\ TokensEarned'
  BY <1>2, Unproved DEF AccountsGrow
<1>4. QED BY <1>1, <1>2, <1>3, ServedInv

LEMMA ProvesInv ==
  ASSUME Inv, NEW h \in Requests, request[h] # None, reply[h] = None,
         request[h].kind # "history", request[h].step # "proved",
         NEW q \in Query, q.kind = request[h].kind, q.name = request[h].name,
         q.word = request[h].word, q.step = "proved",
         request' = [request EXCEPT ![h] = q], reply' = [reply EXCEPT ![h] = None],
         AccountsGrow,
         users'[q.name] # None, users'[q.name].word = q.word,
         q.kind = "register" => users[q.name] = None
  PROVE  Inv'
<1>1. /\ request' \in [Requests -> Query \cup {None}]
      /\ reply' \in [Requests -> Answer \cup {None}]
      /\ Settled'
      /\ \A g \in Requests : g # h => request'[g] = request[g] /\ reply'[g] = reply[g]
  BY Serves
<1>2. Growth
  BY <1>1 DEF Growth, AccountsGrow
<1>3. ClaimsDiffer' /\ TokensEarned'
  BY <1>2, Proves DEF AccountsGrow
<1>4. QED BY <1>1, <1>2, <1>3, ServedInv

\* Refusals, and answers short of a token.
LEMMA RefusedInv ==
  ASSUME Inv, NEW h \in Requests, request[h] # None, request[h].step # "answered",
         request[h].kind # "history", reply[h] = None,
         NEW status \in {200, 400, 401, 409}, Answers(h, status, None), AccountsGrow
  PROVE  Inv'
<1>1. PICK q \in Query, a \in Answer :
       /\ q.kind = request[h].kind /\ q.name = request[h].name /\ q.word = request[h].word
       /\ q.step = "answered" /\ a.status = status /\ a.token = None
       /\ request' = [request EXCEPT ![h] = q] /\ reply' = [reply EXCEPT ![h] = a]
  BY AnswersServes
<1>2. q.step # "proved" /\ a \in Answer \cup {None}
      /\ (a # None => q.step = "answered" /\ a.status # 201)
  BY <1>1
<1>3. QED BY <1>1, <1>2, UnprovedInv

LEMMA LookUpInv ==
  ASSUME Inv, NEW h \in Requests, LookUp(h)
  PROVE  Inv'
<1>1. request[h] # None /\ request[h].step = "admitted" /\ request[h].kind = "login"
      /\ reply[h] = None
  BY DEF LookUp, At, Inv, Settled
<1>2. AccountsGrow
  BY DEF LookUp, tables, limiter, life, AccountsGrow, Inv, TypeOK, Account
<1>3. CASE Answers(h, 401, None)
  BY <1>1, <1>2, <1>3, RefusedInv
<1>4. CASE Goes(h, "known")
  <2>1. PICK q \in Query :
         /\ q.kind = request[h].kind /\ q.name = request[h].name /\ q.word = request[h].word
         /\ q.step = "known"
         /\ request' = [request EXCEPT ![h] = q] /\ reply' = [reply EXCEPT ![h] = None]
    BY <1>1, <1>4, GoesServes
  <2>2. QED BY <1>1, <1>2, <2>1, UnprovedInv
<1>5. QED BY <1>3, <1>4 DEF LookUp

LEMMA AuthenticateInv ==
  ASSUME Inv, NEW h \in Requests, Authenticate(h)
  PROVE  Inv'
<1>1. request[h] \in Query /\ request[h] # None /\ reply[h] = None
      /\ request[h].step \in {"admitted", "known"} /\ request[h].kind # "history"
  BY DEF Authenticate, ToAuthenticate, At, Inv, TypeOK, Settled
<1>2. ASSUME Goes(h, "proved"), AccountsGrow,
             users'[request[h].name] # None, users'[request[h].name].word = request[h].word,
             request[h].kind = "register" => users[request[h].name] = None
      PROVE  Inv'
  <2>1. PICK q \in Query :
         /\ q.kind = request[h].kind /\ q.name = request[h].name /\ q.word = request[h].word
         /\ q.step = "proved"
         /\ request' = [request EXCEPT ![h] = q] /\ reply' = [reply EXCEPT ![h] = None]
    BY <1>1, <1>2, GoesServes
  <2>2. QED BY <1>1, <1>2, <2>1, ProvesInv
<1>u. ASSUME UNCHANGED users PROVE AccountsGrow
  BY <1>u DEF Authenticate, limiter, life, AccountsGrow, Inv, TypeOK, Account
<1>3. CASE Known(request[h].name) /\ Verified(h) /\ UNCHANGED users
  <2>1. CASE request[h].kind = "register" /\ Answers(h, 409, None)
    BY <1>1, <1>3, <1>u, <2>1, RefusedInv
  <2>2. CASE request[h].kind = "socket" /\ Answers(h, 200, None)
    BY <1>1, <1>3, <1>u, <2>2, RefusedInv
  <2>3. CASE request[h].kind = "login" /\ Goes(h, "proved")
    BY <1>2, <1>3, <1>u, <2>3 DEF Known, Verified
  <2>4. request[h].kind \in {"register", "login", "socket"}
    BY <1>1 DEF Query
  <2>5. QED BY <1>3, <2>1, <2>2, <2>3, <2>4 DEF Authenticate, Known
<1>4. CASE /\ \E status \in {400, 401, 409} : Answers(h, status, None)
           /\ UNCHANGED users
  BY <1>1, <1>4, <1>u, RefusedInv
<1>5. CASE /\ ~Known(request[h].name)
           /\ users' = [users EXCEPT ![request[h].name] =
                           [word |-> request[h].word, rating |-> StartingRating]]
           /\ IF request[h].kind = "socket" THEN Answers(h, 200, None) ELSE Goes(h, "proved")
  <2>1. PICK new \in Account : new = [word |-> request[h].word, rating |-> StartingRating]
    <3>1. request[h].word \in Words
      BY <1>1 DEF Inv, Settled
    <3>2. [word |-> request[h].word, rating |-> StartingRating] \in Account
      BY <3>1, AccountsAssumption DEF Account
    <3>3. QED BY <3>2
  <2>2. new # None /\ new.word = request[h].word
    BY <2>1, NoneAssumption DEF Account
  <2>3. AccountsGrow /\ users'[request[h].name] = new
    BY <1>1, <1>5, <2>1
       DEF Authenticate, limiter, life, AccountsGrow, Inv, TypeOK, Account, Query, Known
  <2>4. CASE request[h].kind = "socket" /\ Answers(h, 200, None)
    BY <1>1, <2>3, <2>4, RefusedInv
  <2>5. CASE Goes(h, "proved")
    BY <1>2, <1>5, <2>2, <2>3, <2>5 DEF Known
  <2>6. QED BY <1>5, <2>4, <2>5
<1>6. QED BY ZenonT(30), <1>3, <1>4, <1>5 DEF Authenticate, Refusal
-----------------------------------------------------------------------------
\* Tokens.

LEMMA IssueInv ==
  ASSUME Inv, NEW h \in Requests, NEW t \in Tokens, Issue(h, t)
  PROVE  Inv'
<1>1. request[h] \in Query /\ request[h] # None /\ request[h].step = "proved"
      /\ request[h].kind # "history" /\ reply[h] = None /\ Knew(h)
  BY DEF Issue, At, Inv, TypeOK, Settled, TokensEarned
<1>2. PICK status \in {200, 201} : Answers(h, status, t) /\ (status = 201 => request[h].kind = "register")
  BY DEF Issue
<1>3. PICK q \in Query, a \in Answer :
        /\ q.kind = request[h].kind /\ q.name = request[h].name /\ q.word = request[h].word
        /\ q.step = "answered" /\ a.status = status /\ a.token = t
        /\ request' = [request EXCEPT ![h] = q] /\ reply' = [reply EXCEPT ![h] = a]
  <2>1. status \in {200, 201, 400, 401, 403, 409, 429} /\ t \in Tokens \cup {None}
        /\ request[h].step # "answered"
    BY <1>1, <1>2
  <2>2. QED BY <2>1, <1>1, <1>2, AnswersServes
<1>n. a # None
  BY NoneAssumption
<1>4. /\ request' \in [Requests -> Query \cup {None}]
      /\ reply' \in [Requests -> Answer \cup {None}]
      /\ Settled'
      /\ \A g \in Requests : g # h => request'[g] = request[g] /\ reply'[g] = reply[g]
      /\ request'[h] = q /\ reply'[h] = a
  <2>1. a \in Answer \cup {None} /\ (a # None => q.step = "answered")
    BY <1>3
  <2>2. QED BY <2>1, <1>1, <1>3, Serves
<1>5. UNCHANGED <<users, games, tx, buckets, calls, clock, starts, report, process>>
  BY DEF Issue, tables, limiter, life
<1>6. Growth
  BY <1>1, <1>4, <1>5 DEF Growth
<1>7. PICK k : /\ k = [owner |-> request[h].name, expires |-> clock + Lifetime]
               /\ tokens' = [tokens EXCEPT ![t] = k]
  BY ZenonT(30) DEF Issue
<1>8. TypeOK' /\ PlayersKnown'
  <2>1. k \in [owner : Users, expires : Nat]
    BY <1>1, <1>7, AccountsAssumption DEF Query, Inv, TypeOK, Times
  <2>2. QED BY <2>1, <1>4, <1>5, <1>7 DEF Inv, TypeOK, PlayersKnown
<1>9. ClaimsDiffer'
  <2>1. ASSUME NEW g \in Requests, Claims(g)'
        PROVE  Claims(g) /\ request'[g].name = request[g].name
    <3>1. CASE g = h
      BY <3>1, <2>1, <1>1, <1>3, <1>4 DEF Claims
    <3>2. CASE g # h
      BY <3>2, <2>1, <1>4 DEF Claims
    <3>3. QED BY <3>1, <3>2
  <2>2. ASSUME NEW g \in Requests, reply[g] = None, reply'[g] # None, reply'[g].status = 201
        PROVE  Claims(g) /\ request'[g].kind = "register"
    <3>1. g = h
      BY <2>2, <1>4
    <3>2. QED BY <3>1, <2>2, <1>1, <1>2, <1>3, <1>4 DEF Claims
  <2>3. QED BY <1>6, <2>1, <2>2, ClaimsStep
<1>10. TokensEarned'
  <2>1. Knew(h)'
    BY <1>1, <1>3, <1>4, <1>5 DEF Knew
  <2>2. ASSUME NEW g \in Requests, request'[g] # None, request'[g].step = "proved"
        PROVE  request'[g].kind # "history" /\ Knew(g)'
    <3>1. g # h /\ request'[g] = request[g]
      BY <2>2, <1>3, <1>4
    <3>2. request[g].kind # "history" /\ Knew(g)
      BY <2>2, <3>1 DEF Inv, TokensEarned
    <3>3. QED BY <3>1, <3>2, <1>5 DEF Knew
  <2>3. Earned(t, request[h].name)'
    BY <2>1, <1>n, <1>1, <1>3, <1>4 DEF Earned
  <2>4. ASSUME NEW u \in Tokens, tokens'[u] # None, tokens'[u] # tokens[u]
        PROVE  Earned(u, tokens[u].owner)'
    <3>1. u = t /\ tokens'[t].owner = request'[h].name
      BY <2>4, <1>3, <1>4, <1>7 DEF Inv, TypeOK
    <3>2. QED BY <2>3, <3>1 DEF Earned
  <2>5. \A g \in Requests : reply[g] = None /\ reply'[g] # None => request'[g].kind # "history"
    BY <1>1, <1>3, <1>4
  <2>6. QED BY <1>6, <2>2, <2>4, <2>5, TokensEarnedStep
<1>11. QED BY <1>4, <1>8, <1>9, <1>10 DEF Inv

LEMMA AskHistoryInv ==
  ASSUME Inv, NEW h \in Requests, NEW name \in Users, NEW t \in Tokens, AskHistory(h, name, t)
  PROVE  Inv'
<1>1. request[h] = None /\ reply[h] = None
  BY DEF AskHistory, Inv, Settled
<1>2. PICK q \in Query : q.kind = "history" /\ q.name = name /\ q.step = "answered"
        /\ request' = [request EXCEPT ![h] = q]
  <2>1. PICK q : q = [kind |-> "history", name |-> name, word |-> None, step |-> "answered"]
    OBVIOUS
  <2>2. q \in Query /\ q.kind = "history" /\ q.name = name /\ q.step = "answered"
    BY <2>1 DEF Query
  <2>3. request' = [request EXCEPT ![h] = q]
    BY <2>1 DEF AskHistory
  <2>4. QED BY <2>2, <2>3
<1>3. PICK a \in Answer : /\ a.token = t /\ a.status # 201 /\ (a.status = 200 => MayRead(t, name))
                          /\ reply' = [reply EXCEPT ![h] = a]
  <2>0. PICK status : /\ status = IF MayRead(t, name) THEN 200
                                  ELSE IF tokens[t] = None \/ Expired(t) THEN 401 ELSE 403
    OBVIOUS
  <2>1. /\ status \in {200, 401, 403}
        /\ status = 200 => MayRead(t, name)
        /\ reply' = [reply EXCEPT ![h] = [token |-> t, status |-> status]]
    BY <2>0 DEF AskHistory
  <2>2. PICK a : a = [token |-> t, status |-> status]
    <3>1. [token |-> t, status |-> status] \in Answer
      BY <2>1 DEF Answer
    <3>2. QED BY <3>1
  <2>3. a \in Answer /\ a.token = t /\ a.status = status
    BY <2>1, <2>2 DEF Answer
  <2>4. reply' = [reply EXCEPT ![h] = a]
    BY <2>1, <2>2
  <2>5. a.status # 201 /\ (a.status = 200 => MayRead(t, name))
    BY <2>1, <2>3
  <2>6. QED BY <2>3, <2>4, <2>5
<1>n. q # None
  BY NoneAssumption
<1>4. /\ \A g \in Requests : g # h => request'[g] = request[g] /\ reply'[g] = reply[g]
      /\ request'[h] = q /\ reply'[h] = a
  BY <1>2, <1>3 DEF Inv, TypeOK
<1>s. UNCHANGED <<users, games, tx, buckets, calls, clock, starts, report, process>>
  BY DEF AskHistory, tables, limiter, life
<1>t. tokens' \in [Tokens -> [owner : Users, expires : Nat] \cup {None}]
  BY DEF AskHistory, Inv, TypeOK
<1>5. UNCHANGED users /\ \A u \in Tokens : tokens'[u] # None => tokens'[u] = tokens[u]
  BY DEF AskHistory, tables, Inv, TypeOK
<1>6. Growth
  BY <1>1, <1>4, <1>5 DEF Growth
<1>7. TypeOK' /\ PlayersKnown'
  <2>1. /\ request' \in [Requests -> Query \cup {None}]
        /\ reply' \in [Requests -> Answer \cup {None}]
    BY <1>2, <1>3 DEF Inv, TypeOK
  <2>2. TypeOK'
    BY <2>1, <1>s, <1>t DEF Inv, TypeOK
  <2>3. PlayersKnown'
    BY <1>s DEF Inv, PlayersKnown
  <2>4. QED BY <2>2, <2>3
<1>8. Settled'
  BY <1>2, <1>n, <1>4 DEF Inv, Settled
<1>9. ClaimsDiffer'
  <2>1. ASSUME NEW g \in Requests, Claims(g)'
        PROVE  Claims(g) /\ request'[g].name = request[g].name
    <3>1. g # h
      BY <2>1, <1>2, <1>4 DEF Claims
    <3>2. QED BY <3>1, <2>1, <1>4 DEF Claims
  <2>2. \A g \in Requests : reply[g] = None /\ reply'[g] # None => reply'[g].status # 201
    BY <1>3, <1>4
  <2>3. QED BY <1>6, <2>1, <2>2, ClaimsStep
<1>10. TokensEarned'
  <2>1. ASSUME NEW g \in Requests, request'[g] # None, request'[g].step = "proved"
        PROVE  request'[g].kind # "history" /\ Knew(g)'
    <3>1. g # h /\ request'[g] = request[g]
      BY <2>1, <1>2, <1>4
    <3>2. request[g].kind # "history" /\ Knew(g)
      BY <2>1, <3>1 DEF Inv, TokensEarned
    <3>3. QED BY <3>1, <3>2, <1>5 DEF Knew
  <2>2. ASSUME NEW g \in Requests, reply[g] = None, reply'[g] # None,
               request'[g].kind = "history", reply'[g].status = 200
        PROVE  Earned(reply[g].token, request[g].name)'
    <3>1. g = h /\ reply'[g].token = t /\ request'[g].name = name /\ MayRead(t, name)
      BY <2>2, <1>2, <1>3, <1>4
    <3>2. Earned(t, name)
      BY <3>1 DEF MayRead, Inv, TokensEarned
    <3>3. Earned(t, name)'
      BY <3>2, <1>6, EarnedKept DEF Inv
    <3>4. QED BY <3>1, <3>3 DEF Earned
  <2>3. QED BY <1>5, <1>6, <2>1, <2>2, TokensEarnedStep
<1>11. QED BY <1>7, <1>8, <1>9, <1>10 DEF Inv
-----------------------------------------------------------------------------
\* Reports.

\* A report on its way concerns two accounts.
LEMMA Players ==
  ASSUME Inv, NEW g \in Games, report[g] # None
  PROVE  /\ report[g] \in Report
         /\ \A side \in Sides : /\ Player(g, side) \in Users
                                /\ users[Player(g, side)] \in Account
                                /\ users[Player(g, side)] # None
                                /\ RatingOf(Player(g, side)) \in Int
<1>1. report[g] \in Report
  BY DEF Inv, TypeOK
<1>2. ASSUME NEW side \in Sides
      PROVE  /\ Player(g, side) \in Users /\ users[Player(g, side)] \in Account
             /\ users[Player(g, side)] # None /\ RatingOf(Player(g, side)) \in Int
  <2>1. Player(g, side) \in Users /\ users[Player(g, side)] # None
    BY <1>1 DEF Player, Report, Inv, PlayersKnown
  <2>2. users[Player(g, side)] \in Account
    BY <2>1 DEF Inv, TypeOK, Account
  <2>3. QED BY <2>1, <2>2 DEF RatingOf, Account
<1>3. QED BY <1>1, <1>2

LEMMA AfterGameType ==
  ASSUME Inv, NEW g \in Games, report[g] # None, NEW side \in Sides
  PROVE  AfterGame(g, side) \in Int
<1>1. PICK a \in Int, b \in Int :
        a = RatingOf(Player(g, side)) /\ b = RatingOf(Player(g, Opposite(side)))
  <2>1. Opposite(side) \in Sides
    BY DEF Opposite, Sides
  <2>2. QED BY <2>1, Players
<1>2. PICK score \in Int : score = Score(side, report[g].winner)
  BY DEF Score
<1>3. Updated(a, b, score) \in Int
  BY UpdatedType
<1>4. QED BY <1>1, <1>2, <1>3 DEF AfterGame

LEMMA ElsewhereInv ==
  ASSUME Inv, TypeOK', PlayersKnown', Growth, UNCHANGED <<request, reply, tokens>>
  PROVE  Inv'
BY Elsewhere DEF Inv

LEMMA BeginInv ==
  ASSUME Inv, NEW g \in Games, NEW white \in Users, NEW black \in Users, Begin(g, white, black)
  PROVE  Inv'
<1>1. PICK r \in Report : /\ r.white = white /\ r.black = black /\ r.step = "playing"
                          /\ report' = [report EXCEPT ![g] = r]
  <2>1. PICK r : r = [white |-> white, black |-> black, winner |-> None, reason |-> None,
                      step |-> "playing"]
    OBVIOUS
  <2>2. r \in Report /\ r.white = white /\ r.black = black /\ r.step = "playing"
    BY <2>1 DEF Report
  <2>3. report' = [report EXCEPT ![g] = r]
    BY <2>1 DEF Begin
  <2>4. QED BY <2>2, <2>3
<1>2. UNCHANGED <<users, games, tx, tokens, buckets, calls, clock, starts, request, reply, process>>
  BY DEF Begin, tables, limiter, life
<1>3. TypeOK'
  BY <1>1, <1>2 DEF Inv, TypeOK
<1>4. PlayersKnown'
  <2>1. r # None
    BY NoneAssumption
  <2>2. users[white] # None /\ users[black] # None /\ report[g] = None
    BY DEF Begin
  <2>3. \A f \in Games : report'[f] = IF f = g THEN r ELSE report[f]
    BY <1>1 DEF Inv, TypeOK
  <2>4. tx # None => tx.game \in Games /\ tx.game # g
    BY <2>2 DEF Inv, TypeOK, PlayersKnown
  <2>5. QED BY <1>1, <1>2, <2>1, <2>2, <2>3, <2>4 DEF Inv, PlayersKnown
<1>5. QED BY <1>2, <1>3, <1>4, ElsewhereInv DEF Growth

\* A step of one report that names the same players.
LEMMA ReportInv ==
  ASSUME Inv, NEW g \in Games, report[g] # None,
         NEW r \in Report, r.white = report[g].white, r.black = report[g].black,
         r.reason \in Reasons, tx = None \/ tx.game # g, report' = [report EXCEPT ![g] = r], games' \subseteq Row,
         UNCHANGED <<users, tx, tokens, buckets, calls, clock, starts, request, reply, process>>
  PROVE  Inv'
<1>1. TypeOK'
  BY DEF Inv, TypeOK
<1>2. PlayersKnown'
  <2>1. r # None
    BY NoneAssumption
  <2>2. \A f \in Games : report'[f] = IF f = g THEN r ELSE report[f]
    BY DEF Inv, TypeOK
  <2>3. tx # None => tx.game \in Games
    BY DEF Inv, TypeOK
  <2>4. QED BY <2>1, <2>2, <2>3 DEF Inv, PlayersKnown
<1>3. QED BY <1>1, <1>2, ElsewhereInv DEF Growth

LEMMA EndInv ==
  ASSUME Inv, NEW g \in Games, NEW reason \in Reasons, NEW winner \in Sides \cup {None},
         End(g, reason, winner)
  PROVE  Inv'
<1>1. report[g] # None /\ report[g] \in Report
  BY DEF End, Reporting, Inv, TypeOK
<1>2. PICK r \in Report : /\ r.white = report[g].white /\ r.black = report[g].black
                          /\ r.reason \in Reasons /\ report' = [report EXCEPT ![g] = r]
  <2>1. PICK s : s = report[g]
    OBVIOUS
  <2>2. PICK r : r = [s EXCEPT !.reason = reason, !.winner = winner, !.step = "rating"]
    OBVIOUS
  <2>3. r \in Report /\ r.white = s.white /\ r.black = s.black /\ r.reason \in Reasons
    BY <1>1, <2>1, <2>2 DEF Report
  <2>4. report' = [report EXCEPT ![g] = r]
    BY <2>1, <2>2 DEF End, Inv, TypeOK
  <2>5. QED BY <2>1, <2>3, <2>4
<1>3. UNCHANGED <<users, games, tx, tokens, buckets, calls, clock, starts, request, reply, process>>
  BY DEF End, tables, limiter, life
<1>4. games' \subseteq Row
  BY <1>3 DEF Inv, TypeOK
<1>5. tx = None \/ tx.game # g
  BY DEF End, Reporting, Inv, PlayersKnown
<1>6. QED BY <1>1, <1>2, <1>3, <1>4, <1>5, ReportInv

\* A report that goes a step further.
LEMMA ReportGoesOn ==
  ASSUME Inv, NEW g \in Games, report[g] # None,
         NEW step \in {"rated", "recorded"}, ReportGoes(g, step)
  PROVE  \E r \in Report : /\ r.white = report[g].white /\ r.black = report[g].black
                           /\ r.reason = report[g].reason /\ report' = [report EXCEPT ![g] = r]
<1>1. PICK s \in Report : s = report[g]
  BY DEF Inv, TypeOK
<1>2. PICK r : r = [s EXCEPT !.step = step]
  OBVIOUS
<1>3. r \in Report /\ r.white = s.white /\ r.black = s.black /\ r.reason = s.reason
  BY <1>1, <1>2 DEF Report
<1>4. report' = [report EXCEPT ![g] = r]
  BY <1>1, <1>2 DEF ReportGoes, Inv, TypeOK
<1>5. QED BY <1>1, <1>3, <1>4

LEMMA RecordInv ==
  ASSUME Inv, NEW g \in Games, Record(g)
  PROVE  Inv'
<1>1. report[g] # None /\ ReportGoes(g, "recorded") /\ report[g].step = "rated"
  BY DEF Record, Reporting
<1>2. PICK r \in Report : /\ r.white = report[g].white /\ r.black = report[g].black
                          /\ r.reason = report[g].reason /\ report' = [report EXCEPT ![g] = r]
  BY <1>1, ReportGoesOn
<1>3. UNCHANGED <<users, tx, tokens, buckets, calls, clock, starts, request, reply, process>>
  BY DEF Record, limiter, life
<1>4. report[g] \in Report /\ report[g].reason \in Reasons
  BY <1>1 DEF Inv, TypeOK, PlayersKnown
<1>5. games' \subseteq Row
  <2>1. PICK w : w = IF report[g].winner = None THEN None ELSE Player(g, report[g].winner)
    OBVIOUS
  <2>2. w \in Users \cup {None}
    BY <2>1, <1>4 DEF Report, Player
  <2>3. PICK row : row = [game |-> g, white |-> report[g].white, black |-> report[g].black,
                          reason |-> report[g].reason, winner |-> w]
    OBVIOUS
  <2>4. row \in Row
    BY <2>2, <2>3, <1>4 DEF Row, Report
  <2>5. games' = games \cup {row}
    BY <2>1, <2>3 DEF Record
  <2>6. QED BY <2>4, <2>5 DEF Inv, TypeOK
<1>6. tx = None
  BY DEF Record, Unlocked
<1>7. QED BY <1>1, <1>2, <1>3, <1>4, <1>5, <1>6, ReportInv

LEMMA WriteFirstInv ==
  ASSUME Inv, NEW g \in Games, WriteFirst(g)
  PROVE  Inv'
<1>1. report[g] # None /\ report[g].step = "rating"
  BY DEF WriteFirst, Reporting
<1>2. PICK n \in Int : tx' = [game |-> g, written |-> <<n>>]
  <2>1. PICK n : n = IF report[g].reason = "disconnect" THEN RatingOf(Player(g, Side(g))) - Penalty
                     ELSE AfterGame(g, "White")
    OBVIOUS
  <2>2. Side(g) \in Sides /\ "White" \in Sides
    BY DEF Side, Opposite, Sides
  <2>3. RatingOf(Player(g, Side(g))) \in Int /\ AfterGame(g, "White") \in Int
    BY <1>1, <2>2, Players, AfterGameType
  <2>4. n \in Int
    BY <2>1, <2>3, AccountsAssumption
  <2>5. tx' = [game |-> g, written |-> <<n>>]
    BY <2>1 DEF WriteFirst
  <2>6. QED BY <2>4, <2>5
<1>3. UNCHANGED <<users, games, tokens, buckets, calls, clock, starts, request, reply, report, process>>
  BY DEF WriteFirst, limiter, life
<1>4. tx' \in [game : Games, written : Seq(Int)] /\ tx'.game = g
  <2>1. <<n>> \in Seq(Int)
    OBVIOUS
  <2>2. ASSUME NEW w \in Seq(Int), w = <<n>>
        PROVE  tx' \in [game : Games, written : Seq(Int)] /\ tx'.game = g
    <3>1. tx' = [game |-> g, written |-> w]
      BY <1>2, <2>2
    <3>2. QED BY <3>1
  <2>3. QED BY <2>1, <2>2
<1>5. TypeOK'
  BY <1>3, <1>4 DEF Inv, TypeOK
<1>6. PlayersKnown'
  BY <1>1, <1>3, <1>4 DEF Inv, PlayersKnown
<1>7. QED BY <1>3, <1>5, <1>6, ElsewhereInv DEF Growth

LEMMA WriteSecondInv ==
  ASSUME Inv, NEW g \in Games, WriteSecond(g)
  PROVE  Inv'
<1>1. tx # None /\ tx.game = g /\ report[g] # None /\ tx \in [game : Games, written : Seq(Int)]
  BY DEF WriteSecond, Unlocked, Inv, TypeOK, PlayersKnown
<1>2. PICK n \in Int : tx' = [tx EXCEPT !.written = Append(@, n)]
  <2>1. AfterGame(g, "Black") \in Int
    BY <1>1, AfterGameType DEF Sides
  <2>2. QED BY <2>1 DEF WriteSecond
<1>3. UNCHANGED <<users, games, tokens, buckets, calls, clock, starts, request, reply, report, process>>
  BY DEF WriteSecond, limiter, life
<1>4. tx' \in [game : Games, written : Seq(Int)] /\ tx'.game = g
  <2>1. Append(tx.written, n) \in Seq(Int)
    BY <1>1
  <2>2. ASSUME NEW w \in Seq(Int), w = Append(tx.written, n)
        PROVE  tx' \in [game : Games, written : Seq(Int)] /\ tx'.game = g
    <3>1. tx' = [tx EXCEPT !.written = w]
      BY <1>2, <2>2
    <3>2. QED BY <1>1, <3>1
  <2>3. QED BY <2>1, <2>2
<1>5. TypeOK'
  BY <1>3, <1>4 DEF Inv, TypeOK
<1>6. PlayersKnown'
  BY <1>1, <1>3, <1>4 DEF Inv, PlayersKnown
<1>7. QED BY <1>3, <1>5, <1>6, ElsewhereInv DEF Growth

LEMMA CommitInv ==
  ASSUME Inv, NEW g \in Games, Commit(g)
  PROVE  Inv'
<1>1. /\ tx # None /\ tx.game = g /\ report[g] # None /\ tx \in [game : Games, written : Seq(Int)]
      /\ Len(tx.written) \in {1, 2} /\ report[g].step = "rating"
  BY DEF Commit, Complete, Unlocked, Inv, TypeOK, PlayersKnown
<1>p. PICK first, second : first = Player(g, Side(g)) /\ second = Player(g, "Black")
  OBVIOUS
<1>2. /\ users[first] \in Account /\ users[first] # None
      /\ users[second] \in Account /\ users[second] # None
  <2>1. Side(g) \in Sides /\ "Black" \in Sides
    BY DEF Side, Opposite, Sides
  <2>2. QED BY <1>1, <1>p, <2>1, Players
<1>3. tx.written[1] \in Int /\ (Len(tx.written) = 2 => tx.written[2] \in Int)
  BY <1>1
<1>4. PICK one \in Account : /\ one = [users[first] EXCEPT !.rating = tx.written[1]]
                             /\ one.word = users[first].word
  <2>1. [users[first] EXCEPT !.rating = tx.written[1]] \in Account
    BY <1>2, <1>3 DEF Account
  <2>2. QED BY <1>2, <2>1 DEF Account
<1>5. PICK two \in Account : /\ Len(tx.written) = 2
                                 => two = [users[second] EXCEPT !.rating = tx.written[2]]
                             /\ two.word = users[second].word
  <2>1. CASE Len(tx.written) = 2
    <3>1. [users[second] EXCEPT !.rating = tx.written[2]] \in Account
      BY <1>2, <1>3, <2>1 DEF Account
    <3>2. QED BY <1>2, <3>1 DEF Account
  <2>2. CASE Len(tx.written) # 2
    BY <1>2, <2>2
  <2>3. QED BY <2>1, <2>2
<1>6. /\ DOMAIN users' = Users
      /\ \A u \in Users : users'[u] = IF u = first THEN one
           ELSE IF Len(tx.written) = 2 /\ u = second THEN two ELSE users[u]
  BY <1>p, <1>4, <1>5 DEF Commit
<1>7. one # None /\ two # None
  BY NoneAssumption DEF Account
<1>8. Growth
  <2>1. UNCHANGED <<request, reply>>
    BY DEF Commit
  <2>2. QED BY <2>1, <1>4, <1>5, <1>6, <1>7 DEF Growth
<1>9. UNCHANGED <<games, tokens, buckets, calls, clock, starts, request, reply, process>> /\ tx' = None
  BY DEF Commit, limiter, life
<1>10. PICK r \in Report : /\ r.white = report[g].white /\ r.black = report[g].black
                           /\ r.reason = report[g].reason /\ report' = [report EXCEPT ![g] = r]
  BY <1>1, ReportGoesOn DEF Commit
<1>11. TypeOK'
  <2>1. users' \in [Users -> Account \cup {None}]
    <3>1. users' = [u \in Users |-> users'[u]]
      BY DEF Commit
    <3>2. \A u \in Users : users'[u] \in Account \cup {None}
      BY <1>6 DEF Inv, TypeOK, Account
    <3>3. QED BY <3>1, <3>2
  <2>2. report' \in [Games -> Report \cup {None}]
    BY <1>10 DEF Inv, TypeOK
  <2>3. QED BY <2>1, <2>2, <1>9 DEF Inv, TypeOK, Account
<1>12. PlayersKnown'
  <2>1. \A f \in Games : report'[f] = IF f = g THEN r ELSE report[f]
    BY <1>10 DEF Inv, TypeOK
  <2>2. ASSUME NEW f \in Games, report'[f] # None
        PROVE  /\ users'[report'[f].white] # None /\ users'[report'[f].black] # None
               /\ report'[f].step \in {"rating", "rated"} => report'[f].reason \in Reasons
    <3>1. /\ report[f] # None /\ report[f] \in Report
          /\ report'[f].white = report[f].white /\ report'[f].black = report[f].black
      BY <2>1, <2>2, <1>1, <1>10 DEF Inv, TypeOK
    <3>2. /\ users[report[f].white] # None /\ users[report[f].black] # None
          /\ report[f].white \in Users /\ report[f].black \in Users
      BY <3>1 DEF Inv, PlayersKnown, Report
    <3>3. users'[report'[f].white] # None /\ users'[report'[f].black] # None
      BY <3>1, <3>2, <1>8 DEF Growth
    <3>4. report'[f].step \in {"rating", "rated"} => report'[f].reason \in Reasons
      <4>1. CASE f = g
        BY <4>1, <2>1, <1>1, <1>10 DEF Inv, PlayersKnown
      <4>2. CASE f # g
        BY <4>2, <2>1, <3>1 DEF Inv, PlayersKnown
      <4>3. QED BY <4>1, <4>2
    <3>5. QED BY <3>3, <3>4
  <2>3. QED BY <2>2, <1>9 DEF PlayersKnown
<1>13. QED BY <1>8, <1>9, <1>11, <1>12, ElsewhereInv
-----------------------------------------------------------------------------
\* The process.

\* What is only in memory is forgotten; accounts and answers are not.
LEMMA ForgottenKeeps ==
  ASSUME Inv, Forgotten, UNCHANGED users
  PROVE  /\ request' \in [Requests -> Query \cup {None}]
         /\ tokens' \in [Tokens -> [owner : Users, expires : Nat] \cup {None}]
         /\ buckets' \in [Ips -> [count : Nat \ {0}, start : Times] \cup {None}]
         /\ calls' \in 0 .. SweepEvery - 1
         /\ UNCHANGED reply
         /\ Settled' /\ ClaimsDiffer' /\ TokensEarned'
<1>1. ASSUME NEW h \in Requests, InFlight(h)
      PROVE  /\ request'[h] \in Query /\ request'[h].step = "lost" /\ request'[h].kind = request[h].kind
             /\ request'[h].word = request[h].word /\ request'[h].name = request[h].name
  <2>1. PICK r \in Query : r = request[h]
    BY <1>1 DEF InFlight, Inv, TypeOK
  <2>2. request'[h] = [r EXCEPT !.step = "lost"]
    BY <1>1, <2>1 DEF Forgotten
  <2>3. QED BY <2>1, <2>2 DEF Query
<1>2. ASSUME NEW h \in Requests, ~InFlight(h)
      PROVE  request'[h] = request[h]
  BY <1>2 DEF Forgotten
<1>3. UNCHANGED reply /\ \A t \in Tokens : tokens'[t] = None
  BY DEF Forgotten
<1>4. request' \in [Requests -> Query \cup {None}]
  <2>1. request' = [h \in Requests |-> request'[h]]
    BY DEF Forgotten
  <2>2. \A h \in Requests : request'[h] \in Query \cup {None}
    BY <1>1, <1>2 DEF Inv, TypeOK
  <2>3. QED BY <2>1, <2>2
<1>5. /\ tokens' \in [Tokens -> [owner : Users, expires : Nat] \cup {None}]
      /\ buckets' \in [Ips -> [count : Nat \ {0}, start : Times] \cup {None}]
      /\ calls' \in 0 .. SweepEvery - 1
  BY AccountsAssumption DEF Forgotten
<1>6. \A h \in Requests : reply[h] # None => ~InFlight(h)
  BY DEF Inv, Settled, InFlight
<1>7. Growth
  BY <1>2, <1>3, <1>6 DEF Growth
<1>8. Settled'
  <2>1. ASSUME NEW h \in Requests, reply'[h] # None
        PROVE  request'[h] # None /\ request'[h].step = "answered"
    BY <2>1, <1>2, <1>3, <1>6 DEF Inv, Settled
  <2>2. ASSUME NEW h \in Requests, request'[h] # None
        PROVE  IF request'[h].kind = "history" THEN request'[h].step = "answered"
               ELSE request'[h].word \in Words
    <3>1. CASE InFlight(h)
      BY <3>1, <1>1 DEF Inv, Settled, InFlight
    <3>2. CASE ~InFlight(h)
      BY <3>2, <2>2, <1>2 DEF Inv, Settled
    <3>3. QED BY <3>1, <3>2
  <2>3. QED BY <2>1, <2>2 DEF Settled
<1>9. ClaimsDiffer'
  <2>1. ASSUME NEW h \in Requests, Claims(h)'
        PROVE  Claims(h) /\ request'[h].name = request[h].name
    <3>1. ~InFlight(h)
      BY <2>1, <1>1, <1>3, <1>6 DEF Claims
    <3>2. QED BY <2>1, <3>1, <1>2, <1>3 DEF Claims
  <2>2. QED BY <2>1, <1>3, <1>7, ClaimsStep
<1>10. TokensEarned'
  <2>1. ASSUME NEW h \in Requests, request'[h] # None, request'[h].step = "proved"
        PROVE  request'[h].kind # "history" /\ Knew(h)'
    <3>1. CASE InFlight(h)
      BY <2>1, <3>1, <1>1
    <3>2. CASE ~InFlight(h)
      BY <2>1, <3>2, <1>2 DEF InFlight
    <3>3. QED BY <3>1, <3>2
  <2>2. QED BY <2>1, <1>3, <1>7, TokensEarnedStep
<1>11. QED BY <1>3, <1>4, <1>5, <1>8, <1>9, <1>10

LEMMA DownInv ==
  ASSUME Inv, Exit \/ Crash
  PROVE  Inv'
<1>1. Forgotten /\ UNCHANGED <<users, games, clock, starts>> /\ process' = "down"
  BY DEF Exit, Crash, tables
<1>2. ASSUME NEW g \in Games
      PROVE  \/ report'[g] = report[g]
             \/ /\ report[g] # None /\ report'[g] \in Report
                /\ report'[g].white = report[g].white
                /\ report'[g].black = report[g].black
                /\ report'[g].step \in {"lost", "torn"}
  <2>1. ASSUME report[g] # None, NEW step \in {"lost", "torn"},
               report'[g] = [report[g] EXCEPT !.step = step]
        PROVE  /\ report[g] # None /\ report'[g] \in Report
               /\ report'[g].white = report[g].white
               /\ report'[g].black = report[g].black
               /\ report'[g].step \in {"lost", "torn"}
    <3>1. PICK r \in Report : r = report[g]
      BY <2>1 DEF Inv, TypeOK
    <3>2. report'[g] = [r EXCEPT !.step = step]
      BY <2>1, <3>1
    <3>3. QED BY <2>1, <3>1, <3>2 DEF Report
  <2>2. CASE report[g] = None
    BY <2>2 DEF Exit, Crash
  <2>3. CASE report[g] # None
    <3>1. PICK r \in Report : r = report[g]
      BY <2>3 DEF Inv, TypeOK
    <3>2. PICK s : s = IF r.step \in {"playing", "rating"} THEN "lost"
                       ELSE IF r.step = "rated" THEN "torn" ELSE r.step
      OBVIOUS
    <3>3. CASE Exit
      <4>1. report'[g] = IF r.step # "playing" THEN r ELSE [r EXCEPT !.step = "lost"]
        BY <2>3, <3>1, <3>3 DEF Exit
      <4>2. QED BY <4>1, <2>1, <2>3, <3>1
    <3>4. CASE Crash
      <4>1. report'[g] = [r EXCEPT !.step = s]
        BY <2>3, <3>1, <3>2, <3>4 DEF Crash
      <4>2. CASE s = r.step
        <5>1. [r EXCEPT !.step = s] = r
          BY <3>1, <4>2 DEF Report
        <5>2. QED BY <3>1, <4>1, <5>1
      <4>3. CASE s \in {"lost", "torn"}
        BY <2>1, <2>3, <3>1, <4>1, <4>3
      <4>4. QED BY <3>2, <4>2, <4>3
    <3>5. QED BY <3>3, <3>4
  <2>4. QED BY <2>2, <2>3
<1>3. report' \in [Games -> Report \cup {None}]
  <2>1. report' = [g \in Games |-> report'[g]]
    BY DEF Exit, Crash
  <2>2. \A g \in Games : report'[g] \in Report \cup {None}
    BY <1>2 DEF Inv, TypeOK
  <2>3. QED BY <2>1, <2>2
<1>4. /\ tx' \in {tx, None}
      /\ tx' # None => report'[tx.game] = report[tx.game]
  BY DEF Exit, Crash, tables, Inv, TypeOK, PlayersKnown
<1>5. TypeOK'
  BY <1>1, <1>3, <1>4, ForgottenKeeps DEF Inv, TypeOK
<1>6. PlayersKnown'
  <2>1. ASSUME NEW g \in Games, report'[g] # None
        PROVE  /\ users'[report'[g].white] # None /\ users'[report'[g].black] # None
               /\ report'[g].step \in {"rating", "rated"} => report'[g].reason \in Reasons
    BY <2>1, <1>1, <1>2 DEF Inv, PlayersKnown
  <2>2. tx' # None => report'[tx'.game] # None /\ report'[tx'.game].step = "rating"
    BY <1>4 DEF Inv, PlayersKnown
  <2>3. QED BY <2>1, <2>2 DEF PlayersKnown
<1>7. QED BY <1>1, <1>5, <1>6, ForgottenKeeps DEF Inv
-----------------------------------------------------------------------------
\* The other steps move the process or the clock only.
LEMMA LifeInv ==
  ASSUME Inv, Stop \/ StopHttp \/ Start \/ TimePasses \/ UNCHANGED vars
  PROVE  Inv'
<1>1. UNCHANGED <<users, games, tx, tokens, buckets, calls, request, reply, report>>
  BY DEF Stop, StopHttp, Start, TimePasses, vars, tables, limiter
<1>2. clock' \in Times /\ starts' \in Nat /\ process' \in {"up", "stopping", "quiet", "down"}
  BY AccountsAssumption DEF Inv, TypeOK, Times, Stop, StopHttp, Start, TimePasses, vars, life
<1>3. TypeOK'
  BY <1>1, <1>2 DEF Inv, TypeOK
<1>4. PlayersKnown'
  BY <1>1 DEF Inv, PlayersKnown
<1>5. QED BY <1>1, <1>3, <1>4, ElsewhereInv DEF Growth

LEMMA InvNext == Inv /\ [Next]_vars => Inv'
<1> SUFFICES ASSUME Inv, [Next]_vars PROVE Inv'
  OBVIOUS
<1>1. CASE Asked
  BY <1>1, AskInv, AskHistoryInv DEF Asked
<1>2. CASE Served
  BY <1>2, LookUpInv, AuthenticateInv, IssueInv DEF Served
<1>3. CASE Played
  BY <1>3, BeginInv, EndInv DEF Played
<1>4. CASE Reported
  BY <1>4, WriteFirstInv, WriteSecondInv, CommitInv, RecordInv DEF Reported
<1>5. CASE Exit \/ Crash
  BY <1>5, DownInv
<1>6. CASE Stop \/ StopHttp \/ Start \/ TimePasses \/ UNCHANGED vars
  BY <1>6, LifeInv
<1>7. QED BY <1>1, <1>2, <1>3, <1>4, <1>5, <1>6 DEF Next
-----------------------------------------------------------------------------
\* The inductive invariant of the accounts: what only memory holds can be lost
\* at any step, and what the tables and the answers say stays consistent.
THEOREM AccountsInvariant == Spec => []Inv
BY InvInit, InvNext, PTL DEF Spec

\* Every variable of the server's account side keeps its type: a thread never
\* rates a player the table does not have.
THEOREM AccountsTypes == Spec => []TypeOK
<1>1. Inv => TypeOK
  BY DEF Inv
<1>2. QED BY <1>1, AccountsInvariant, PTL

\* authenticate looks an account up and inserts it under one lock, so that two
\* registrations of a name are never both answered 201, crash or no crash.
THEOREM NamesTakenOnce == Spec => []NameIsTakenOnce
<1>1. Inv => NameIsTakenOnce
  <2> SUFFICES ASSUME Inv, NEW h \in Requests, NEW g \in Requests,
                      h # g, reply[h] # None, reply[g] # None,
                      reply[h].status = 201, reply[g].status = 201
               PROVE  request[h].name # request[g].name
    BY DEF NameIsTakenOnce
  <2>1. Claims(h) /\ Claims(g)
    BY DEF Inv, ClaimsDiffer, Settled, Claims
  <2>2. QED BY <2>1 DEF Inv, ClaimsDiffer
<1>2. QED BY <1>1, AccountsInvariant, PTL

\* handle_history answers 200 only to a token that was handed to a request
\* which brought the password of that very account.
THEOREM HistoriesPrivate == Spec => []HistoryIsPrivate
<1>1. Inv => HistoryIsPrivate
  <2> SUFFICES ASSUME Inv, NEW h \in Requests, reply[h] # None,
                      request[h].kind = "history", reply[h].status = 200
               PROVE  \E g \in Requests :
                        /\ reply[g] # None /\ request[g].kind # "history"
                        /\ reply[g].token = reply[h].token
                        /\ request[g].name = request[h].name
                        /\ users[request[g].name].word = request[g].word
    BY DEF HistoryIsPrivate
  <2>1. Earned(reply[h].token, request[h].name)
    BY DEF Inv, TokensEarned
  <2>2. QED BY <2>1 DEF Earned, Knew
<1>2. QED BY <1>1, AccountsInvariant, PTL
-----------------------------------------------------------------------------
\* The budget.

\* The attempts let through from t on and before u.
During(t, u) == {s \in Times : t <= s /\ s < u}
Landed(f, t, u) == SumFunctionOnSet(f, During(t, u))
Bucket == [count : Nat \ {0}, start : Times]

\* What an address with bucket b was let through by now: nothing later, twice
\* the budget in any window; once in the bucket's own and once in what of a
\* window lies before it.  With no bucket, once in what of a window lies behind.
Kept(f, b, now) ==
    /\ f \in [Times -> Nat]
    /\ \A s \in Times : s > now => f[s] = 0
    /\ \A t \in Int : Landed(f, t, t + Window) <= 2 * MaxAttempts
    /\ IF Fresh(b, now)
       THEN /\ b.start <= now
            /\ Landed(f, b.start, MaxTime + 1) <= MaxAttempts
            /\ Landed(f, b.start, MaxTime + 1) <= b.count
            /\ \A t \in Int : t > b.start - Window => Landed(f, t, b.start) <= MaxAttempts
       ELSE /\ f[now] = 0
            /\ \A t \in Int : t > now - Window => Landed(f, t, MaxTime + 1) <= MaxAttempts

\* A stretch of time is finite.
LEMMA DuringFinite == \A t, u \in Int : IsFiniteSet(During(t, u))
<1>1. Window \in Int /\ MaxTime \in Int
  BY AccountsAssumption
<1>2. IsFiniteSet(Window .. MaxTime)
  BY <1>1, FS_Interval
<1>3. \A t, u \in Int : During(t, u) \subseteq Window .. MaxTime
  BY DEF During, Times
<1>4. QED BY <1>2, <1>3, FS_Subset

\* Moments are natural numbers up to the bound.
LEMMA TimesInt == MaxTime \in Nat /\ \A s \in Times : s \in Nat /\ s \in Int /\ s < MaxTime + 1
BY AccountsAssumption DEF Times

\* More time, more attempts; two stretches cover a third.
LEMMA LandedCover ==
  ASSUME NEW f \in [Times -> Nat], NEW t \in Int, NEW u \in Int, NEW v \in Int,
         NEW w \in Int, NEW x \in Int, NEW y \in Int,
         During(t, u) \subseteq During(v, w) \cup During(x, y)
  PROVE  /\ Landed(f, t, u) <= Landed(f, v, w) + Landed(f, x, y)
         /\ Landed(f, t, u) \in Nat
<1>1. /\ IsFiniteSet(During(t, u)) /\ IsFiniteSet(During(v, w)) /\ IsFiniteSet(During(x, y))
  BY DuringFinite
<1>2. \A s \in During(v, w) \cup During(x, y) : f[s] \in Nat
  BY DEF During
<1>3. Landed(f, t, u) <= Landed(f, v, w) + Landed(f, x, y)
  BY <1>1, <1>2, SumsAreFolds, Total!SumCover DEF Landed
<1>4. \A s \in During(t, u) : f[s] \in Nat
  BY DEF During
<1>5. Landed(f, t, u) \in Nat
  BY <1>1, <1>4, SumsAreFolds, Total!SumType DEF Landed
<1>6. QED BY <1>3, <1>5

\* A shorter stretch saw no more attempts.
LEMMA LandedPart ==
  ASSUME NEW f \in [Times -> Nat], NEW t \in Int, NEW u \in Int, NEW v \in Int, NEW w \in Int,
         During(t, u) \subseteq During(v, w)
  PROVE  /\ Landed(f, t, u) <= Landed(f, v, w)
         /\ Landed(f, t, u) \in Nat /\ Landed(f, v, w) \in Nat
<1>1. IsFiniteSet(During(t, u)) /\ IsFiniteSet(During(v, w))
  BY DuringFinite
<1>2. (\A s \in During(v, w) : f[s] \in Nat) /\ (\A s \in During(t, u) : f[s] \in Nat)
  BY DEF During
<1>3. Landed(f, t, u) <= Landed(f, v, w)
  BY <1>1, <1>2, SumsAreFolds, Total!SumPart DEF Landed
<1>4. Landed(f, t, u) \in Nat /\ Landed(f, v, w) \in Nat
  BY <1>1, <1>2, SumsAreFolds, Total!SumType DEF Landed
<1>5. QED BY <1>3, <1>4

\* A stretch nothing landed in.
LEMMA LandedNone ==
  ASSUME NEW f, NEW t \in Int, NEW u \in Int, \A s \in During(t, u) : f[s] = 0
  PROVE  Landed(f, t, u) = 0
BY DuringFinite, SumsAreFolds, Total!SumZero DEF Landed

\* One more attempt at a moment, inside of a stretch or outside of it.
LEMMA LandedMore ==
  ASSUME NEW f \in [Times -> Nat], NEW now \in Times, NEW n \in {0, 1},
         NEW t \in Int, NEW u \in Int
  PROVE  /\ Landed([f EXCEPT ![now] = @ + n], t, u) =
              Landed(f, t, u) + (IF t <= now /\ now < u THEN n ELSE 0)
         /\ Landed(f, t, u) \in Nat
<1> DEFINE S == During(t, u)
           g == [f EXCEPT ![now] = @ + n]
<1>1. IsFiniteSet(S)
  BY DuringFinite
<1>2. /\ \A y \in S : f[y] \in Nat /\ g[y] \in Nat /\ f[y] \in Int /\ g[y] \in Int
      /\ \A y \in S \ {now} : g[y] = f[y]
      /\ g[now] = f[now] + n /\ f[now] \in Nat
  BY DEF During
<1>3. SumFunctionOnSet(f, S) \in Nat
  BY <1>1, <1>2, SumsAreFolds, Total!SumType
<1>4. now \in S <=> t <= now /\ now < u
  BY DEF During
<1>5. CASE now \in S
  <2> HIDE DEF S, g
  <2>1. SumFunctionOnSet(g, S) = SumFunctionOnSet(f, S) + g[now] - f[now]
    BY <1>1, <1>2, <1>5, SumsAreFolds, Total!SumChange
  <2>2. SumFunctionOnSet(g, S) = SumFunctionOnSet(f, S) + n
    BY <2>1, <1>2, <1>3
  <2>3. QED BY <1>3, <1>4, <1>5, <2>2 DEF Landed, S, g
<1>6. CASE now \notin S
  <2> HIDE DEF S, g
  <2>1. SumFunctionOnSet(g, S) = SumFunctionOnSet(f, S)
    BY <1>1, <1>2, <1>6, SumsAreFolds, Total!SumAgrees
  <2>2. QED BY <1>3, <1>4, <1>6, <2>1 DEF Landed, S, g
<1>7. QED BY <1>5, <1>6

\* Nothing was let through yet.
LEMMA KeptNothing ==
  ASSUME NEW now \in Times PROVE Kept([t \in Times |-> 0], None, now)
<1> DEFINE f == [t \in Times |-> 0]
<1>1. f \in [Times -> Nat] /\ \A s \in Times : f[s] = 0
  OBVIOUS
<1> HIDE DEF f
<1>2. \A t, u \in Int : Landed(f, t, u) = 0
  BY <1>1, LandedNone DEF During
<1>3. ~Fresh(None, now)
  BY DEF Fresh
<1>4. now \in Int /\ Window \in Int /\ MaxTime + 1 \in Int /\ MaxAttempts \in Nat
  BY TimesInt, AccountsAssumption
<1>5. \A t \in Int : Landed(f, t, t + Window) <= 2 * MaxAttempts
  BY <1>2, <1>4
<1>6. \A t \in Int : Landed(f, t, MaxTime + 1) <= MaxAttempts
  BY <1>2, <1>4
<1>7. Kept(f, None, now)
  BY <1>1, <1>3, <1>5, <1>6 DEF Kept
<1>8. QED BY <1>7 DEF f

\* Time passes: a bucket that is no longer fresh lies behind.
LEMMA KeptTick ==
  ASSUME NEW f, NEW b \in Bucket \cup {None}, NEW now \in Times, now + 1 \in Times,
         Kept(f, b, now)
  PROVE  Kept(f, b, now + 1)
<1>1. /\ now \in Int /\ Window \in Nat \ {0} /\ MaxTime + 1 \in Int /\ MaxAttempts \in Nat
      /\ b # None => b.start \in Int /\ b.start \in Times
  <2>1. b # None => b.start \in Times
    BY DEF Bucket
  <2>2. b # None => b.start \in Int
    <3>1. \A s \in Times : s \in Int
      BY TimesInt
    <3>2. QED BY <2>1, <3>1
  <2>3. now \in Int /\ Window \in Nat \ {0} /\ MaxTime + 1 \in Int /\ MaxAttempts \in Nat
    BY TimesInt, AccountsAssumption
  <2>4. QED BY <2>1, <2>2, <2>3
<1>2. f \in [Times -> Nat] /\ f[now + 1] = 0 /\ \A s \in Times : s > now + 1 => f[s] = 0
  BY <1>1, TimesInt DEF Kept
<1>3. CASE Fresh(b, now + 1)
  <2>1. Fresh(b, now) /\ b.start <= now + 1
    BY <1>1, <1>3 DEF Fresh, Kept
  <2>2. QED BY <1>2, <1>3, <2>1 DEF Kept
<1>4. CASE ~Fresh(b, now + 1)
  <2> SUFFICES ASSUME NEW t \in Int, t > (now + 1) - Window
               PROVE  Landed(f, t, MaxTime + 1) <= MaxAttempts
    BY <1>2, <1>4 DEF Kept
  <2>1. CASE Fresh(b, now)
    <3>1. b # None /\ t > b.start /\ b.start \in Int
      BY <1>1, <1>4, <2>1 DEF Fresh
    <3>2. During(t, MaxTime + 1) \subseteq During(b.start, MaxTime + 1)
      <4>1. \A start \in Int : t > start =>
              During(t, MaxTime + 1) \subseteq During(start, MaxTime + 1)
        BY TimesInt DEF During
      <4>2. QED BY <3>1, <4>1
    <3>3. Landed(f, t, MaxTime + 1) <= Landed(f, b.start, MaxTime + 1)
          /\ Landed(f, t, MaxTime + 1) \in Nat /\ Landed(f, b.start, MaxTime + 1) \in Nat
      BY <1>1, <1>2, <3>1, <3>2, LandedPart
    <3>4. Landed(f, b.start, MaxTime + 1) <= MaxAttempts
      BY <2>1 DEF Kept
    <3>5. QED BY <1>1, <3>3, <3>4
  <2>2. CASE ~Fresh(b, now)
    BY <1>1, <2>2 DEF Kept
  <2>3. QED BY <2>1, <2>2
<1>5. QED BY <1>3, <1>4

\* An attempt in a fresh bucket, or one that opens a new bucket.
LEMMA KeptAllow ==
  ASSUME NEW f, NEW b \in Bucket \cup {None}, NEW now \in Times, Kept(f, b, now),
         NEW c \in Bucket,
         c = IF Fresh(b, now) THEN [b EXCEPT !.count = @ + 1] ELSE [count |-> 1, start |-> now],
         NEW n, n = IF c.count <= MaxAttempts THEN 1 ELSE 0
  PROVE  Kept([f EXCEPT ![now] = @ + n], c, now)
<1> DEFINE g == [f EXCEPT ![now] = @ + n]
<1>1. /\ now \in Int /\ Window \in Nat \ {0} /\ MaxTime + 1 \in Int /\ MaxAttempts \in Nat
      /\ c.start \in Int /\ c.start \in Times /\ c.count \in Nat /\ c # None /\ n \in {0, 1}
      /\ now < MaxTime + 1
  <2>1. c # None
    BY NoneAssumption DEF Bucket
  <2>2. c.start \in Times /\ c.count \in Nat
    BY DEF Bucket
  <2>3. QED BY <2>1, <2>2, TimesInt, AccountsAssumption
<1>2. f \in [Times -> Nat]
  BY DEF Kept
<1>3. /\ Landed(f, c.start, MaxTime + 1) <= MaxAttempts
      /\ Landed(f, c.start, MaxTime + 1) <= c.count - 1
      /\ \A t \in Int : t > c.start - Window => Landed(f, t, c.start) <= MaxAttempts
      /\ c.start <= now /\ now - c.start < Window
  <2>1. CASE Fresh(b, now)
    <3>1. b \in Bucket /\ c.start = b.start /\ c.count = b.count + 1 /\ b.count \in Nat
      BY <2>1 DEF Fresh, Bucket
    <3>2. QED BY <2>1, <3>1, <1>1 DEF Kept, Fresh
  <2>2. CASE ~Fresh(b, now)
    <3>1. c.start = now /\ c.count = 1
      BY <2>2
    <3>2. \A s \in During(now, MaxTime + 1) : f[s] = 0
      BY <2>2, <1>1, TimesInt DEF Kept, During
    <3>3. Landed(f, now, MaxTime + 1) = 0
      BY <3>2, <1>1, LandedNone
    <3>4. ASSUME NEW t \in Int, t > now - Window PROVE Landed(f, t, now) <= MaxAttempts
      <4>1. During(t, now) \subseteq During(t, MaxTime + 1)
        BY <1>1, TimesInt DEF During
      <4>2. /\ Landed(f, t, now) <= Landed(f, t, MaxTime + 1)
            /\ Landed(f, t, now) \in Nat /\ Landed(f, t, MaxTime + 1) \in Nat
        BY <1>1, <1>2, <4>1, LandedPart
      <4>3. Landed(f, t, MaxTime + 1) <= MaxAttempts
        BY <2>2, <3>4 DEF Kept
      <4>4. QED BY <1>1, <4>2, <4>3
    <3>5. QED BY <1>1, <3>1, <3>3, <3>4
  <2>3. QED BY <2>1, <2>2
<1>4. g \in [Times -> Nat] /\ \A s \in Times : s > now => g[s] = 0
  <2>1. \A s \in Times : s > now => f[s] = 0 /\ s # now
    BY <1>1, TimesInt DEF Kept
  <2>2. QED BY <1>1, <1>2, <2>1
<1>5. \A t, u \in Int : /\ Landed(g, t, u) = Landed(f, t, u) + (IF t <= now /\ now < u THEN n ELSE 0)
                        /\ Landed(f, t, u) \in Nat
  BY <1>1, <1>2, LandedMore
<1> HIDE DEF g
<1>6. /\ Landed(g, c.start, MaxTime + 1) <= MaxAttempts
      /\ Landed(g, c.start, MaxTime + 1) <= c.count
  <2>1. Landed(g, c.start, MaxTime + 1) = Landed(f, c.start, MaxTime + 1) + n
        /\ Landed(f, c.start, MaxTime + 1) \in Nat
    BY <1>1, <1>3, <1>5
  <2>2. QED BY <1>1, <1>3, <2>1
<1>7. ASSUME NEW t \in Int, t > c.start - Window PROVE Landed(g, t, c.start) <= MaxAttempts
  <2>1. Landed(g, t, c.start) = Landed(f, t, c.start)
    <3>1. ~(t <= now /\ now < c.start)
      BY <1>1, <1>3
    <3>2. QED BY <1>1, <1>5, <3>1
  <2>2. QED BY <1>3, <1>7, <2>1
<1>8. ASSUME NEW t \in Int PROVE Landed(g, t, t + Window) <= 2 * MaxAttempts
  <2>1. CASE t > c.start - Window
    <3>1. During(t, t + Window) \subseteq During(t, c.start) \cup During(c.start, MaxTime + 1)
      BY <1>1, TimesInt DEF During
    <3>2. Landed(g, t, t + Window) <= Landed(g, t, c.start) + Landed(g, c.start, MaxTime + 1)
          /\ Landed(g, t, t + Window) \in Nat
      <4>1. t + Window \in Int
        BY <1>1
      <4>2. QED BY <1>1, <1>4, <3>1, <4>1, LandedCover
    <3>3. Landed(g, t, c.start) \in Nat /\ Landed(g, c.start, MaxTime + 1) \in Nat
      BY <1>1, <1>4, LandedPart
    <3>4. QED BY <1>1, <1>6, <1>7, <2>1, <3>2, <3>3
  <2>2. CASE t <= c.start - Window
    <3>1. t + Window \in Int /\ ~(t <= now /\ now < t + Window)
      BY <1>1, <1>3, <2>2
    <3>2. Landed(g, t, t + Window) = Landed(f, t, t + Window)
      BY <1>5, <3>1
    <3>3. QED BY <3>2 DEF Kept
  <2>3. QED BY <1>1, <2>1, <2>2
<1>9. Fresh(c, now)
  BY <1>1, <1>3 DEF Fresh
<1>10. Kept(g, c, now)
  BY <1>3, <1>4, <1>6, <1>7, <1>8, <1>9 DEF Kept
<1>11. QED BY <1>10 DEF g
-----------------------------------------------------------------------------
\* The limiter keeps this for each address.
LimiterKeeps ==
    /\ passed \in [Ips -> [Times -> Nat]]
    /\ \A i \in Ips : Kept(passed[i], buckets[i], clock)

\* What a step does to the limiter, seen from the limiter.
LEMMA LimiterSteps ==
  ASSUME [Next]_vars
  PROVE  \/ UNCHANGED clock /\ \E i \in Ips : Allow(i)
         \/ UNCHANGED clock /\ Forgotten
         \/ clock' = clock + 1 /\ clock < MaxTime /\ UNCHANGED limiter
         \/ UNCHANGED <<clock, limiter>>
<1>1. CASE Asked
  <2>1. CASE \E h \in Requests, name \in Users, kind \in {"register", "login", "socket"},
                word \in Words, i \in Ips : Ask(h, kind, name, word, i)
    BY <2>1 DEF Ask, life
  <2>2. CASE \E h \in Requests, name \in Users, t \in Tokens : AskHistory(h, name, t)
    BY <2>2 DEF AskHistory, life
  <2>3. QED BY <1>1, <2>1, <2>2 DEF Asked
<1>2. CASE Served
  BY <1>2 DEF Served, LookUp, Authenticate, Issue, life
<1>3. CASE Played
  BY <1>3 DEF Played, Begin, End, life
<1>4. CASE Reported
  BY <1>4 DEF Reported, WriteFirst, WriteSecond, Commit, Record, life
<1>5. CASE Exit \/ Crash
  BY <1>5 DEF Exit, Crash
<1>6. CASE Stop \/ StopHttp \/ Start \/ TimePasses \/ UNCHANGED vars
  BY <1>6 DEF Stop, StopHttp, Start, TimePasses, vars, life
<1>7. QED BY <1>1, <1>2, <1>3, <1>4, <1>5, <1>6 DEF Next

\* It does at the start, and after every step.
LEMMA LimiterInit == Init => LimiterKeeps
<1> SUFFICES ASSUME Init PROVE LimiterKeeps
  OBVIOUS
<1>1. Window \in Times
  BY AccountsAssumption DEF Times
<1>2. Kept([t \in Times |-> 0], None, Window)
  BY <1>1, KeptNothing
<1>3. QED BY <1>2 DEF Init, LimiterKeeps

LEMMA LimiterNext == Inv /\ Inv' /\ LimiterKeeps /\ [Next]_vars => LimiterKeeps'
<1> SUFFICES ASSUME Inv, Inv', LimiterKeeps, [Next]_vars PROVE LimiterKeeps'
  OBVIOUS
<1>0. clock \in Times /\ clock' \in Times /\ \A i \in Ips : buckets[i] \in Bucket \cup {None}
  BY DEF Inv, TypeOK, Bucket
<1>1. CASE UNCHANGED clock /\ \E i \in Ips : Allow(i)
  <2>1. PICK i \in Ips : Allow(i)
    BY <1>1
  <2> DEFINE n == IF Allowed(i) THEN 1 ELSE 0
             f == [passed[i] EXCEPT ![clock] = @ + n]
  <2>2. passed' = [passed EXCEPT ![i] = f]
    BY <2>1 DEF Allow
  <2>3. f \in [Times -> Nat]
    BY <1>0 DEF LimiterKeeps
  <2>4. \A j \in Ips : j # i => passed'[j] = passed[j]
    BY <2>2 DEF LimiterKeeps
  <2>5. passed'[i] = f
    BY <2>2 DEF LimiterKeeps
  <2>6. \A j \in Ips : Before(clock)[j] = buckets[j] \/ (Before(clock)[j] = None /\ ~Fresh(buckets[j], clock))
    BY DEF Before, Swept
  <2>7. \A j \in Ips : Kept(passed[j], Before(clock)[j], clock)
    <3>1. ASSUME NEW j \in Ips, Before(clock)[j] = None, ~Fresh(buckets[j], clock)
          PROVE  Kept(passed[j], None, clock)
      BY <3>1 DEF LimiterKeeps, Kept, Fresh
    <3>2. QED BY <2>6, <3>1 DEF LimiterKeeps
  <2>8. DOMAIN Before(clock) = Ips /\ \A j \in Ips : Before(clock)[j] \in Bucket \cup {None}
    <3>1. buckets \in [Ips -> Bucket \cup {None}]
      BY DEF Inv, TypeOK, Bucket
    <3>2. QED BY <3>1 DEF Before, Swept
  <2>9. \A j \in Ips : buckets'[j] = IF j = i THEN Counted(i, clock) ELSE Before(clock)[j]
    BY <2>1, <2>8 DEF Allow
  <2>10. Kept(f, Counted(i, clock), clock)
    <3> DEFINE b == Before(clock)[i]
               c == Counted(i, clock)
    <3>1. c = IF Fresh(b, clock) THEN [b EXCEPT !.count = @ + 1] ELSE [count |-> 1, start |-> clock]
      BY DEF Counted
    <3>2. n = IF c.count <= MaxAttempts THEN 1 ELSE 0
      BY DEF Allowed
    <3>3. c \in Bucket /\ b \in Bucket \cup {None}
      <4>1. b \in Bucket \cup {None}
        BY <2>8
      <4>2. CASE Fresh(b, clock)
        <5>1. b \in Bucket
          BY <4>1, <4>2 DEF Fresh
        <5>2. [b EXCEPT !.count = @ + 1] \in Bucket
          BY <5>1 DEF Bucket
        <5> HIDE DEF b, c
        <5>3. QED BY <3>1, <4>1, <4>2, <5>2
      <4>3. CASE ~Fresh(b, clock)
        <5>1. [count |-> 1, start |-> clock] \in Bucket
          BY <1>0 DEF Bucket
        <5> HIDE DEF b, c
        <5>2. QED BY <3>1, <4>1, <4>3, <5>1
      <4>4. QED BY <4>2, <4>3
    <3>4. Kept(passed[i], b, clock)
      BY <2>7
    <3> HIDE DEF b, c, n
    <3>5. Kept([passed[i] EXCEPT ![clock] = @ + n], c, clock)
      BY <1>0, <3>1, <3>2, <3>3, <3>4, KeptAllow
    <3>6. QED BY <3>5 DEF c
  <2> HIDE DEF f
  <2>11. passed' \in [Ips -> [Times -> Nat]]
    BY <2>2, <2>3 DEF LimiterKeeps
  <2>12. \A j \in Ips : Kept(passed'[j], buckets'[j], clock)
    BY <2>4, <2>5, <2>7, <2>9, <2>10
  <2>13. QED BY <1>1, <2>11, <2>12 DEF LimiterKeeps
<1>2. CASE UNCHANGED clock /\ Forgotten
  <2>1. Kept([t \in Times |-> 0], None, clock)
    BY <1>0, KeptNothing
  <2>2. QED BY <1>2, <2>1 DEF Forgotten, LimiterKeeps
<1>3. CASE clock' = clock + 1 /\ clock < MaxTime /\ UNCHANGED limiter
  <2>1. \A i \in Ips : Kept(passed[i], buckets[i], clock')
    BY <1>0, <1>3, KeptTick DEF LimiterKeeps
  <2>2. QED BY <1>3, <2>1 DEF LimiterKeeps, limiter
<1>4. CASE UNCHANGED <<clock, limiter>>
  BY <1>4 DEF LimiterKeeps, limiter
<1>5. QED BY <1>1, <1>2, <1>3, <1>4, LimiterSteps

\* Of all the attempts of an address, over HTTP and over the socket, no more
\* than twice the budget gets through in any stretch of one window, whatever
\* is swept in between and wherever the fixed windows lie.
THEOREM BudgetsHold == Spec => []BudgetHolds
<1>1. LimiterKeeps => BudgetHolds
  <2> SUFFICES ASSUME LimiterKeeps, NEW i \in Ips, NEW t \in Times
               PROVE  Landed(passed[i], t, t + Window) <= 2 * MaxAttempts
    BY DEF BudgetHolds, Landed, During
  <2>1. t \in Int
    BY TimesInt
  <2>2. QED BY <2>1 DEF LimiterKeeps, Kept
<1>2. QED BY <1>1, LimiterInit, LimiterNext, AccountsInvariant, PTL DEF Spec
-----------------------------------------------------------------------------
\* The points.

\* Rounding half away from zero is symmetric.
LEMMA RoundedOdd == \A n \in Int : Rounded(-n) = -Rounded(n)
BY DEF Rounded

\* Two players of one game: what one wins the other loses.
LEMMA UpdatedZeroSum ==
  ASSUME NEW a \in Int, NEW b \in Int, NEW s \in Int
  PROVE  Updated(a, b, s) + Updated(b, a, 1000 - s) = a + b
<1> DEFINE Clamped(d) == IF d > Spread THEN Spread ELSE IF d < -Spread THEN -Spread ELSE d
<1>0. Spread \in Nat
  BY AccountsAssumption
<1>1. PICK d \in Int : d = Clamped(a - b)
  <2>1. Clamped(a - b) \in Int
    BY <1>0
  <2> HIDE DEF Clamped
  <2>2. QED BY <2>1
<1>2. d \in -Spread .. Spread /\ Clamped(b - a) = -d
  BY <1>0, <1>1
<1>3. Expected[-d] = 1000 - Expected[d]
  <2>1. \A c \in -Spread .. Spread : Expected[-c] = 1000 - Expected[c]
    BY ZenonT(30), AccountsAssumption
  <2>2. QED BY <1>2, <2>1
<1>4. Expected[d] \in Int
  <2>d. PICK D : D = -Spread .. Spread
    OBVIOUS
  <2>1. Expected \in [D -> 0 .. 1000]
    BY ZenonT(30), <2>d, AccountsAssumption
  <2>2. Expected[d] \in 0 .. 1000
    <3>1. d \in D
      BY <1>2, <2>d
    <3>2. QED BY <2>1, <3>1
  <2>3. QED BY <2>2
<1>5. PICK e \in Int : e = Expected[d]
  BY <1>4
<1>6. ExpectedScore(a - b) = e /\ ExpectedScore(b - a) = 1000 - e
  BY <1>1, <1>2, <1>3, <1>5 DEF ExpectedScore
<1>7. PICK n \in Int : n = K * (s - e) /\ K * ((1000 - s) - (1000 - e)) = -n
  <2>1. PICK m \in Int : m = s - e
    OBVIOUS
  <2>2. (1000 - s) - (1000 - e) = -m
    BY <2>1
  <2>3. K * (-m) = -(K * m) /\ K * m \in Int
    BY AccountsAssumption
  <2>4. QED BY <2>1, <2>2, <2>3
<1>8. Updated(a, b, s) = a + Rounded(n) /\ Updated(b, a, 1000 - s) = b + Rounded(-n)
  BY <1>6, <1>7 DEF Updated
<1>9. Rounded(n) \in Int /\ Rounded(-n) = -Rounded(n)
  BY RoundedOdd DEF Rounded
<1>10. QED BY <1>8, <1>9

\* Two accounts play, whoever dropped lost, and an open transaction has written
\* what follows from the ratings in the table.
RatesFairly ==
    /\ \A g \in Games : report[g] # None =>
          /\ report[g].white # report[g].black
          /\ report[g].reason = "disconnect" => report[g].winner \in Sides
    /\ tx # None =>
          IF report[tx.game].reason = "disconnect"
          THEN tx.written = <<RatingOf(Player(tx.game, Side(tx.game))) - Penalty>>
          ELSE \/ tx.written = <<AfterGame(tx.game, "White")>>
               \/ tx.written = <<AfterGame(tx.game, "White"), AfterGame(tx.game, "Black")>>

\* The inductive invariant of the points.
PointsKept == RatesFairly /\ IsFiniteSet(Forfeits) /\ PointsAreAccountedFor

\* What rerate_pair writes sums to what it read.
LEMMA GameZeroSum ==
  ASSUME Inv, NEW g \in Games, report[g] # None
  PROVE  /\ AfterGame(g, "White") \in Int /\ AfterGame(g, "Black") \in Int
         /\ AfterGame(g, "White") + AfterGame(g, "Black")
              = RatingOf(report[g].white) + RatingOf(report[g].black)
<1>1. "White" \in Sides /\ "Black" \in Sides /\ Player(g, "White") = report[g].white
      /\ Player(g, "Black") = report[g].black /\ Opposite("White") = "Black"
      /\ Opposite("Black") = "White"
  BY DEF Sides, Player, Opposite
<1>2. PICK a \in Int, b \in Int : a = RatingOf(report[g].white) /\ b = RatingOf(report[g].black)
  BY <1>1, Players
<1>3. PICK s \in Int : s = Score("White", report[g].winner)
  BY DEF Score
<1>4. Score("Black", report[g].winner) = 1000 - s
  <2>1. report[g].winner \in Sides \cup {None}
    BY Players DEF Report
  <2>2. QED BY <1>3, <2>1 DEF Score, Sides
<1>5. AfterGame(g, "White") = Updated(a, b, s) /\ AfterGame(g, "Black") = Updated(b, a, 1000 - s)
  BY <1>1, <1>2, <1>3, <1>4 DEF AfterGame
<1>6. AfterGame(g, "White") \in Int /\ AfterGame(g, "Black") \in Int
  BY <1>1, AfterGameType
<1>7. Updated(a, b, s) + Updated(b, a, 1000 - s) = a + b
  BY UpdatedZeroSum
<1>8. QED BY <1>2, <1>5, <1>6, <1>7
-----------------------------------------------------------------------------
\* Ratings as a function of the accounts.
Ratings == [u \in Holders |-> RatingOf(u)]

\* Ratings are whole numbers of finitely many accounts.
LEMMA RatingsType ==
  ASSUME TypeOK
  PROVE  /\ IsFiniteSet(Holders) /\ Cardinality(Holders) \in Nat
         /\ Ratings \in [Holders -> Int]
         /\ SumFunctionOnSet(Ratings, Holders) \in Int
<1>1. IsFiniteSet(Holders)
  BY AccountsAssumption, FS_Subset DEF Holders
<1>2. \A u \in Holders : RatingOf(u) \in Int
  BY DEF TypeOK, Holders, RatingOf
<1>3. \A u \in Holders : Ratings[u] \in Int
  BY <1>2 DEF Ratings
<1>4. SumFunctionOnSet(Ratings, Holders) \in Int
  BY <1>1, <1>3, SumsAreFolds, Total!SumType
<1>5. QED BY <1>1, <1>2, <1>4, FS_CardinalityType DEF Ratings

LEMMA NextRatingsType == ASSUME TypeOK' PROVE Ratings' \in [Holders' -> Int]
BY DEF TypeOK, Holders, Ratings, RatingOf

\* The same accounts with the same points, and the same forfeits.
LEMMA PointsStay ==
  ASSUME PointsKept, UNCHANGED users, Forfeits' = Forfeits
  PROVE  IsFiniteSet(Forfeits)' /\ PointsAreAccountedFor'
BY DEF PointsKept, PointsAreAccountedFor, Holders, RatingOf

\* A step that leaves the table of accounts, the transaction and its report.
LEMMA FairStays ==
  ASSUME Inv, RatesFairly, UNCHANGED users, tx' \in {tx, None},
         tx' # None => report'[tx.game] = report[tx.game],
         \A g \in Games : report'[g] # None =>
            \/ report'[g] = report[g]
            \/ /\ report'[g].white # report'[g].black
               /\ report'[g].reason = "disconnect" => report'[g].winner \in Sides
  PROVE  RatesFairly'
<1>1. \A g \in Games : report'[g] # None =>
          /\ report'[g].white # report'[g].black
          /\ report'[g].reason = "disconnect" => report'[g].winner \in Sides
  BY DEF RatesFairly
<1>2. ASSUME tx' # None
      PROVE  IF report'[tx'.game].reason = "disconnect"
             THEN tx'.written = <<RatingOf(Player(tx.game, Side(tx.game))) - Penalty>>'
             ELSE \/ tx'.written = <<AfterGame(tx.game, "White")>>'
                  \/ tx'.written = <<AfterGame(tx.game, "White"), AfterGame(tx.game, "Black")>>'
  <2>1. tx' = tx /\ tx # None /\ report'[tx.game] = report[tx.game]
    BY <1>2
  <2>2. /\ (<<RatingOf(Player(tx.game, Side(tx.game))) - Penalty>>)'
             = <<RatingOf(Player(tx.game, Side(tx.game))) - Penalty>>
        /\ AfterGame(tx.game, "White")' = AfterGame(tx.game, "White")
        /\ AfterGame(tx.game, "Black")' = AfterGame(tx.game, "Black")
    BY <2>1 DEF AfterGame, Player, Side, RatingOf
  <2>3. QED BY <2>1, <2>2 DEF RatesFairly
<1>3. QED BY <1>1, <1>2 DEF RatesFairly

\* Steps that touch neither accounts nor reports keep the points.
LEMMA PointsElsewhere ==
  ASSUME Inv, PointsKept, UNCHANGED <<users, tx, report>>
  PROVE  PointsKept'
<1>1. RatesFairly'
  BY FairStays DEF PointsKept
<1>2. Forfeits' = Forfeits
  BY DEF Forfeits
<1>3. QED BY <1>1, <1>2, PointsStay DEF PointsKept
-----------------------------------------------------------------------------
\* A registration brings an account and its starting rating.
LEMMA RegisterPoints ==
  ASSUME Inv, TypeOK', PointsKept, NEW name \in Users, ~Known(name), NEW word \in Words,
         users' = [users EXCEPT ![name] = [word |-> word, rating |-> StartingRating]],
         UNCHANGED report
  PROVE  IsFiniteSet(Forfeits)' /\ PointsAreAccountedFor'
<1>1. PICK a \in Account : a = [word |-> word, rating |-> StartingRating]
  <2>1. [word |-> word, rating |-> StartingRating] \in Account
    BY AccountsAssumption DEF Account
  <2>2. QED BY <2>1
<1>2. /\ \A u \in Users : users'[u] = IF u = name THEN a ELSE users[u]
      /\ a.rating = StartingRating /\ a # None
  BY <1>1, NoneAssumption DEF Inv, TypeOK, Account
<1>3. Holders' = Holders \cup {name} /\ name \notin Holders
  BY <1>2 DEF Holders, Known
<1>4. (\A u \in Holders : Ratings'[u] = Ratings[u]) /\ Ratings'[name] = StartingRating
  BY <1>2, <1>3 DEF Ratings, RatingOf, Holders
<1>5. /\ IsFiniteSet(Holders) /\ Cardinality(Holders) \in Nat
      /\ Ratings' \in [Holders' -> Int]
      /\ SumFunctionOnSet(Ratings, Holders) \in Int
  BY RatingsType, NextRatingsType DEF Inv
<1>6. SumFunctionOnSet(Ratings', Holders') = SumFunctionOnSet(Ratings, Holders) + StartingRating
  <2>1. SumFunctionOnSet(Ratings', Holders) = SumFunctionOnSet(Ratings, Holders)
    BY <1>4, <1>5, SumsAreFolds, Total!SumAgrees
  <2>2. \A u \in Holders \cup {name} : Ratings'[u] \in Int
    BY <1>3, <1>5
  <2>3. SumFunctionOnSet(Ratings', Holders \cup {name})
          = Ratings'[name] + SumFunctionOnSet(Ratings', Holders)
    BY <1>3, <1>5, <2>2, SumsAreFolds, Total!SumAdd
  <2>4. QED BY <1>3, <1>4, <1>5, <2>1, <2>3, AccountsAssumption
<1>7. Cardinality(Holders') = Cardinality(Holders) + 1
  BY <1>3, <1>5, FS_AddElement
<1>8. Forfeits' = Forfeits
  BY DEF Forfeits
<1>9. StartingRating * (Cardinality(Holders) + 1)
        = StartingRating * Cardinality(Holders) + StartingRating
  BY <1>5, AccountsAssumption
<1>10. Penalty * Cardinality(Forfeits) \in Int
  BY AccountsAssumption, FS_CardinalityType DEF PointsKept
<1>11. StartingRating * Cardinality(Holders) \in Int /\ StartingRating \in Int
  BY <1>5, AccountsAssumption
<1>12. SumFunctionOnSet(Ratings, Holders)
         = StartingRating * Cardinality(Holders) - Penalty * Cardinality(Forfeits)
  BY DEF PointsKept, PointsAreAccountedFor, Ratings
<1>13. SumFunctionOnSet(Ratings', Holders')
         = StartingRating * Cardinality(Holders') - Penalty * Cardinality(Forfeits')
  BY <1>6, <1>7, <1>8, <1>9, <1>10, <1>11, <1>12
<1>14. QED BY <1>8, <1>13 DEF PointsKept, PointsAreAccountedFor, Ratings

\* authenticate registers or leaves the table alone.
LEMMA AuthenticatePoints ==
  ASSUME Inv, TypeOK', PointsKept, NEW h \in Requests, Authenticate(h)
  PROVE  PointsKept'
<1>1. UNCHANGED <<report, tx>> /\ tx = None
  BY DEF Authenticate, Unlocked
<1>2. CASE UNCHANGED users
  BY <1>1, <1>2, PointsElsewhere
<1>3. CASE /\ ~Known(request[h].name)
           /\ users' = [users EXCEPT ![request[h].name] =
                           [word |-> request[h].word, rating |-> StartingRating]]
  <2>1. request[h].name \in Users /\ request[h].word \in Words
    <3>1. request[h] \in Query /\ request[h] # None /\ request[h].step # "answered"
      BY DEF Authenticate, ToAuthenticate, At, Inv, TypeOK
    <3>2. request[h].word \in Words
      BY <3>1 DEF Inv, Settled
    <3>3. QED BY <3>1, <3>2 DEF Query
  <2>2. IsFiniteSet(Forfeits)' /\ PointsAreAccountedFor'
    BY <1>1, <1>3, <2>1, RegisterPoints
  <2>3. RatesFairly'
    BY <1>1 DEF PointsKept, RatesFairly
  <2>4. QED BY <2>2, <2>3 DEF PointsKept
<1>4. QED BY <1>2, <1>3 DEF Authenticate
-----------------------------------------------------------------------------
\* A commit makes and loses no account.
LEMMA CommitKeepsAccounts ==
  ASSUME Inv, NEW g \in Games, Commit(g)
  PROVE  \A u \in Users : users[u] # None <=> users'[u] # None
<1>1. /\ tx # None /\ tx.game = g /\ report[g] # None /\ tx \in [game : Games, written : Seq(Int)]
      /\ Len(tx.written) \in {1, 2}
  BY DEF Commit, Complete, Unlocked, Inv, TypeOK, PlayersKnown
<1>2. PICK first \in Users, second \in Users :
        /\ first = Player(g, Side(g)) /\ second = Player(g, "Black")
        /\ users[first] # None /\ users[second] # None
  <2>1. Side(g) \in Sides /\ "Black" \in Sides
    BY DEF Side, Opposite, Sides
  <2>2. QED BY <1>1, <2>1, Players
<1>3. tx.written[1] \in Int /\ (Len(tx.written) = 2 => tx.written[2] \in Int)
  BY <1>1
<1>4. \A u \in Users : users[u] # None => users[u] \in Account
  BY DEF Inv, TypeOK, Account
<1>5. ASSUME NEW u \in Users, users[u] # None, NEW n \in Int
      PROVE  [users[u] EXCEPT !.rating = n] # None
  <2>1. users[u] \in Account
    BY <1>4, <1>5
  <2>2. [users[u] EXCEPT !.rating = n] \in Account
    BY <2>1 DEF Account
  <2>3. QED BY <2>2, NoneAssumption DEF Account
<1>6. \A u \in Users : users'[u] =
         IF u = first THEN [users[u] EXCEPT !.rating = tx.written[1]]
         ELSE IF Len(tx.written) = 2 /\ u = second THEN [users[u] EXCEPT !.rating = tx.written[2]]
              ELSE users[u]
  BY <1>2 DEF Commit
<1>7. QED BY <1>2, <1>3, <1>5, <1>6

\* A commit moves points or takes the penalty away.
LEMMA CommitPoints ==
  ASSUME Inv, TypeOK', PointsKept, NEW g \in Games, Commit(g)
  PROVE  PointsKept'
<1>1. /\ tx # None /\ tx.game = g /\ report[g] # None /\ report[g] \in Report
      /\ report[g].step = "rating" /\ tx' = None
  BY DEF Commit, Unlocked, Inv, TypeOK, PlayersKnown
<1>2. /\ report[g].white \in Users /\ report[g].black \in Users
      /\ report[g].white # report[g].black
      /\ report[g].white \in Holders /\ report[g].black \in Holders
  BY <1>1 DEF Report, PointsKept, RatesFairly, Holders, Inv, PlayersKnown
<1>3. /\ \A f \in Games : f # g => report'[f] = report[f]
      /\ report'[g].white = report[g].white /\ report'[g].black = report[g].black
      /\ report'[g].reason = report[g].reason /\ report'[g].winner = report[g].winner
      /\ report'[g].step = "rated" /\ report'[g] # None
  <2>1. PICK s \in Report : s = report[g]
    BY <1>1
  <2>2. PICK r \in Report : r = [s EXCEPT !.step = "rated"]
    <3>1. [s EXCEPT !.step = "rated"] \in Report
      BY DEF Report
    <3>2. QED BY <3>1
  <2>3. report' = [report EXCEPT ![g] = r]
    BY <2>1, <2>2 DEF Commit, ReportGoes, Inv, TypeOK
  <2>4. r # None
    BY NoneAssumption
  <2>5. r.step = "rated" /\ r.white = s.white /\ r.black = s.black /\ r.reason = s.reason
        /\ r.winner = s.winner
    BY <2>2 DEF Report
  <2>6. QED BY <2>1, <2>3, <2>4, <2>5 DEF Inv, TypeOK
<1>4. RatesFairly'
  <2>1. ASSUME NEW f \in Games, report'[f] # None
        PROVE  /\ report'[f].white # report'[f].black
               /\ report'[f].reason = "disconnect" => report'[f].winner \in Sides
    BY <2>1, <1>1, <1>3 DEF PointsKept, RatesFairly
  <2>2. QED BY <1>1, <2>1 DEF RatesFairly
<1>5. /\ IsFiniteSet(Holders) /\ Ratings \in [Holders -> Int]
      /\ SumFunctionOnSet(Ratings, Holders) \in Int
  BY RatingsType DEF Inv
<1>6. SumFunctionOnSet(Ratings, Holders)
         = StartingRating * Cardinality(Holders) - Penalty * Cardinality(Forfeits)
  BY DEF PointsKept, PointsAreAccountedFor, Ratings
<1>p. PICK first \in Users : first = Player(g, Side(g)) /\ first \in Holders
  BY <1>2 DEF Player
<1>b. Player(g, "Black") = report[g].black
  BY DEF Player
<1>7. Holders' = Holders /\ Ratings' \in [Holders -> Int]
  <2>1. \A u \in Users : users[u] # None <=> users'[u] # None
    BY CommitKeepsAccounts
  <2>2. Holders' = Holders
    BY <2>1 DEF Holders
  <2>3. QED BY <2>2, NextRatingsType
<1>8. \A u \in Holders : Ratings'[u] =
         IF u = first THEN tx.written[1]
         ELSE IF Len(tx.written) = 2 /\ u = report[g].black THEN tx.written[2] ELSE Ratings[u]
  <2>1. \A u \in Holders : users[u] \in Account
    BY DEF Inv, TypeOK, Account, Holders
  <2>2. \A u \in Holders : users'[u].rating =
         IF u = first THEN tx.written[1]
         ELSE IF Len(tx.written) = 2 /\ u = report[g].black THEN tx.written[2] ELSE users[u].rating
    BY <1>p, <1>b, <2>1 DEF Commit, Account, Holders
  <2>3. QED BY <1>7, <2>2 DEF Ratings, RatingOf
<1>9. CASE report[g].reason = "disconnect"
  <2>1. tx.written = <<Ratings[first] - Penalty>>
    BY <1>1, <1>9, <1>p DEF PointsKept, RatesFairly, Ratings
  <2>2. Len(tx.written) = 1 /\ tx.written[1] = Ratings[first] - Penalty
    BY <2>1
  <2>3. SumFunctionOnSet(Ratings', Holders)
          = SumFunctionOnSet(Ratings, Holders) + Ratings'[first] - Ratings[first]
    <3>1. /\ \A y \in Holders : Ratings[y] \in Int /\ Ratings'[y] \in Int
          /\ \A y \in Holders \ {first} : Ratings'[y] = Ratings[y]
      BY <1>5, <1>7, <1>8, <2>2
    <3>2. QED BY <1>5, <1>p, <3>1, SumsAreFolds, Total!SumChange
  <2>4. Ratings'[first] = Ratings[first] - Penalty /\ Ratings[first] \in Int
    BY <1>5, <1>8, <1>p, <2>2
  <2>5. Forfeits' = Forfeits \cup {g} /\ g \notin Forfeits
    BY <1>1, <1>3, <1>9 DEF Forfeits
  <2>6. IsFiniteSet(Forfeits') /\ Cardinality(Forfeits') = Cardinality(Forfeits) + 1
        /\ Cardinality(Forfeits) \in Nat
    BY <2>5, FS_AddElement, FS_CardinalityType DEF PointsKept
  <2>7. /\ Penalty * (Cardinality(Forfeits) + 1) = Penalty * Cardinality(Forfeits) + Penalty
        /\ Penalty * Cardinality(Forfeits) \in Int /\ Penalty \in Int
    <3>1. PICK c \in Nat : c = Cardinality(Forfeits)
      BY <2>6
    <3>2. Penalty \in Nat
      BY AccountsAssumption
    <3>3. Penalty * (c + 1) = Penalty * c + Penalty /\ Penalty * c \in Int
      BY <3>2
    <3>4. QED BY <3>1, <3>2, <3>3
  <2>8. StartingRating * Cardinality(Holders) \in Int
    BY <1>5, FS_CardinalityType, AccountsAssumption
  <2>9. SumFunctionOnSet(Ratings', Holders')
          = StartingRating * Cardinality(Holders') - Penalty * Cardinality(Forfeits')
    BY <1>5, <1>6, <1>7, <2>3, <2>4, <2>6, <2>7, <2>8
  <2>10. QED BY <1>4, <2>6, <2>9 DEF PointsKept, PointsAreAccountedFor, Ratings
<1>10. CASE report[g].reason # "disconnect"
  <2> DEFINE a == AfterGame(g, "White")
             b == AfterGame(g, "Black")
             w == report[g].white
             k == report[g].black
             h == [Ratings EXCEPT ![w] = a]
  <2>1. tx.written = <<a>> \/ tx.written = <<a, b>>
    BY <1>1, <1>10 DEF PointsKept, RatesFairly
  <2>2. Len(tx.written) = 2
    BY <1>10 DEF Commit, Complete
  <2>3. tx.written[1] = a /\ tx.written[2] = b
    BY <2>1, <2>2
  <2>4. first = w
    BY <1>10, <1>p DEF Side, Player
  <2>5. a \in Int /\ b \in Int /\ a + b = Ratings[w] + Ratings[k]
    BY <1>1, <1>2, GameZeroSum DEF Ratings
  <2> HIDE DEF a, b
  <2>6. /\ \A y \in Holders : Ratings[y] \in Int /\ h[y] \in Int /\ Ratings'[y] \in Int
        /\ \A y \in Holders \ {w} : h[y] = Ratings[y]
        /\ h[w] = a /\ h[k] = Ratings[k]
    BY <1>2, <1>5, <1>7, <2>5
  <2>7. /\ \A y \in Holders \ {k} : Ratings'[y] = h[y]
        /\ Ratings'[k] = b
    BY <1>2, <1>5, <1>8, <2>2, <2>3, <2>4, <2>6
  <2> HIDE DEF h
  <2>8. SumFunctionOnSet(h, Holders) = SumFunctionOnSet(Ratings, Holders) + h[w] - Ratings[w]
    BY <1>2, <1>5, <2>6, SumsAreFolds, Total!SumChange
  <2>9. SumFunctionOnSet(Ratings', Holders) = SumFunctionOnSet(h, Holders) + Ratings'[k] - h[k]
    BY <1>2, <1>5, <2>6, <2>7, SumsAreFolds, Total!SumChange
  <2>10. SumFunctionOnSet(Ratings', Holders) = SumFunctionOnSet(Ratings, Holders)
    <3>1. Ratings[w] \in Int /\ Ratings[k] \in Int
      BY <1>2, <1>5
    <3>2. QED BY <1>5, <2>5, <2>6, <2>7, <2>8, <2>9, <3>1
  <2>11. Forfeits' = Forfeits
    BY <1>1, <1>3, <1>10 DEF Forfeits
  <2>12. QED BY <1>4, <1>6, <1>7, <2>10, <2>11 DEF PointsKept, PointsAreAccountedFor, Ratings
<1>11. QED BY <1>9, <1>10
-----------------------------------------------------------------------------
\* Reports, and the process.
LEMMA AppendTwo ==
  ASSUME NEW x \in Int, NEW y \in Int PROVE Append(<<x>>, y) = <<x, y>>
<1>1. <<x>> \in Seq(Int) /\ Len(<<x>>) = 1 /\ <<x>>[1] = x
  OBVIOUS
<1>2. PICK s \in Seq(Int) : s = <<x>> /\ Len(s) = 1 /\ s[1] = x
  BY <1>1
<1>3. <<x, y>> \in Seq(Int) /\ Len(<<x, y>>) = 2 /\ <<x, y>>[1] = x /\ <<x, y>>[2] = y
  OBVIOUS
<1>4. PICK t \in Seq(Int) : t = <<x, y>> /\ Len(t) = 2 /\ t[1] = x /\ t[2] = y
  BY <1>3
<1>5. /\ Append(s, y) \in Seq(Int) /\ Len(Append(s, y)) = Len(s) + 1
      /\ \A i \in 1 .. Len(s) : Append(s, y)[i] = s[i]
      /\ Append(s, y)[Len(s) + 1] = y
  BY AppendProperties
<1>6. Append(s, y) = t
  <2>1. Len(s) = 1 /\ s[1] = x
    BY <1>2
  <2>2. Len(t) = 2 /\ t[1] = x /\ t[2] = y
    BY <1>4
  <2>3. PICK u \in Seq(Int) : u = Append(s, y)
    BY <1>5
  <2>4. Len(u) = 2 /\ u[1] = x /\ u[2] = y
    BY <1>5, <2>1, <2>3
  <2>5. \A i \in 1 .. Len(u) : u[i] = t[i]
    BY <2>2, <2>4
  <2>6. u = t
    BY <2>2, <2>4, <2>5, SeqEqual
  <2>7. QED BY <2>3, <2>6
<1>7. QED BY <1>2, <1>4, <1>6

\* A write follows from the ratings in the table.
LEMMA WritePoints ==
  ASSUME Inv, PointsKept, NEW g \in Games, WriteFirst(g) \/ WriteSecond(g)
  PROVE  PointsKept'
<1> DEFINE p == RatingOf(Player(g, Side(g))) - Penalty
           a == AfterGame(g, "White")
           b == AfterGame(g, "Black")
<1>1. /\ UNCHANGED <<users, report>> /\ tx'.game = g
      /\ IF report[g].reason = "disconnect" THEN tx'.written = <<p>>
         ELSE tx'.written = <<a>> \/ tx'.written = <<a, b>>
  <2>1. CASE WriteFirst(g)
    <3>1. PICK v : v = <<IF report[g].reason = "disconnect" THEN p ELSE a>>
      OBVIOUS
    <3>2. UNCHANGED <<users, report>> /\ tx'.game = g /\ tx'.written = v
      <4>1. tx' = [game |-> g, written |-> v]
        BY <2>1, <3>1 DEF WriteFirst
      <4>2. QED BY <2>1, <4>1 DEF WriteFirst
    <3>3. IF report[g].reason = "disconnect" THEN v = <<p>> ELSE v = <<a>>
      BY <3>1
    <3>4. QED BY <3>2, <3>3
  <2>2. CASE WriteSecond(g)
    <3>1. /\ tx # None /\ tx.game = g /\ tx \in [game : Games, written : Seq(Int)]
          /\ report[g].reason # "disconnect" /\ Len(tx.written) = 1
          /\ UNCHANGED <<users, report>>
      BY <2>2 DEF WriteSecond, Unlocked, Inv, TypeOK
    <3>2. tx' = [tx EXCEPT !.written = Append(tx.written, b)]
      BY <2>2 DEF WriteSecond
    <3>3. tx.written = <<a>>
      <4>1. tx.written = <<a>> \/ tx.written = <<a, b>>
        BY <3>1 DEF PointsKept, RatesFairly
      <4>2. QED BY <3>1, <4>1
    <3>4. tx'.game = g /\ tx'.written = Append(tx.written, b)
      BY <3>1, <3>2
    <3>5. Append(<<a>>, b) = <<a, b>>
      <4>1. a \in Int /\ b \in Int
        BY <3>1, GameZeroSum DEF Inv, PlayersKnown
      <4> HIDE DEF a, b
      <4>2. QED BY <4>1, AppendTwo
    <3>6. QED BY <3>1, <3>3, <3>4, <3>5
  <2>3. QED BY <2>1, <2>2
<1>2. /\ (RatingOf(Player(g, Side(g))) - Penalty)' = p
      /\ AfterGame(g, "White")' = a /\ AfterGame(g, "Black")' = b
  BY <1>1 DEF AfterGame, Player, Side, RatingOf
<1>3. RatesFairly'
  <2>1. \A f \in Games : report'[f] # None =>
          /\ report'[f].white # report'[f].black
          /\ report'[f].reason = "disconnect" => report'[f].winner \in Sides
    BY <1>1 DEF PointsKept, RatesFairly
  <2> HIDE DEF p, a, b
  <2>2. IF report'[g].reason = "disconnect" THEN tx'.written = <<p>>
        ELSE tx'.written = <<a>> \/ tx'.written = <<a, b>>
    BY <1>1
  <2>3. QED BY <1>1, <1>2, <2>1, <2>2 DEF RatesFairly
<1>4. Forfeits' = Forfeits
  BY <1>1 DEF Forfeits
<1>5. QED BY <1>1, <1>3, <1>4, PointsStay DEF PointsKept

\* A step of reports that are not being rated.
LEMMA ReportPoints ==
  ASSUME Inv, PointsKept, UNCHANGED users, tx' \in {tx, None},
         tx' # None => report'[tx.game] = report[tx.game],
         \A g \in Games :
            \/ report'[g] = report[g]
            \/ /\ report'[g] # None
               /\ report'[g].white # report'[g].black
               /\ report'[g].reason = "disconnect" => report'[g].winner \in Sides
               /\ g \in Forfeits <=> /\ report'[g].reason = "disconnect"
                                     /\ report'[g].step \in {"rated", "recorded", "torn"}
  PROVE  PointsKept'
<1>1. RatesFairly'
  BY FairStays DEF PointsKept
<1>2. \A g \in Games : g \in Forfeits' <=> g \in Forfeits
  BY DEF Forfeits
<1>3. Forfeits' = Forfeits
  BY <1>2 DEF Forfeits
<1>4. QED BY <1>1, <1>3, PointsStay DEF PointsKept

\* A match begins, ends, and is recorded.
LEMMA BeginPoints ==
  ASSUME Inv, PointsKept, NEW g \in Games, NEW white \in Users, NEW black \in Users,
         Begin(g, white, black)
  PROVE  PointsKept'
<1>1. PICK r \in Report : /\ r.white = white /\ r.black = black /\ r.step = "playing"
                          /\ r.reason = None
                          /\ report' = [report EXCEPT ![g] = r]
  <2>1. PICK r : r = [white |-> white, black |-> black, winner |-> None, reason |-> None,
                      step |-> "playing"]
    OBVIOUS
  <2>2. r \in Report /\ r.white = white /\ r.black = black /\ r.step = "playing"
        /\ r.reason = None
    BY <2>1 DEF Report
  <2>3. report' = [report EXCEPT ![g] = r]
    BY <2>1 DEF Begin
  <2>4. QED BY <2>2, <2>3
<1>2. r # None /\ None # "disconnect" /\ report[g] = None /\ white # black /\ g \notin Forfeits
  BY NoneAssumption DEF Begin, Forfeits, Reasons
<1>3. \A f \in Games : report'[f] = IF f = g THEN r ELSE report[f]
  BY <1>1 DEF Inv, TypeOK
<1>4. tx # None => tx.game \in Games /\ tx.game # g
  BY <1>2 DEF Inv, TypeOK, PlayersKnown
<1>5. UNCHANGED <<users, tx>>
  BY DEF Begin, tables
<1>6. QED BY <1>1, <1>2, <1>3, <1>4, <1>5, ReportPoints

LEMMA EndPoints ==
  ASSUME Inv, PointsKept, NEW g \in Games, NEW reason \in Reasons,
         NEW winner \in Sides \cup {None}, End(g, reason, winner)
  PROVE  PointsKept'
<1>1. report[g] # None /\ report[g] \in Report /\ report[g].step = "playing"
      /\ (reason = "draw") = (winner = None)
  BY DEF End, Reporting, Inv, TypeOK
<1>2. PICK r \in Report :
        /\ r.white = report[g].white /\ r.black = report[g].black /\ r.reason = reason
        /\ r.winner = winner /\ r.step = "rating" /\ report' = [report EXCEPT ![g] = r]
  <2>1. PICK s : s = report[g]
    OBVIOUS
  <2>2. PICK r : r = [s EXCEPT !.reason = reason, !.winner = winner, !.step = "rating"]
    OBVIOUS
  <2>3. r \in Report /\ r.white = s.white /\ r.black = s.black /\ r.reason = reason
        /\ r.winner = winner /\ r.step = "rating"
    BY <1>1, <2>1, <2>2 DEF Report
  <2>4. report' = [report EXCEPT ![g] = r]
    BY <2>1, <2>2 DEF End, Inv, TypeOK
  <2>5. QED BY <2>1, <2>3, <2>4
<1>3. r # None
  BY NoneAssumption
<1>4. \A f \in Games : report'[f] = IF f = g THEN r ELSE report[f]
  BY <1>2 DEF Inv, TypeOK
<1>5. reason = "disconnect" => winner \in Sides
  BY <1>1
<1>6. tx # None => tx.game \in Games /\ tx.game # g
  BY <1>1 DEF Inv, TypeOK, PlayersKnown
<1>7. UNCHANGED <<users, tx>>
  BY DEF End, tables
<1>8. r.white # r.black
  BY <1>1, <1>2 DEF PointsKept, RatesFairly
<1>9. g \notin Forfeits
  BY <1>1 DEF Forfeits
<1>10. QED BY <1>2, <1>3, <1>4, <1>5, <1>6, <1>7, <1>8, <1>9, ReportPoints

LEMMA RecordPoints ==
  ASSUME Inv, PointsKept, NEW g \in Games, Record(g)
  PROVE  PointsKept'
<1>1. /\ report[g] # None /\ report[g] \in Report /\ report[g].step = "rated" /\ tx = None
      /\ UNCHANGED <<users, tx>>
  BY DEF Record, Reporting, Unlocked, Inv, TypeOK
<1>2. PICK r \in Report :
        /\ r.white = report[g].white /\ r.black = report[g].black
        /\ r.reason = report[g].reason /\ r.winner = report[g].winner
        /\ r.step = "recorded" /\ report' = [report EXCEPT ![g] = r]
  <2>1. PICK s \in Report : s = report[g]
    BY <1>1
  <2>2. PICK r : r = [s EXCEPT !.step = "recorded"]
    OBVIOUS
  <2>3. r \in Report /\ r.white = s.white /\ r.black = s.black /\ r.reason = s.reason
        /\ r.winner = s.winner /\ r.step = "recorded"
    BY <2>1, <2>2 DEF Report
  <2>4. report' = [report EXCEPT ![g] = r]
    BY <2>1, <2>2 DEF Record, ReportGoes, Inv, TypeOK
  <2>5. QED BY <2>1, <2>3, <2>4
<1>3. r # None
  BY NoneAssumption
<1>4. \A f \in Games : report'[f] = IF f = g THEN r ELSE report[f]
  BY <1>2 DEF Inv, TypeOK
<1>5. r.white # r.black /\ (r.reason = "disconnect" => r.winner \in Sides)
  BY <1>1, <1>2 DEF PointsKept, RatesFairly
<1>6. g \in Forfeits <=> r.reason = "disconnect"
  BY <1>1, <1>2 DEF Forfeits
<1>7. QED BY <1>1, <1>2, <1>3, <1>4, <1>5, <1>6, ReportPoints

\* An exit and a crash rate nobody.
LEMMA DownPoints ==
  ASSUME Inv, PointsKept, Exit \/ Crash
  PROVE  PointsKept'
<1>1. ASSUME NEW g \in Games
      PROVE  \/ report'[g] = report[g]
             \/ /\ report[g] # None /\ report'[g] \in Report
                /\ report'[g].white = report[g].white /\ report'[g].black = report[g].black
                /\ report'[g].reason = report[g].reason /\ report'[g].winner = report[g].winner
                /\ \/ report[g].step = "playing" /\ report'[g].step = "lost"
                   \/ report[g].step = "rating" /\ report'[g].step = "lost" /\ Crash
                   \/ report[g].step = "rated" /\ report'[g].step = "torn"
  <2>1. CASE report[g] = None
    BY <2>1 DEF Exit, Crash
  <2>2. CASE report[g] # None
    <3>1. PICK r \in Report : r = report[g]
      BY <2>2 DEF Inv, TypeOK
    <3>2. PICK step : step = IF r.step = "playing" \/ (Crash /\ r.step = "rating") THEN "lost"
                             ELSE IF Crash /\ r.step = "rated" THEN "torn" ELSE r.step
      OBVIOUS
    <3>3. report'[g] = [r EXCEPT !.step = step]
      <4>1. CASE Exit
        <5>1. report'[g] = IF r.step # "playing" THEN r ELSE [r EXCEPT !.step = "lost"]
          BY <2>2, <3>1, <4>1 DEF Exit
        <5>2. r = [r EXCEPT !.step = r.step]
          BY DEF Report
        <5>3. ~Crash \/ r.step \notin {"rating", "rated"}
          BY <3>1, <2>2, <4>1 DEF Exit, WorkersJoined, Underway
        <5>4. QED BY <3>2, <5>1, <5>2, <5>3
      <4>2. CASE Crash
        <5>1. report'[g] = [r EXCEPT !.step = CASE r.step \in {"playing", "rating"} -> "lost"
                                                [] r.step = "rated" -> "torn"
                                                [] OTHER -> r.step]
          BY <2>2, <3>1, <4>2 DEF Crash
        <5>2. step = CASE r.step \in {"playing", "rating"} -> "lost"
                       [] r.step = "rated" -> "torn"
                       [] OTHER -> r.step
          BY <3>2, <4>2
        <5>3. QED BY <5>1, <5>2
      <4>3. QED BY <4>1, <4>2
    <3>4. CASE step = r.step
      <4>1. [r EXCEPT !.step = step] = r
        BY <3>4 DEF Report
      <4>2. QED BY <3>1, <3>3, <4>1
    <3>5. CASE step # r.step
      <4>1. \/ r.step = "playing" /\ step = "lost"
            \/ r.step = "rating" /\ step = "lost" /\ Crash
            \/ r.step = "rated" /\ step = "torn"
        BY <3>2, <3>5
      <4>2. [r EXCEPT !.step = step] \in Report
        BY <4>1 DEF Report
      <4>3. QED BY <2>2, <3>1, <3>3, <4>1, <4>2 DEF Report
    <3>6. QED BY <3>4, <3>5
  <2>3. QED BY <2>1, <2>2
<1>2. UNCHANGED users /\ tx' \in {tx, None} /\ (Crash => tx' = None)
  BY DEF Exit, Crash, tables
<1>3. tx' # None => report'[tx.game] = report[tx.game]
  BY <1>1, <1>2 DEF Inv, TypeOK, PlayersKnown
<1>4. ASSUME NEW g \in Games
      PROVE  \/ report'[g] = report[g]
             \/ /\ report'[g] # None
                /\ report'[g].white # report'[g].black
                /\ report'[g].reason = "disconnect" => report'[g].winner \in Sides
                /\ g \in Forfeits <=> /\ report'[g].reason = "disconnect"
                                      /\ report'[g].step \in {"rated", "recorded", "torn"}
  <2>1. CASE report'[g] = report[g]
    BY <2>1
  <2>2. CASE report'[g] # report[g]
    <3>1. /\ report[g] # None /\ report'[g] \in Report
          /\ report'[g].white = report[g].white /\ report'[g].black = report[g].black
          /\ report'[g].reason = report[g].reason /\ report'[g].winner = report[g].winner
          /\ \/ report[g].step = "playing" /\ report'[g].step = "lost"
             \/ report[g].step = "rating" /\ report'[g].step = "lost" /\ Crash
             \/ report[g].step = "rated" /\ report'[g].step = "torn"
      BY <1>1, <2>2
    <3>2. report'[g] # None
      BY <3>1, NoneAssumption
    <3>3. /\ report[g].white # report[g].black
          /\ report[g].reason = "disconnect" => report[g].winner \in Sides
      BY <3>1 DEF PointsKept, RatesFairly
    <3>4. g \in Forfeits <=> /\ report'[g].reason = "disconnect"
                            /\ report'[g].step \in {"rated", "recorded", "torn"}
      BY <3>1 DEF Forfeits
    <3>5. QED BY <3>1, <3>2, <3>3, <3>4
  <2>3. QED BY <2>1, <2>2
<1>5. QED BY <1>2, <1>3, <1>4, ReportPoints

\* The points are kept by every step, and at the start.
LEMMA PointsNext == Inv /\ Inv' /\ PointsKept /\ [Next]_vars => PointsKept'
<1> SUFFICES ASSUME Inv, Inv', PointsKept, [Next]_vars PROVE PointsKept'
  OBVIOUS
<1>0. TypeOK'
  BY DEF Inv
<1>1. CASE Asked
  BY <1>1, PointsElsewhere DEF Asked, Ask, AskHistory, tables
<1>2. CASE Served
  <2>1. CASE \E h \in Requests : Authenticate(h)
    BY <1>0, <2>1, AuthenticatePoints
  <2>2. CASE \E h \in Requests : LookUp(h) \/ \E t \in Tokens : Issue(h, t)
    BY <2>2, PointsElsewhere DEF LookUp, Issue, tables
  <2>3. QED BY <1>2, <2>1, <2>2 DEF Served
<1>3. CASE Played
  BY <1>3, BeginPoints, EndPoints DEF Played
<1>4. CASE Reported
  BY <1>0, <1>4, WritePoints, CommitPoints, RecordPoints DEF Reported
<1>5. CASE Exit \/ Crash
  BY <1>5, DownPoints
<1>6. CASE Stop \/ StopHttp \/ Start \/ TimePasses \/ UNCHANGED vars
  BY <1>6, PointsElsewhere DEF Stop, StopHttp, Start, TimePasses, vars, tables
<1>7. QED BY <1>1, <1>2, <1>3, <1>4, <1>5, <1>6 DEF Next

LEMMA PointsInit == Init => PointsKept
<1> SUFFICES ASSUME Init PROVE PointsKept
  OBVIOUS
<1>1. Holders = {} /\ Forfeits = {}
  BY DEF Init, Holders, Forfeits
<1>2. SumFunctionOnSet([u \in Holders |-> RatingOf(u)], Holders) = 0
  BY <1>1, SumsAreFolds, Total!SumEmpty
<1>3. Cardinality({}) = 0 /\ IsFiniteSet({})
  BY FS_EmptySet
<1>4. StartingRating * 0 = 0 /\ Penalty * 0 = 0
  BY AccountsAssumption
<1>5. QED BY <1>1, <1>2, <1>3, <1>4 DEF Init, PointsKept, RatesFairly, PointsAreAccountedFor

\* Every point an account has came from a registration or a game: whatever is
\* crashed or torn, the ratings in the table sum to what was given out less the
\* penalties of the forfeits that were rated.
THEOREM PointsAccountedFor == Spec => []PointsAreAccountedFor
<1>1. PointsKept => PointsAreAccountedFor
  BY DEF PointsKept
<1>2. QED BY <1>1, PointsInit, PointsNext, AccountsInvariant, PTL DEF Spec
=============================================================================
