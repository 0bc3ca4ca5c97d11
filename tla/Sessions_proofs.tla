-------------------------- MODULE Sessions_proofs --------------------------
(***************************************************************************)
(* Proofs about the sessions of a person: which account they are for, and  *)
(* how they end.                                                           *)
(*                                                                         *)
(* Sessions and sockets, for any number of session keys and sockets and    *)
(* for any windows.  Each invariant has a strengthening of its own.  The   *)
(* cached list: whoever holds a copy of the list has every key that was    *)
(* not lost.  The sockets: what is said of an open socket holds from the   *)
(* moment it joins its groups.  The rows: a row lags behind its socket by  *)
(* no more than the throttle, and one the stale job has closed is old      *)
(* enough to be written again by the next message.                         *)
(*                                                                         *)
(* Logins, for any people, browsers, accounts and providers: every login   *)
(* ends in an account of the person who logs in.  The property of          *)
(* credentials and sessions is not inductive: a login that is paused       *)
(* carries the account it resolved to, the matcher trusts names, and the   *)
(* id proxy's branch trusts identities.  So the invariant also says whose  *)
(* names and identities the rows hold, whose account a login under way     *)
(* has, and that a login by the id proxy has the account of the identity   *)
(* unless the identity has none.                                           *)
(***************************************************************************)
EXTENDS Connections, Logins, FiniteSetTheorems, WellFoundedInduction, TLAPS

\* A key is used for one session: once its login is done it stays so, and
\* only then it can be logged out.
KeysUsedOnce ==
    /\ \A k \in Keys : logout[k] # "none" => login[k] = "done"
    /\ \A k \in Keys : \A j \in before[k] : login[j] = "done"

\* What a logout everywhere has read holds every session there was.
LogoutsReadEverything ==
    \A k \in Keys : logout[k] = "all read" =>
        \A j \in before[k] : ~alive[j] \/ j \in Range(local[k]) \cup lost

SessionsInv ==
    /\ TypeOK /\ KeysUsedOnce /\ LogoutsReadEverything
    /\ SessionsAreTracked /\ LogoutEverywhereEndsSessions

\* A close is on its way to the socket, or about to be sent.
CloseComes(s) ==
    \/ inbox[s] # <<>>
    \/ \E k \in Keys : logout[k] = "all closing"
    \/ logout[sess[s]] = "own closing"

\* A socket belongs to a session from its handshake on, and a close comes to it
\* from the moment it has joined its groups.
SocketInv(s) ==
    /\ phase[s] # "new" => sess[s] \in Keys
    /\ phase[s] \in {"joined", "open"} /\ ~alive[sess[s]] /\ s \notin missed => CloseComes(s)

SocketsInv == \A s \in Sockets : SocketInv(s)

\* The row of an open socket is no older than the socket has been quiet, and
\* the throttle.
RowFollows(s) ==
    phase[s] = "open" =>
        /\ row[s] # "none"
        /\ row[s] = "closed" => idle[s] >= StaleWindow
        /\ (s \notin handling /\ row[s] # "purged") =>
              quiet[s] = Cap \/ idle[s] <= quiet[s] + UpdateInterval

RowsInv == TypeOK /\ \A s \in Sockets : RowFollows(s)

-----------------------------------------------------------------------------
(* The list *)

\* One step of the recursion of Without, and a function that takes all of them.
KeptBy(keys, k, g, i) ==
    IF i = 0 THEN <<>>
    ELSE IF keys[i] = k THEN g[i - 1] ELSE Append(g[i - 1], keys[i])
IsKept(keys, k, g, n) == g = [i \in 0..n |-> KeptBy(keys, k, g, i)]

\* A set of numbers has a least one.  An induction over data is an argument
\* about the least counterexample.
LEMMA LeastNumber ==
    ASSUME NEW S \in SUBSET Nat, S # {}
    PROVE  \E n \in S : \A m \in S : n <= m
<1> DEFINE R == {ss \in Nat \X Nat : ss[1] < ss[2]}
<1>1. IsWellFoundedOn(R, Nat)
    BY NatLessThanWellFounded DEF OpToRel
<1>2. \A m, n \in Nat : m < n => <<m, n>> \in R
    OBVIOUS
<1> HIDE DEF R
<1>3. PICK n \in S : \A m \in S : <<m, n>> \notin R
    BY <1>1, WFMin
<1>4. ASSUME NEW m \in S PROVE n <= m
  <2>1. m \in Nat /\ n \in Nat
    OBVIOUS
  <2>2. ~(m < n)
    BY <1>2, <1>3, <2>1
  <2> QED
    BY <2>1, <2>2
<1> QED
    BY <1>4

\* What is in a list to which something is appended.
LEMMA RangeOfAppend ==
    ASSUME NEW T, NEW q \in Seq(T), NEW e \in T
    PROVE  Range(Append(q, e)) = Range(q) \cup {e}
<1> DEFINE r == Append(q, e)
<1>1. /\ Len(q) \in Nat /\ DOMAIN q = 1..Len(q) /\ DOMAIN r = 1..(Len(q) + 1)
      /\ r[Len(q) + 1] = e
      /\ \A i \in 1..Len(q) : r[i] = q[i]
    OBVIOUS
<1> HIDE DEF r
<1>2. ASSUME NEW x \in Range(r) PROVE x \in Range(q) \cup {e}
  <2>1. PICK i \in 1..(Len(q) + 1) : x = r[i]
    BY <1>1 DEF Range
  <2>2. CASE i = Len(q) + 1
    BY <1>1, <2>1, <2>2
  <2>3. CASE i \in 1..Len(q)
    BY <1>1, <2>1, <2>3 DEF Range
  <2> QED
    BY <1>1, <2>1, <2>2, <2>3
<1>3. ASSUME NEW x \in Range(q) PROVE x \in Range(r)
  <2>1. PICK i \in 1..Len(q) : x = q[i]
    BY <1>1 DEF Range
  <2>2. i \in DOMAIN r /\ x = r[i]
    BY <1>1, <2>1
  <2> QED
    BY <2>2 DEF Range
<1>4. e \in Range(r)
  <2>1. Len(q) + 1 \in DOMAIN r
    BY <1>1
  <2> QED
    BY <1>1, <2>1 DEF Range
<1> QED
    BY <1>2, <1>3, <1>4 DEF r

\* The recursion of Without has a solution for every length.
LEMMA KeptExists ==
    ASSUME NEW keys \in Seq(Keys), NEW k \in Keys, NEW n \in Nat
    PROVE \E g : IsKept(keys, k, g, n)
<1> DEFINE Bad == {m \in Nat : ~\E g : IsKept(keys, k, g, m)}
<1>1. \E g : IsKept(keys, k, g, 0)
  <2>1. IsKept(keys, k, [i \in 0..0 |-> <<>>], 0)
    BY DEF IsKept, KeptBy
  <2> QED
    BY <2>1
<1>2. ASSUME NEW m \in Nat \ {0}, NEW g, IsKept(keys, k, g, m - 1)
      PROVE  \E h : IsKept(keys, k, h, m)
  <2> DEFINE h == [i \in 0..m |-> IF i = m THEN KeptBy(keys, k, g, m) ELSE g[i]]
  <2>1. \A i \in 0..(m - 1) : g[i] = KeptBy(keys, k, g, i)
    BY <1>2 DEF IsKept
  <2>2. \A i \in 0..m : h[i] = KeptBy(keys, k, g, i)
    BY <2>1
  <2>3. \A i \in 1..m : h[i - 1] = g[i - 1]
    OBVIOUS
  <2> HIDE DEF h
  <2>4. \A i \in 0..m : KeptBy(keys, k, h, i) = KeptBy(keys, k, g, i)
    BY <2>3 DEF KeptBy
  <2>5. h = [i \in 0..m |-> KeptBy(keys, k, h, i)]
    BY <2>2, <2>4 DEF h
  <2> QED
    BY <2>5 DEF IsKept
<1>3. ASSUME Bad # {} PROVE FALSE
  <2>1. PICK m \in Bad : \A j \in Bad : m <= j
    BY <1>3, LeastNumber
  <2>2. m \in Nat \ {0}
    BY <1>1
  <2>3. m - 1 \in Nat /\ m - 1 \notin Bad
    BY <2>1, <2>2
  <2> QED
    BY <1>2, <2>1, <2>2, <2>3
<1> QED
    BY <1>3

\* What a solution has collected after any number of steps.
LEMMA KeptCollects ==
    ASSUME NEW keys \in Seq(Keys), NEW k \in Keys, NEW g, IsKept(keys, k, g, Len(keys)),
           NEW n \in 0..Len(keys)
    PROVE  /\ g[n] \in Seq(Keys)
           /\ Len(g[n]) <= n
           /\ Range(g[n]) = {keys[j] : j \in 1..n} \ {k}
<1> DEFINE Good(i) == /\ g[i] \in Seq(Keys)
                      /\ Len(g[i]) <= i
                      /\ Range(g[i]) = {keys[j] : j \in 1..i} \ {k}
           Wrong == {i \in 0..Len(keys) : ~Good(i)}
<1>1. Len(keys) \in Nat /\ \A i \in 1..Len(keys) : keys[i] \in Keys
    OBVIOUS
<1>2. \A i \in 0..Len(keys) : g[i] = KeptBy(keys, k, g, i)
    BY DEF IsKept
<1>3. Good(0)
  <2>1. g[0] = <<>>
    BY <1>1, <1>2 DEF KeptBy
  <2> QED
    BY <2>1 DEF Range
<1>4. ASSUME NEW i \in 1..Len(keys), Good(i - 1) PROVE Good(i)
  <2>1. i \in Nat /\ i - 1 \in Nat /\ keys[i] \in Keys
    BY <1>1
  <2>2. {keys[j] : j \in 1..i} = {keys[j] : j \in 1..(i - 1)} \cup {keys[i]}
    BY <2>1
  <2>3. CASE keys[i] = k
    <3>1. g[i] = g[i - 1]
        BY <1>1, <1>2, <2>3 DEF KeptBy
    <3>2. Len(g[i]) <= i
        BY <1>4, <2>1, <3>1
    <3> QED
        BY <1>4, <2>2, <2>3, <3>1, <3>2
  <2>4. CASE keys[i] # k
    <3>1. g[i] = Append(g[i - 1], keys[i])
      <4>1. i # 0 /\ g[i] = KeptBy(keys, k, g, i)
        BY <1>1, <1>2
      <4> QED
        BY <2>4, <4>1 DEF KeptBy
    <3>2. g[i] \in Seq(Keys) /\ Len(g[i]) = Len(g[i - 1]) + 1
      <4>1. g[i - 1] \in Seq(Keys)
        BY <1>4
      <4> QED
        BY <2>1, <3>1, <4>1
    <3>3. Range(g[i]) = Range(g[i - 1]) \cup {keys[i]}
        BY <1>4, <2>1, <3>1, RangeOfAppend
    <3>4. Len(g[i]) <= i
        BY <1>4, <2>1, <3>2
    <3> QED
        BY <1>4, <2>2, <2>4, <3>2, <3>3, <3>4
  <2> QED
    BY <2>3, <2>4
<1>5. ASSUME Wrong # {} PROVE FALSE
  <2>1. PICK m \in Wrong : \A j \in Wrong : m <= j
    <3>1. Wrong \in SUBSET Nat
        BY <1>1
    <3> HIDE DEF Wrong
    <3> QED
        BY <1>5, <3>1, LeastNumber
  <2>2. m \in 1..Len(keys)
    BY <1>1, <1>3
  <2>3. m - 1 \in 0..Len(keys)
    BY <1>1, <2>2
  <2>4. m - 1 \notin Wrong
    <3>1. ~(m <= m - 1)
        BY <1>1, <2>2
    <3> HIDE DEF Wrong
    <3> QED
        BY <2>1, <3>1
  <2>5. Good(m - 1)
    BY <2>3, <2>4
  <2> HIDE DEF Good
  <2> QED
    BY <1>4, <2>1, <2>2, <2>5
<1> QED
    BY <1>5

\* Removing a key from a list keeps the others, and makes no list longer.
LEMMA WithoutSound ==
    ASSUME NEW keys \in Seq(Keys), NEW k \in Keys
    PROVE  /\ Without(keys, k) \in Seq(Keys)
           /\ Len(Without(keys, k)) <= Len(keys)
           /\ Range(Without(keys, k)) = Range(keys) \ {k}
<1> DEFINE g == CHOOSE g : IsKept(keys, k, g, Len(keys))
<1>1. Len(keys) \in Nat
    OBVIOUS
<1>2. IsKept(keys, k, g, Len(keys))
    BY <1>1, KeptExists
<1>3. Without(keys, k) = g[Len(keys)]
    BY DEF Without, IsKept, KeptBy
<1> HIDE DEF g
<1>4. /\ g[Len(keys)] \in Seq(Keys)
      /\ Len(g[Len(keys)]) <= Len(keys)
      /\ Range(g[Len(keys)]) = {keys[j] : j \in 1..Len(keys)} \ {k}
    BY <1>1, <1>2, KeptCollects
<1>5. Range(keys) = {keys[j] : j \in 1..Len(keys)}
    BY DEF Range
<1> QED
    BY <1>3, <1>4, <1>5

\* The list that is written has the new key and is no longer than the limit;
\* what it leaves out is what was beyond the limit.
LEMMA NewestSound ==
    ASSUME NEW q \in Seq(Keys), NEW k \in Keys
    PROVE  LET keys == Append(q, k)
               rest == SubSeq(keys, 1, Surplus(keys))
           IN  /\ Newest(keys) \in Seq(Keys) /\ Len(Newest(keys)) <= MaxTracked
               /\ rest \in Seq(Keys)
               /\ k \in Range(Newest(keys))
               /\ Range(q) \subseteq Range(Newest(keys)) \cup Range(rest)
<1> DEFINE keys == Append(q, k)
           N == Len(keys)
           S == Surplus(keys)
           rest == SubSeq(keys, 1, S)
           newest == Newest(keys)
<1>1. keys \in Seq(Keys) /\ N \in Nat /\ N = Len(q) + 1 /\ keys[N] = k
    OBVIOUS
<1>2. Range(keys) = Range(q) \cup {k}
    BY RangeOfAppend
<1> HIDE DEF keys
<1>3. S \in Nat /\ S < N /\ N - S <= MaxTracked
    BY <1>1, MaxTrackedAssumption DEF Surplus
<1> HIDE DEF N, S
<1>4. /\ newest \in Seq(Keys) /\ Len(newest) = N - S
      /\ \A i \in 1..(N - S) : newest[i] = keys[i + S]
  <2>1. newest = SubSeq(keys, S + 1, N)
    BY DEF Newest, N, S
  <2>2. SubSeq(keys, S + 1, N) \in Seq(Keys) /\ Len(SubSeq(keys, S + 1, N)) = N - S
    BY <1>1, <1>3 DEF N
  <2>3. \A i \in 1..(N - S) : SubSeq(keys, S + 1, N)[i] = keys[i + S]
    BY <1>1, <1>3 DEF N
  <2> QED
    BY <2>1, <2>2, <2>3
<1>5. /\ rest \in Seq(Keys) /\ Len(rest) = S
      /\ \A i \in 1..S : rest[i] = keys[i]
    BY <1>1, <1>3 DEF N
<1> HIDE DEF rest, newest
<1>6. k \in Range(newest)
  <2>1. N - S \in DOMAIN newest /\ newest[N - S] = keys[N]
    BY <1>1, <1>3, <1>4
  <2> QED
    BY <1>1, <2>1 DEF Range
<1>7. ASSUME NEW x \in Range(keys) PROVE x \in Range(newest) \cup Range(rest)
  <2>1. PICK i \in 1..N : x = keys[i]
    BY <1>1, <1>7 DEF Range, N
  <2>2. CASE i <= S
    <3>1. i \in DOMAIN rest /\ rest[i] = x
        BY <1>3, <1>5, <2>1, <2>2
    <3> QED
        BY <3>1 DEF Range
  <2>3. CASE ~(i <= S)
    <3>1. i - S \in 1..(N - S) /\ (i - S) + S = i
        BY <1>1, <1>3, <2>1, <2>3
    <3>2. i - S \in DOMAIN newest /\ newest[i - S] = x
        BY <1>4, <2>1, <3>1
    <3> QED
        BY <3>2 DEF Range
  <2> QED
    BY <2>2, <2>3
<1>8. Len(newest) <= MaxTracked
    BY <1>3, <1>4
<1> QED
    BY <1>2, <1>4, <1>5, <1>6, <1>7, <1>8 DEF keys, rest, newest, S

-----------------------------------------------------------------------------
(* The type invariant *)

\* Every step keeps the type.
LEMMA TypeKept ==
    ASSUME TypeOK, [Next]_vars
    PROVE  TypeOK'
<1> USE DEF TypeOK
<1>1. Cap \in Nat /\ 0 \in 0..Cap
    BY WindowsAssumption DEF Cap
<1>2. ASSUME NEW k \in Keys, NEW old \in Keys \cup {NoKey}, Login(k, old) PROVE TypeOK'
    BY <1>2 DEF Login, sockets
<1>3. ASSUME NEW k \in Keys, RememberRead(k) PROVE TypeOK'
    BY <1>3 DEF RememberRead, sockets
<1>4. ASSUME NEW k \in Keys, RememberWrite(k) PROVE TypeOK'
  <2> DEFINE q == Without(local[k], k)
             keys == Append(q, k)
             rest == SubSeq(keys, 1, Surplus(keys))
  <2>1. local[k] \in Seq(Keys)
    OBVIOUS
  <2>2. q \in Seq(Keys)
    BY <2>1, WithoutSound
  <2> HIDE DEF q
  <2>3. Newest(keys) \in Seq(Keys) /\ Len(Newest(keys)) <= MaxTracked /\ rest \in Seq(Keys)
    BY <2>2, NewestSound
  <2>4. /\ tracked' = Newest(keys)
        /\ lost' = lost \cup (Range(tracked) \ Range(local[k])) \cup Range(rest)
        /\ local' = [local EXCEPT ![k] = <<>>]
        /\ login' = [login EXCEPT ![k] = "done"]
        /\ UNCHANGED <<alive, logout, before, sockets, sweep, missed>>
    BY <1>4 DEF RememberWrite, SetTracked, q
  <2> HIDE DEF keys, rest
  <2>5. Range(tracked) \subseteq Keys /\ Range(rest) \subseteq Keys
    BY <2>3 DEF Range
  <2>6. lost' \subseteq Keys
    BY <2>4, <2>5
  <2>7. local' \in [Keys -> Seq(Keys)] /\ \A j \in Keys : Len(local'[j]) <= MaxTracked
    BY <2>4, MaxTrackedAssumption
  <2> QED
    BY <2>3, <2>4, <2>6, <2>7 DEF sockets
<1>5. ASSUME NEW k \in Keys, NEW everywhere \in BOOLEAN, LogoutRead(k, everywhere) PROVE TypeOK'
  <2>1. logout' \in [Keys -> LogoutSteps]
    BY <1>5 DEF LogoutRead, LogoutSteps, Everywhere
  <2> QED
    BY <1>5, <2>1 DEF LogoutRead, sockets
<1>6. ASSUME NEW k \in Keys, LogoutEnd(k) PROVE TypeOK'
  <2>1. local[k] \in Seq(Keys)
    OBVIOUS
  <2>2. Without(local[k], k) \in Seq(Keys) /\ Len(Without(local[k], k)) <= Len(local[k])
    BY <2>1, WithoutSound
  <2>3. alive' \in [Keys -> BOOLEAN]
    BY <1>6 DEF LogoutEnd
  <2>4. \E v \in LogoutSteps : logout' = [logout EXCEPT ![k] = v]
    BY <1>6 DEF LogoutEnd, LogoutSteps, Everywhere
  <2>5. /\ local' = [local EXCEPT ![k] = <<>>]
        /\ tracked' \in {<<>>, Without(local[k], k)}
        /\ lost' = lost \cup (Range(tracked) \ Range(local[k])) \cup Range(<<>>)
    BY <1>6 DEF LogoutEnd, SetTracked
  <2>6. local' \in [Keys -> Seq(Keys)] /\ \A j \in Keys : Len(local'[j]) <= MaxTracked
    BY <2>5, MaxTrackedAssumption
  <2>7. tracked' \in Seq(Keys) /\ Len(tracked') <= MaxTracked
    <3> DEFINE q == Without(local[k], k)
    <3>1. q \in Seq(Keys) /\ Len(q) \in Nat /\ Len(q) <= Len(local[k])
        BY <2>2
    <3> HIDE DEF q
    <3>2. Len(q) <= MaxTracked
        BY <2>1, <3>1, MaxTrackedAssumption
    <3>3. <<>> \in Seq(Keys) /\ Len(<<>>) <= MaxTracked
        BY MaxTrackedAssumption
    <3>4. CASE tracked' = <<>>
        BY <3>3, <3>4
    <3>5. CASE tracked' = q
        BY <3>1, <3>2, <3>5
    <3> QED
        BY <2>5, <3>4, <3>5 DEF q
  <2>8. lost' \subseteq Keys
    <3>1. Range(tracked) \subseteq Keys
        BY DEF Range
    <3>2. Range(<<>>) \subseteq Keys
        BY DEF Range
    <3> QED
        BY <2>5, <3>1, <3>2
  <2>9. UNCHANGED <<login, before, sockets, sweep, missed>>
    BY <1>6 DEF LogoutEnd
  <2> QED
    BY <2>3, <2>4, <2>6, <2>7, <2>8, <2>9 DEF sockets
<1>7. ASSUME NEW k \in Keys, LogoutClose(k) PROVE TypeOK'
  <2>1. \E v \in LogoutSteps : logout' = [logout EXCEPT ![k] = v]
    BY <1>7 DEF LogoutClose, LogoutSteps, Everywhere
  <2>2. inbox' \in [Sockets -> Seq(BOOLEAN)]
    <3>1. \A t \in Sockets : Append(inbox[t], logout[k] = "all closing") \in Seq(BOOLEAN)
        OBVIOUS
    <3> QED
        BY <1>7, <3>1 DEF LogoutClose
  <2> QED
    BY <1>7, <2>1, <2>2 DEF LogoutClose, sessions
<1>8. ASSUME NEW s \in Sockets, NEW k \in Keys, Accept(s, k) PROVE TypeOK'
    BY <1>8 DEF Accept, sessions, Phases
<1>9. ASSUME NEW s \in Sockets, Join(s) PROVE TypeOK'
    BY <1>9 DEF Join, sessions, Phases
<1>10. ASSUME NEW s \in Sockets, Register(s) PROVE TypeOK'
    BY <1>1, <1>10 DEF Register, sessions, Phases, Rows
<1>11. ASSUME NEW s \in Sockets, Receive(s) PROVE TypeOK'
    BY <1>1, <1>11 DEF Receive, sessions
<1>12. ASSUME NEW s \in Sockets, NEW closed \in BOOLEAN, UpdateConnection(s, closed)
       PROVE  row' \in [Sockets -> Rows] /\ idle' \in [Sockets -> 0..Cap]
  <2>1. row' \in [Sockets -> Rows]
    BY <1>12 DEF UpdateConnection, Rows
  <2>2. idle' \in [Sockets -> 0..Cap]
    BY <1>1, <1>12 DEF UpdateConnection
  <2> QED
    BY <2>1, <2>2
<1>13. ASSUME NEW s \in Sockets, FinishHandler(s) PROVE TypeOK'
    BY <1>12, <1>13 DEF FinishHandler, sessions
<1>14. ASSUME NEW s \in Sockets, HandleClose(s) PROVE TypeOK'
  <2>1. alive' \in [Keys -> BOOLEAN]
    BY <1>14 DEF HandleClose
  <2>2. inbox' \in [Sockets -> Seq(BOOLEAN)]
    BY <1>14 DEF HandleClose
  <2>3. phase' \in [Sockets -> Phases]
    BY <1>14 DEF HandleClose, Phases
  <2>4. missed' \subseteq Sockets
    BY <1>14 DEF HandleClose
  <2>5. row' \in [Sockets -> Rows] /\ idle' \in [Sockets -> 0..Cap]
    BY <1>12, <1>14 DEF HandleClose
  <2> QED
    BY <1>14, <2>1, <2>2, <2>3, <2>4, <2>5 DEF HandleClose
<1>15. ASSUME NEW s \in Sockets, SendClose(s) PROVE TypeOK'
    BY <1>15 DEF SendClose, sessions, Phases
<1>16. ASSUME NEW s \in Sockets, Disconnect(s) PROVE TypeOK'
  <2>1. row' \in [Sockets -> Rows] /\ idle' \in [Sockets -> 0..Cap]
    BY <1>12, <1>16 DEF Disconnect
  <2>2. phase' \in [Sockets -> Phases] /\ inbox' \in [Sockets -> Seq(BOOLEAN)]
    BY <1>16 DEF Disconnect, Phases
  <2> QED
    BY <1>16, <2>1, <2>2 DEF Disconnect, sessions
<1>17. ASSUME NEW s \in Sockets, Crash(s) PROVE TypeOK'
    BY <1>17 DEF Crash, sessions, Phases
<1>18. ASSUME SweepStart PROVE TypeOK'
    BY <1>18 DEF SweepStart, Online, sessions, sockets
<1>19. ASSUME NEW s \in Sockets, SweepSend(s) PROVE TypeOK'
  <2>1. inbox' \in [Sockets -> Seq(BOOLEAN)]
    BY <1>19 DEF SweepSend
  <2> QED
    BY <1>19, <2>1 DEF SweepSend, sessions
<1>20. ASSUME StaleJob PROVE TypeOK'
  <2>1. row' \in [Sockets -> Rows]
    BY <1>20 DEF StaleJob, Rows
  <2>2. idle' \in [Sockets -> 0..Cap]
    BY <1>1, <1>20 DEF StaleJob
  <2> QED
    BY <1>20, <2>1, <2>2 DEF StaleJob, sessions
<1>21. ASSUME Tick PROVE TypeOK'
  <2>1. \A age \in 0..Cap : Older(age) \in 0..Cap
    BY <1>1 DEF Older
  <2>2. idle' \in [Sockets -> 0..Cap] /\ quiet' \in [Sockets -> 0..Cap]
    BY <1>1, <1>21, <2>1 DEF Tick
  <2> QED
    BY <1>21, <2>2 DEF Tick, sessions
<1>22. ASSUME UNCHANGED vars PROVE TypeOK'
    BY <1>22 DEF vars, sessions, sockets
<1> QED
    BY <1>2, <1>3, <1>4, <1>5, <1>6, <1>7, <1>8, <1>9, <1>10, <1>11, <1>13, <1>14, <1>15,
       <1>16, <1>17, <1>18, <1>19, <1>20, <1>21, <1>22 DEF Next, SessionStep, SocketStep

-----------------------------------------------------------------------------
(* The list and the sessions *)

\* A login that cycles or makes a session touches no session whose login is done.
LEMMA LoginKeeps ==
    ASSUME SessionsInv, NEW k \in Keys, NEW old \in Keys \cup {NoKey}, Login(k, old)
    PROVE  (KeysUsedOnce /\ LogoutsReadEverything /\ SessionsAreTracked
                /\ LogoutEverywhereEndsSessions)'
<1> USE DEF SessionsInv, TypeOK
<1>1. /\ login[k] = "none"
      /\ \A j \in Keys : alive'[j] /\ j # k => alive[j]
      /\ \A j \in Keys : j # k => login'[j] = login[j]
      /\ login'[k] = "read"
      /\ UNCHANGED <<logout, local, tracked, before, lost>>
    BY DEF Login
<1>2. \A j, i \in Keys : j \in before[i] => login[j] = "done" /\ j # k
    BY <1>1 DEF KeysUsedOnce
<1>3. KeysUsedOnce'
    BY <1>1, <1>2 DEF KeysUsedOnce
<1>4. LogoutsReadEverything'
    BY <1>1, <1>2 DEF LogoutsReadEverything
<1>5. SessionsAreTracked'
    BY <1>1 DEF SessionsAreTracked
<1>6. LogoutEverywhereEndsSessions'
    BY <1>1, <1>2 DEF LogoutEverywhereEndsSessions
<1> QED
    BY <1>3, <1>4, <1>5, <1>6

\* What a login reads is the list, which has every session that is not lost.
LEMMA RememberReadKeeps ==
    ASSUME SessionsInv, NEW k \in Keys, RememberRead(k)
    PROVE  (KeysUsedOnce /\ LogoutsReadEverything /\ SessionsAreTracked
                /\ LogoutEverywhereEndsSessions)'
<1> USE DEF SessionsInv, TypeOK
<1>1. /\ login[k] = "read"
      /\ login' = [login EXCEPT ![k] = "write"]
      /\ \A j \in Keys \ {k} : local'[j] = local[j]
      /\ UNCHANGED <<alive, logout, tracked, before, lost>>
    BY DEF RememberRead
<1>2. logout[k] = "none"
    BY <1>1 DEF KeysUsedOnce
<1>3. KeysUsedOnce'
    BY <1>1 DEF KeysUsedOnce
<1>4. LogoutsReadEverything'
    BY <1>1, <1>2 DEF LogoutsReadEverything
<1>5. SessionsAreTracked'
    BY <1>1 DEF SessionsAreTracked
<1>6. LogoutEverywhereEndsSessions'
    BY <1>1 DEF LogoutEverywhereEndsSessions
<1> QED
    BY <1>3, <1>4, <1>5, <1>6

\* What a login writes back has what it read and the new key, or counts it as
\* lost.
LEMMA RememberWriteKeeps ==
    ASSUME SessionsInv, NEW k \in Keys, RememberWrite(k)
    PROVE  (KeysUsedOnce /\ LogoutsReadEverything /\ SessionsAreTracked
                /\ LogoutEverywhereEndsSessions)'
<1> USE DEF SessionsInv, TypeOK
<1> DEFINE q == Without(local[k], k)
           keys == Append(q, k)
           rest == SubSeq(keys, 1, Surplus(keys))
<1>1. local[k] \in Seq(Keys)
    OBVIOUS
<1>2. q \in Seq(Keys) /\ Range(q) = Range(local[k]) \ {k}
    BY <1>1, WithoutSound
<1>3. /\ login[k] = "write"
      /\ login' = [login EXCEPT ![k] = "done"]
      /\ tracked' = Newest(keys)
      /\ lost' = lost \cup (Range(tracked) \ Range(local[k])) \cup Range(rest)
      /\ \A j \in Keys \ {k} : local'[j] = local[j]
      /\ UNCHANGED <<alive, logout, before>>
    BY DEF RememberWrite, SetTracked
<1> HIDE DEF q
<1>4. /\ k \in Range(Newest(keys))
      /\ Range(q) \subseteq Range(Newest(keys)) \cup Range(rest)
    BY <1>2, NewestSound
<1> HIDE DEF keys, rest
<1>5. logout[k] = "none"
    BY <1>3 DEF KeysUsedOnce
<1>6. KeysUsedOnce'
    BY <1>3 DEF KeysUsedOnce
<1>7. LogoutsReadEverything'
    BY <1>3, <1>5 DEF LogoutsReadEverything
<1>8. SessionsAreTracked'
  <2> SUFFICES ASSUME NEW j \in Keys, alive[j], login'[j] = "done"
               PROVE  j \in Range(tracked') \cup lost'
    BY <1>3 DEF SessionsAreTracked
  <2>1. CASE j = k
    BY <1>3, <1>4, <2>1
  <2>2. CASE j # k
    <3>1. j \in Range(tracked) \cup lost
        BY <1>3, <2>2 DEF SessionsAreTracked
    <3> QED
        BY <1>2, <1>3, <1>4, <2>2, <3>1
  <2> QED
    BY <2>1, <2>2
<1>9. LogoutEverywhereEndsSessions'
    BY <1>3 DEF LogoutEverywhereEndsSessions
<1> QED
    BY <1>6, <1>7, <1>8, <1>9

\* A logout reads the list when it begins: every session there is is in it, or
\* lost.
LEMMA LogoutReadKeeps ==
    ASSUME SessionsInv, NEW k \in Keys, NEW everywhere \in BOOLEAN, LogoutRead(k, everywhere)
    PROVE  (KeysUsedOnce /\ LogoutsReadEverything /\ SessionsAreTracked
                /\ LogoutEverywhereEndsSessions)'
<1> USE DEF SessionsInv, TypeOK
<1>1. /\ login[k] = "done"
      /\ logout'[k] \in {"all read", "own read"}
      /\ local'[k] = tracked
      /\ before'[k] = {j \in Keys : everywhere /\ alive[j] /\ login[j] = "done"}
      /\ \A j \in Keys \ {k} : /\ logout'[j] = logout[j]
                               /\ local'[j] = local[j]
                               /\ before'[j] = before[j]
      /\ UNCHANGED <<alive, login, tracked, lost>>
    BY DEF LogoutRead
<1>2. KeysUsedOnce'
    BY <1>1 DEF KeysUsedOnce
<1>3. LogoutsReadEverything'
  <2> SUFFICES ASSUME NEW i \in Keys, logout'[i] = "all read", NEW j \in before'[i]
               PROVE  ~alive[j] \/ j \in Range(local'[i]) \cup lost
    BY <1>1 DEF LogoutsReadEverything
  <2>1. CASE i = k
    BY <1>1, <2>1 DEF SessionsAreTracked
  <2>2. CASE i # k
    BY <1>1, <2>2 DEF LogoutsReadEverything
  <2> QED
    BY <2>1, <2>2
<1>4. SessionsAreTracked'
    BY <1>1 DEF SessionsAreTracked
<1>5. LogoutEverywhereEndsSessions'
  <2> SUFFICES ASSUME NEW i \in Keys, logout'[i] \in {"all closing", "all done"}, NEW j \in before'[i]
               PROVE  ~alive[j] \/ j \in lost
    BY <1>1 DEF LogoutEverywhereEndsSessions
  <2>1. i # k
    BY <1>1
  <2> QED
    BY <1>1, <2>1 DEF LogoutEverywhereEndsSessions
<1> QED
    BY <1>2, <1>3, <1>4, <1>5

\* A logout ends every session it has read before it drops their keys.
LEMMA LogoutEndKeeps ==
    ASSUME SessionsInv, NEW k \in Keys, LogoutEnd(k)
    PROVE  (KeysUsedOnce /\ LogoutsReadEverything /\ SessionsAreTracked
                /\ LogoutEverywhereEndsSessions)'
<1> USE DEF SessionsInv, TypeOK
<1> DEFINE q == Without(local[k], k)
<1>1. Range(q) = Range(local[k]) \ {k}
    BY WithoutSound
<1> HIDE DEF q
<1>2. /\ logout[k] \in {"all read", "own read"}
      /\ \A j \in Keys : alive'[j] <=> alive[j] /\ j \notin Ended(k)
      /\ \A j \in Keys \ {k} : logout'[j] = logout[j] /\ local'[j] = local[j]
      /\ lost' = lost \cup (Range(tracked) \ Range(local[k])) \cup Range(<<>>)
      /\ UNCHANGED <<login, before>>
    BY DEF LogoutEnd, SetTracked
<1>3. lost \subseteq lost'
    BY <1>2
<1>4. k \in Ended(k)
    BY DEF Ended
<1>5. login[k] = "done"
    BY <1>2 DEF KeysUsedOnce
<1>6. KeysUsedOnce'
    BY <1>2, <1>5 DEF KeysUsedOnce
<1>7. /\ logout[k] = "all read" => logout'[k] = "all closing" /\ Ended(k) = Range(local[k]) \cup {k}
      /\ logout[k] = "own read" => logout'[k] = "own closing" /\ tracked' = q
    BY DEF LogoutEnd, SetTracked, Ended, q
<1>8. LogoutsReadEverything'
  <2> SUFFICES ASSUME NEW i \in Keys, logout'[i] = "all read", NEW j \in before[i], alive'[j]
               PROVE  j \in Range(local'[i]) \cup lost'
    BY <1>2 DEF LogoutsReadEverything
  <2>1. i # k
    BY <1>2, <1>7
  <2>2. j \in Keys
    OBVIOUS
  <2> QED
    BY <1>2, <1>3, <2>1, <2>2 DEF LogoutsReadEverything
<1>9. SessionsAreTracked'
  <2> SUFFICES ASSUME NEW j \in Keys, alive'[j], login[j] = "done"
               PROVE  j \in Range(tracked') \cup lost'
    BY <1>2 DEF SessionsAreTracked
  <2>1. alive[j] /\ j \notin Ended(k) /\ j # k
    BY <1>2, <1>4
  <2>2. j \in Range(tracked) \cup lost
    BY <2>1 DEF SessionsAreTracked
  <2>3. CASE j \in Range(local[k])
    <3>1. logout[k] = "own read" /\ tracked' = q
        BY <1>2, <1>7, <2>1, <2>3
    <3> QED
        BY <1>1, <2>1, <2>3, <3>1
  <2>4. CASE j \notin Range(local[k])
    BY <1>2, <2>2, <2>4
  <2> QED
    BY <2>3, <2>4
<1>10. LogoutEverywhereEndsSessions'
  <2> SUFFICES ASSUME NEW i \in Keys, logout'[i] \in {"all closing", "all done"},
                      NEW j \in before[i], alive'[j]
               PROVE  j \in lost'
    BY <1>2 DEF LogoutEverywhereEndsSessions
  <2>1. j \in Keys /\ alive[j] /\ j \notin Ended(k)
    BY <1>2
  <2>2. CASE i # k
    BY <1>2, <1>3, <2>1, <2>2 DEF LogoutEverywhereEndsSessions
  <2>3. CASE i = k
    BY <1>2, <1>3, <1>7, <2>1, <2>3 DEF LogoutsReadEverything
  <2> QED
    BY <2>2, <2>3
<1> QED
    BY <1>6, <1>8, <1>9, <1>10

\* A step that ends sessions and makes none, and leaves the list and the
\* requests alone, or moves a logout that has ended its sessions.
LEMMA EndingKeeps ==
    ASSUME SessionsInv,
           \A j \in Keys : alive'[j] => alive[j],
           UNCHANGED <<login, local, tracked, before, lost>>,
           \A k \in Keys : \/ logout'[k] = logout[k]
                           \/ logout[k] = "all closing" /\ logout'[k] = "all done"
                           \/ logout[k] = "own closing" /\ logout'[k] = "own done"
    PROVE  (KeysUsedOnce /\ LogoutsReadEverything /\ SessionsAreTracked
                /\ LogoutEverywhereEndsSessions)'
<1> USE DEF SessionsInv, TypeOK
<1>1. KeysUsedOnce'
    BY DEF KeysUsedOnce
<1>2. LogoutsReadEverything'
    BY DEF LogoutsReadEverything
<1>3. SessionsAreTracked'
    BY DEF SessionsAreTracked
<1>4. LogoutEverywhereEndsSessions'
    BY DEF LogoutEverywhereEndsSessions
<1> QED
    BY <1>1, <1>2, <1>3, <1>4

\* Every step keeps the invariant of the list and the sessions.
LEMMA SessionsKept ==
    ASSUME SessionsInv, [Next]_vars
    PROVE  SessionsInv'
<1>1. TypeOK /\ TypeOK'
    BY TypeKept DEF SessionsInv
<1>2. CASE SessionStep
  <2>1. ASSUME NEW k \in Keys, LogoutClose(k) PROVE SessionsInv'
    <3>1. /\ UNCHANGED <<alive, login, local, tracked, before, lost>>
          /\ \A j \in Keys : \/ logout'[j] = logout[j]
                             \/ logout[j] = "all closing" /\ logout'[j] = "all done"
                             \/ logout[j] = "own closing" /\ logout'[j] = "own done"
      <4>1. /\ logout[k] \in {"all closing", "own closing"}
            /\ logout'[k] = IF logout[k] = "all closing" THEN "all done" ELSE "own done"
            /\ \A j \in Keys \ {k} : logout'[j] = logout[j]
        BY <1>1, <2>1 DEF LogoutClose, TypeOK
      <4> QED
        BY <2>1, <4>1 DEF LogoutClose
    <3> QED
        BY <1>1, <3>1, EndingKeeps DEF SessionsInv
  <2> QED
    BY <1>1, <1>2, <2>1, LoginKeeps, RememberReadKeeps, RememberWriteKeeps, LogoutReadKeeps,
       LogoutEndKeeps DEF SessionStep, SessionsInv
<1>3. CASE SocketStep \/ SweepStart \/ (\E s \in Sockets : SweepSend(s)) \/ StaleJob \/ Tick
           \/ UNCHANGED vars
  <2>1. ASSUME NEW s \in Sockets, HandleClose(s) PROVE SessionsInv'
    <3>1. /\ \A j \in Keys : alive'[j] => alive[j]
          /\ UNCHANGED <<login, logout, local, tracked, before, lost>>
        BY <1>1, <2>1 DEF HandleClose, TypeOK
    <3> QED
        BY <1>1, <3>1, EndingKeeps DEF SessionsInv
  <2>2. ASSUME UNCHANGED sessions PROVE SessionsInv'
    <3>1. UNCHANGED <<alive, login, logout, local, tracked, before, lost>>
        BY <2>2 DEF sessions
    <3> QED
        BY <1>1, <3>1, EndingKeeps DEF SessionsInv
  <2>3. (\E s \in Sockets : HandleClose(s)) \/ UNCHANGED sessions
    BY <1>3 DEF SocketStep, Accept, Join, Register, Receive, FinishHandler, SendClose,
       Disconnect, Crash, SweepStart, SweepSend, StaleJob, Tick, vars
  <2> QED
    BY <2>1, <2>2, <2>3
<1> QED
    BY <1>2, <1>3 DEF Next

\* The invariant holds in the first state.
LEMMA SessionsBegin == Init => SessionsInv
<1> SUFFICES ASSUME Init PROVE SessionsInv
    OBVIOUS
<1>1. Cap \in Nat /\ 0 \in 0..Cap /\ MaxTracked \in Nat
    BY WindowsAssumption, MaxTrackedAssumption DEF Cap
<1>2. TypeOK
    BY <1>1 DEF Init, TypeOK, LogoutSteps, Phases, Rows
<1>3. KeysUsedOnce /\ LogoutsReadEverything /\ SessionsAreTracked /\ LogoutEverywhereEndsSessions
    BY DEF Init, KeysUsedOnce, LogoutsReadEverything, SessionsAreTracked,
       LogoutEverywhereEndsSessions
<1> QED
    BY <1>2, <1>3 DEF SessionsInv

\* In every reachable state the list and the copies of it account for every
\* session there is.
THEOREM SessionsInvariant == Spec => []SessionsInv
<1>1. SessionsInv /\ [Next]_vars => SessionsInv'
    BY SessionsKept
<1> QED
    BY <1>1, SessionsBegin, PTL DEF Spec

\* remember_session, forget_session and end_tracked_sessions, in whatever order
\* the requests of a user read and write the list: a logout everywhere finds
\* every session whose key was not overwritten or pushed out.
THEOREM LogoutsReachSessions == Spec => []EverySessionIsReached
<1>1. SessionsInv => EverySessionIsReached
    BY DEF SessionsInv, EverySessionIsReached
<1> QED
    BY <1>1, SessionsInvariant, PTL

-----------------------------------------------------------------------------
(* The sockets and the closes *)

\* A step that ends no session, takes no close away and moves no logout past
\* its closes keeps what is said of a socket that stays as it is.
LEMMA SocketKeeps ==
    ASSUME NEW s \in Sockets, SocketInv(s),
           UNCHANGED sess[s], phase'[s] = phase[s] \/ (phase[s] = "joined" /\ phase'[s] = "open"),
           phase[s] # "new" => (alive[sess[s]] => alive'[sess[s]]),
           missed \subseteq missed',
           inbox[s] # <<>> => inbox'[s] # <<>>,
           \A k \in Keys : /\ logout[k] = "all closing" => logout'[k] = "all closing"
                           /\ logout[k] = "own closing" => logout'[k] = "own closing"
    PROVE  SocketInv(s)'
    BY DEF SocketInv, CloseComes

\* A close that is sent is in the inbox.
LEMMA AppendedNotEmpty ==
    ASSUME NEW q \in Seq(BOOLEAN), NEW flush \in BOOLEAN
    PROVE  Append(q, flush) # <<>>
<1>1. Len(Append(q, flush)) = Len(q) + 1 /\ Len(q) \in Nat
    OBVIOUS
<1>2. Len(<<>>) = 0
    OBVIOUS
<1> QED
    BY <1>1, <1>2

\* Every step keeps the invariant of the sockets.
LEMMA SocketsKept ==
    ASSUME TypeOK, SocketsInv, [Next]_vars
    PROVE  SocketsInv'
<1> USE DEF TypeOK
<1> SUFFICES ASSUME NEW s \in Sockets PROVE SocketInv(s)'
    BY DEF SocketsInv
<1>1. SocketInv(s)
    BY DEF SocketsInv
<1>2. ASSUME NEW k \in Keys, NEW old \in Keys \cup {NoKey}, Login(k, old) PROVE SocketInv(s)'
  <2>1. /\ \A j \in Keys \ {old} : alive[j] => alive'[j]
        /\ missed' = missed \cup {t \in Sockets : sess[t] = old /\ old # NoKey}
        /\ UNCHANGED <<logout, phase, sess, inbox>>
    BY <1>2 DEF Login, sockets
  <2>2. CASE sess[s] = old /\ old # NoKey
    BY <1>1, <2>1, <2>2 DEF SocketInv, CloseComes
  <2>3. CASE ~(sess[s] = old /\ old # NoKey)
    <3>1. phase[s] # "new" => sess[s] \in Keys \ {old}
        BY <1>1, <2>3, NoKeyAssumption DEF SocketInv
    <3> QED
        BY <1>1, <2>1, <3>1, SocketKeeps
  <2> QED
    BY <2>2, <2>3
<1>3. ASSUME NEW k \in Keys, LogoutEnd(k) PROVE SocketInv(s)'
  <2>1. /\ logout[k] \in {"all read", "own read"}
        /\ alive' = [j \in Keys |-> alive[j] /\ j \notin Ended(k)]
        /\ logout[k] = "all read" => logout'[k] = "all closing"
        /\ logout[k] = "own read" => logout'[k] = "own closing"
        /\ \A j \in Keys \ {k} : logout'[j] = logout[j]
        /\ UNCHANGED <<phase, sess, inbox, missed>>
    BY <1>3 DEF LogoutEnd, sockets
  <2>2. CASE logout[k] = "all read"
    BY <1>1, <2>1, <2>2 DEF SocketInv, CloseComes
  <2>3. CASE logout[k] = "own read"
    <3>1. CASE sess[s] = k
        BY <1>1, <2>1, <2>3, <3>1 DEF SocketInv, CloseComes
    <3>2. CASE sess[s] # k
        <4>1. phase[s] # "new" => (alive[sess[s]] => alive'[sess[s]])
            BY <1>1, <2>1, <2>3, <3>2 DEF SocketInv, Ended
        <4> QED
            BY <1>1, <2>1, <4>1, SocketKeeps
    <3> QED
        BY <3>1, <3>2
  <2> QED
    BY <2>1, <2>2, <2>3
<1>4. ASSUME NEW k \in Keys, LogoutClose(k) PROVE SocketInv(s)'
  <2> DEFINE told == Append(inbox[s], logout[k] = "all closing")
  <2>1. /\ logout[k] \in {"all closing", "own closing"}
        /\ inbox'[s] = IF s \in Closed(k) THEN told ELSE inbox[s]
        /\ \A j \in Keys \ {k} : logout'[j] = logout[j]
        /\ UNCHANGED <<alive, phase, sess, missed>>
    BY <1>4 DEF LogoutClose
  <2>2. told # <<>>
    BY AppendedNotEmpty
  <2> HIDE DEF told
  <2>3. CASE s \in Closed(k)
    BY <1>1, <2>1, <2>2, <2>3 DEF SocketInv, CloseComes
  <2>4. CASE s \notin Closed(k)
    <3>1. inbox'[s] = inbox[s]
        BY <2>1, <2>4
    <3>2. CASE phase[s] \notin {"joined", "open"}
        BY <1>1, <2>1, <3>2 DEF SocketInv
    <3>3. CASE phase[s] \in {"joined", "open"}
        <4>1. s \in Reachable
            BY <3>3 DEF Reachable
        <4>2. logout[k] = "own closing" /\ sess[s] # k
            BY <2>1, <2>4, <4>1 DEF Closed, UserGroup, SessionGroup
        <4>3. sess[s] \in Keys
            BY <1>1, <3>3 DEF SocketInv
        <4>4. CloseComes(s) => CloseComes(s)'
            BY <2>1, <3>1, <4>2, <4>3 DEF CloseComes
        <4> QED
            BY <1>1, <2>1, <4>4 DEF SocketInv
    <3> QED
        BY <3>2, <3>3
  <2> QED
    BY <2>3, <2>4
<1>5. ASSUME NEW t \in Sockets, NEW k \in Keys, Accept(t, k) PROVE SocketInv(s)'
  <2>1. CASE s = t
    BY <1>5, <2>1 DEF Accept, SocketInv
  <2>2. CASE s # t
    BY <1>1, <1>5, <2>2, SocketKeeps DEF Accept, sessions
  <2> QED
    BY <2>1, <2>2
<1>6. ASSUME NEW t \in Sockets, Join(t) PROVE SocketInv(s)'
  <2>1. CASE s = t
    BY <1>1, <1>6, <2>1 DEF Join, SocketInv, sessions
  <2>2. CASE s # t
    BY <1>1, <1>6, <2>2, SocketKeeps DEF Join, sessions
  <2> QED
    BY <2>1, <2>2
<1>7. ASSUME NEW t \in Sockets, Register(t) PROVE SocketInv(s)'
    BY <1>1, <1>7, SocketKeeps DEF Register, sessions
<1>8. ASSUME NEW t \in Sockets, HandleClose(t) PROVE SocketInv(s)'
  <2>1. /\ phase[t] \in {"open", "closing", "closed"}
        /\ phase'[t] \in {"closing", "closed"}
        /\ \A u \in Sockets \ {t} : phase'[u] = phase[u] /\ inbox'[u] = inbox[u]
        /\ alive' = [alive EXCEPT ![sess[t]] = @ /\ ~Flushes(t)]
        /\ UNCHANGED <<logout, sess>>
    BY <1>8 DEF HandleClose, Dispatching
  <2>2. missed' = IF Flushes(t) /\ alive[sess[t]]
                  THEN missed \cup {u \in Sockets \ {t} : sess[u] = sess[t] /\ inbox[u] = <<>>}
                  ELSE missed
    BY <1>8 DEF HandleClose
  <2>3. CASE s = t
    BY <1>1, <2>1, <2>3 DEF SocketInv
  <2>4. CASE s # t
    <3>1. CASE sess[s] = sess[t] /\ inbox[s] = <<>>
        <4>1. CASE Flushes(t) /\ alive[sess[t]]
            <5>1. s \in missed'
                BY <2>2, <2>4, <3>1, <4>1
            <5> QED
                BY <1>1, <2>1, <2>4, <5>1 DEF SocketInv
        <4>2. CASE ~(Flushes(t) /\ alive[sess[t]])
            <5>1. phase[s] # "new" => (alive[sess[s]] => alive'[sess[s]])
                BY <1>1, <2>1, <3>1, <4>2 DEF SocketInv
            <5>2. missed' = missed
                BY <2>2, <4>2
            <5> QED
                BY <1>1, <2>1, <2>4, <5>1, <5>2, SocketKeeps
        <4> QED
            BY <4>1, <4>2
    <3>2. CASE inbox[s] # <<>>
        BY <1>1, <2>1, <2>4, <3>2 DEF SocketInv, CloseComes
    <3>3. CASE sess[s] # sess[t]
        <4>1. phase[s] # "new" => (alive[sess[s]] => alive'[sess[s]])
            BY <1>1, <2>1, <3>3 DEF SocketInv
        <4>2. missed \subseteq missed'
            BY <2>2
        <4> QED
            BY <1>1, <2>1, <2>4, <4>1, <4>2, SocketKeeps
    <3> QED
        BY <3>1, <3>2, <3>3
  <2> QED
    BY <2>3, <2>4
<1>9. ASSUME NEW t \in Sockets, SendClose(t) \/ Disconnect(t) \/ Crash(t) PROVE SocketInv(s)'
  <2>1. /\ UNCHANGED <<alive, logout, sess, missed>>
        /\ \A u \in Sockets \ {t} : phase'[u] = phase[u] /\ inbox'[u] = inbox[u]
        /\ phase[t] # "new" /\ phase'[t] \in {"closed", "left", "gone"}
    BY <1>9 DEF SendClose, Disconnect, Crash, Dispatching, sessions
  <2>2. CASE s = t
    BY <1>1, <2>1, <2>2 DEF SocketInv
  <2>3. CASE s # t
    BY <1>1, <2>1, <2>3, SocketKeeps
  <2> QED
    BY <2>2, <2>3
<1>10. ASSUME NEW t \in Sockets, SweepSend(t) PROVE SocketInv(s)'
  <2>1. inbox[s] # <<>> => inbox'[s] # <<>>
    <3>1. Append(inbox[s], FALSE) # <<>>
        BY AppendedNotEmpty
    <3> QED
        BY <1>10, <3>1 DEF SweepSend
  <2> QED
    BY <1>1, <1>10, <2>1, SocketKeeps DEF SweepSend, sessions
<1>11. ASSUME UNCHANGED <<alive, phase, sess, inbox, missed>>,
              UNCHANGED logout \/ \E k \in Keys, everywhere \in BOOLEAN : LogoutRead(k, everywhere)
       PROVE  SocketInv(s)'
  <2>1. \A k \in Keys : /\ logout[k] = "all closing" => logout'[k] = "all closing"
                        /\ logout[k] = "own closing" => logout'[k] = "own closing"
    BY <1>11 DEF LogoutRead
  <2> QED
    BY <1>1, <1>11, <2>1, SocketKeeps
<1>12. CASE SessionStep
    BY <1>2, <1>3, <1>4, <1>11, <1>12 DEF SessionStep, RememberRead, RememberWrite, LogoutRead, sockets
<1>13. CASE SocketStep
    BY <1>5, <1>6, <1>7, <1>8, <1>9, <1>11, <1>13 DEF SocketStep, Receive, FinishHandler, sessions
<1>14. CASE SweepStart \/ StaleJob \/ Tick \/ UNCHANGED vars
    BY <1>11, <1>14 DEF SweepStart, StaleJob, Tick, vars, sessions, sockets
<1> QED
    BY <1>10, <1>12, <1>13, <1>14 DEF Next

\* In every reachable state a close comes to every socket whose session has
\* ended, unless no close could reach it.
THEOREM SocketsInvariant == Spec => [](TypeOK /\ SocketsInv)
<1>1. Init => TypeOK /\ SocketsInv
  <2> SUFFICES ASSUME Init PROVE TypeOK /\ SocketsInv
    OBVIOUS
  <2> QED
    BY SessionsBegin DEF Init, SessionsInv, SocketsInv, SocketInv
<1>2. TypeOK /\ SocketsInv /\ [Next]_vars => (TypeOK /\ SocketsInv)'
    BY TypeKept, SocketsKept
<1> QED
    BY <1>1, <1>2, PTL DEF Spec

\* close_user_connections, close_session_connections and the consumer's close
\* handler: no socket that a close could reach runs on when its session has
\* ended, for any number of sockets of any number of sessions.
THEOREM SocketsFollowSessions == Spec => []NoSocketOutlivesSession
<1>1. SocketsInv => NoSocketOutlivesSession
    BY DEF SocketsInv, SocketInv, CloseComes, NoSocketOutlivesSession
<1> QED
    BY <1>1, SocketsInvariant, PTL

-----------------------------------------------------------------------------
(* The rows *)

\* What the windows are to each other.
LEMMA Windows ==
    /\ Cap \in Nat /\ UpdateInterval \in Nat /\ OnlineWindow \in Nat /\ StaleWindow \in Nat
    /\ UpdateInterval < StaleWindow /\ OnlineWindow =< StaleWindow /\ StaleWindow < Cap
    BY WindowsAssumption DEF Cap

\* A handler that is done leaves the row as fresh as the message, or written
\* within the throttle.
LEMMA FinishFollows ==
    ASSUME TypeOK, NEW s \in Sockets, RowFollows(s), FinishHandler(s)
    PROVE  RowFollows(s)'
<1> USE Windows DEF TypeOK
<1>1. idle[s] \in Nat /\ quiet[s] \in Nat
    OBVIOUS
<1>2. UNCHANGED <<phase, quiet>>
    BY DEF FinishHandler
<1>3. CASE idle[s] > UpdateInterval
  <2>1. idle'[s] = 0 /\ row'[s] = IF row[s] = "purged" THEN "purged" ELSE "open"
    BY <1>3 DEF FinishHandler, UpdateConnection
  <2>2. idle'[s] =< quiet'[s] + UpdateInterval
    BY <1>1, <1>2, <2>1
  <2> QED
    BY <2>1, <2>2 DEF RowFollows
<1>4. CASE ~(idle[s] > UpdateInterval)
  <2>1. UNCHANGED <<row, idle>>
    BY <1>4 DEF FinishHandler, UpdateConnection
  <2>2. idle'[s] =< quiet'[s] + UpdateInterval
    BY <1>1, <1>2, <1>4, <2>1
  <2> QED
    BY <1>2, <2>1, <2>2 DEF RowFollows
<1> QED
    BY <1>3, <1>4

\* The job closes only rows that are stale, and changes the age of none it
\* leaves in the table.
LEMMA StaleJobFollows ==
    ASSUME TypeOK, NEW s \in Sockets, RowFollows(s), StaleJob
    PROVE  RowFollows(s)'
<1> USE DEF TypeOK
<1>1. /\ row'[s] = IF s \in Stale(StaleWindow) \/ row[s] = "closed"
                   THEN IF idle[s] > Retention THEN "purged" ELSE "closed"
                   ELSE row[s]
      /\ idle'[s] = IF row'[s] = "purged" THEN 0 ELSE idle[s]
      /\ UNCHANGED <<phase, quiet, handling>>
    BY DEF StaleJob
<1>2. s \in Stale(StaleWindow) <=> row[s] = "open" /\ idle[s] >= StaleWindow
    BY DEF Stale
<1>3. ASSUME row'[s] # "purged" PROVE row[s] # "purged" /\ idle'[s] = idle[s]
    BY <1>1, <1>2, <1>3
<1>4. ASSUME phase[s] = "open" PROVE row'[s] # "none"
    BY <1>1, <1>4 DEF RowFollows
<1>5. ASSUME phase[s] = "open", row'[s] = "closed" PROVE idle'[s] >= StaleWindow
  <2>1. idle'[s] = idle[s]
    BY <1>3, <1>5
  <2>2. CASE row[s] = "closed"
    BY <1>5, <2>1, <2>2 DEF RowFollows
  <2>3. CASE row[s] # "closed"
    BY <1>1, <1>2, <1>5, <2>1, <2>3
  <2> QED
    BY <2>2, <2>3
<1> QED
    BY <1>1, <1>3, <1>4, <1>5 DEF RowFollows

\* A tick ages the row and the silence of an open socket alike.
LEMMA TickFollows ==
    ASSUME TypeOK, NEW s \in Sockets, RowFollows(s), Tick
    PROVE  RowFollows(s)'
<1> USE Windows DEF TypeOK
<1>1. idle[s] \in 0..Cap /\ quiet[s] \in 0..Cap
    OBVIOUS
<1>2. /\ idle'[s] = IF row[s] \in {"open", "closed"} THEN Older(idle[s]) ELSE idle[s]
      /\ phase[s] = "open" => quiet'[s] = Older(quiet[s])
      /\ UNCHANGED <<phase, row, handling>>
    BY DEF Tick
<1>3. /\ idle'[s] >= idle[s] /\ idle'[s] =< idle[s] + 1
      /\ phase[s] = "open" => quiet'[s] = Cap \/ (quiet[s] # Cap /\ quiet'[s] = quiet[s] + 1)
  <2>1. \A age \in 0..Cap : /\ Older(age) >= age /\ Older(age) =< age + 1
                            /\ Older(age) = Cap \/ (age # Cap /\ Older(age) = age + 1)
    BY DEF Older
  <2> QED
    BY <1>1, <1>2, <2>1
<1>4. idle'[s] \in Nat
  <2>1. \A age \in 0..Cap : Older(age) \in Nat
    BY DEF Older
  <2> QED
    BY <1>1, <1>2, <2>1
<1>5. SUFFICES ASSUME phase[s] = "open"
      PROVE  /\ row'[s] # "none"
             /\ row'[s] = "closed" => idle'[s] >= StaleWindow
             /\ s \notin handling /\ row'[s] # "purged" =>
                    quiet'[s] = Cap \/ idle'[s] =< quiet'[s] + UpdateInterval
    BY <1>2 DEF RowFollows
<1>6. row'[s] = row[s] /\ row[s] # "none"
    BY <1>2, <1>5 DEF RowFollows
<1>7. ASSUME row'[s] = "closed" PROVE idle'[s] >= StaleWindow
  <2>1. idle[s] >= StaleWindow
    BY <1>5, <1>6, <1>7 DEF RowFollows
  <2> QED
    BY <1>1, <1>3, <1>4, <2>1
<1>8. ASSUME s \notin handling, row'[s] # "purged"
      PROVE  quiet'[s] = Cap \/ idle'[s] =< quiet'[s] + UpdateInterval
  <2>1. quiet[s] = Cap \/ idle[s] =< quiet[s] + UpdateInterval
    BY <1>5, <1>6, <1>8 DEF RowFollows
  <2> QED
    BY <1>1, <1>3, <1>4, <1>5, <2>1
<1> QED
    BY <1>6, <1>7, <1>8

\* Every step keeps the invariant of the rows.
LEMMA RowsKept ==
    ASSUME RowsInv, [Next]_vars
    PROVE  RowsInv'
<1> USE DEF TypeOK
<1>1. TypeOK /\ TypeOK'
    BY TypeKept DEF RowsInv
<1> SUFFICES ASSUME NEW s \in Sockets PROVE RowFollows(s)'
    BY <1>1 DEF RowsInv
<1>2. RowFollows(s)
    BY DEF RowsInv
<1>3. ASSUME UNCHANGED <<phase[s], row[s], idle[s], quiet[s]>>, s \in handling' <=> s \in handling
      PROVE  RowFollows(s)'
    BY <1>2, <1>3 DEF RowFollows
<1>4. ASSUME phase'[s] # "open" PROVE RowFollows(s)'
    BY <1>4 DEF RowFollows
<1>5. CASE SessionStep
    BY <1>3, <1>5 DEF SessionStep, Login, RememberRead, RememberWrite, LogoutRead, LogoutEnd,
       LogoutClose, sockets
<1>6. ASSUME NEW t \in Sockets, NEW k \in Keys, Accept(t, k) PROVE RowFollows(s)'
    BY <1>1, <1>3, <1>4, <1>6 DEF Accept
<1>7. ASSUME NEW t \in Sockets, Join(t) PROVE RowFollows(s)'
    BY <1>1, <1>3, <1>4, <1>7 DEF Join
<1>8. ASSUME NEW t \in Sockets, Register(t) PROVE RowFollows(s)'
  <2>1. CASE s = t
    <3>1. row'[s] = "open" /\ idle'[s] = 0 /\ quiet'[s] = 0
        BY <1>1, <1>8, <2>1 DEF Register
    <3> QED
        BY <3>1, Windows DEF RowFollows
  <2>2. CASE s # t
    BY <1>1, <1>3, <1>8, <2>2 DEF Register
  <2> QED
    BY <2>1, <2>2
<1>9. ASSUME NEW t \in Sockets, Receive(t) PROVE RowFollows(s)'
  <2>1. CASE s = t
    BY <1>1, <1>2, <1>9, <2>1 DEF Receive, RowFollows
  <2>2. CASE s # t
    BY <1>1, <1>3, <1>9, <2>2 DEF Receive
  <2> QED
    BY <2>1, <2>2
<1>10. ASSUME NEW t \in Sockets, FinishHandler(t) PROVE RowFollows(s)'
  <2>1. CASE s = t
    BY <1>1, <1>2, <1>10, <2>1, FinishFollows
  <2>2. CASE s # t
    BY <1>1, <1>3, <1>10, <2>2 DEF FinishHandler, UpdateConnection
  <2> QED
    BY <2>1, <2>2
<1>11. ASSUME NEW t \in Sockets, HandleClose(t) PROVE RowFollows(s)'
  <2>1. CASE s = t
    <3>1. phase'[s] # "open"
        BY <1>1, <1>11, <2>1 DEF HandleClose, Dispatching
    <3> QED
        BY <1>4, <3>1
  <2>2. CASE s # t
    BY <1>1, <1>3, <1>11, <2>2 DEF HandleClose, UpdateConnection
  <2> QED
    BY <2>1, <2>2
<1>12. ASSUME NEW t \in Sockets, SendClose(t) PROVE RowFollows(s)'
    BY <1>1, <1>3, <1>4, <1>12 DEF SendClose
<1>13. ASSUME NEW t \in Sockets, Disconnect(t) PROVE RowFollows(s)'
  <2>1. CASE s = t
    BY <1>1, <1>4, <1>13, <2>1 DEF Disconnect
  <2>2. CASE s # t
    BY <1>1, <1>3, <1>13, <2>2 DEF Disconnect, UpdateConnection
  <2> QED
    BY <2>1, <2>2
<1>14. ASSUME NEW t \in Sockets, Crash(t) PROVE RowFollows(s)'
    BY <1>1, <1>3, <1>4, <1>14 DEF Crash
<1>15. CASE SocketStep
    BY <1>6, <1>7, <1>8, <1>9, <1>10, <1>11, <1>12, <1>13, <1>14, <1>15 DEF SocketStep
<1>16. CASE SweepStart \/ (\E t \in Sockets : SweepSend(t)) \/ UNCHANGED vars
    BY <1>3, <1>16 DEF SweepStart, SweepSend, vars, sockets
<1> QED
    BY <1>1, <1>2, <1>5, <1>15, <1>16, StaleJobFollows, TickFollows DEF Next

\* In every reachable state the row of an open socket follows what is heard
\* from it.
THEOREM RowsInvariant == Spec => []RowsInv
<1>1. Init => RowsInv
  <2> SUFFICES ASSUME Init PROVE RowsInv
    OBVIOUS
  <2> QED
    BY SessionsBegin DEF Init, SessionsInv, RowsInv, RowFollows
<1>2. RowsInv /\ [Next]_vars => RowsInv'
    BY RowsKept
<1> QED
    BY <1>1, <1>2, PTL DEF Spec

\* The throttle of update_connection, the online window, the stale job and the
\* purge of active users, for any windows in the order the settings require:
\* whoever is heard counts as online and is spared by the purge.
THEOREM HeardIsPresent == Spec => []HeardCountsAsPresent
<1>1. ASSUME RowsInv, NEW s \in Sockets, phase[s] = "open", s \notin handling, row[s] # "purged"
      PROVE  /\ quiet[s] < OnlineWindow - UpdateInterval => s \in Online(OnlineWindow)
             /\ \A within \in PurgeWindows :
                    quiet[s] < within - UpdateInterval => ~Inactive(within)
  <2>1. /\ idle[s] \in 0..Cap /\ quiet[s] \in 0..Cap
        /\ row[s] \in {"open", "closed"}
        /\ row[s] = "closed" => idle[s] >= StaleWindow
        /\ quiet[s] = Cap \/ idle[s] =< quiet[s] + UpdateInterval
    BY <1>1 DEF RowsInv, TypeOK, Rows, RowFollows
  <2>2. ASSUME NEW within \in 0..Cap, quiet[s] < within - UpdateInterval PROVE idle[s] < within
    BY <2>1, <2>2, Windows
  <2>3. quiet[s] < OnlineWindow - UpdateInterval => idle[s] < OnlineWindow /\ row[s] = "open"
    BY <2>1, <2>2, Windows
  <2>4. \A within \in PurgeWindows : quiet[s] < within - UpdateInterval => idle[s] < within
    BY <2>2, WindowsAssumption
  <2>5. \A within \in PurgeWindows : quiet[s] < within - UpdateInterval => ~(idle[s] >= within)
    BY <2>1, <2>4, WindowsAssumption, Windows
  <2> QED
    BY <2>1, <2>3, <2>5 DEF Online, Inactive
<1>2. RowsInv => HeardCountsAsPresent
    BY <1>1 DEF HeardCountsAsPresent, HeardIsOnline, PurgeSparesTheHeard
<1> QED
    BY <1>2, RowsInvariant, PTL

-----------------------------------------------------------------------------
(* Logins                                                                  *)

Creds == [Providers -> [People -> Accounts \cup {NoAccount}]]

\* A row carries its owner's identity and name, or none.
RowsAreOnesOwn ==
    \A a \in Accounts : acc[a].identity \in {Nobody, owner[a]} /\ acc[a].name \in {Nobody, owner[a]}

\* A credential reaches an account of its person, and one by the id proxy an
\* account that has the identity.
CredsSound(c) ==
    /\ c \in Creds
    /\ \A pr \in Providers, p \in People : c[pr][p] # NoAccount => owner[c[pr][p]] = p
    /\ \A p \in People : c[IdProxy][p] # NoAccount => acc[c[IdProxy][p]].identity = p

SessionsSound ==
    \A b \in Browsers : session[b] # NoAccount => owner[session[b]] = at[b] /\ at[b] # Nobody

\* A login by the id proxy creates the holder of an identity only if there is none.
GetsIdentity(signin) ==
    signin.provider = IdProxy =>
        \/ signin.user # NoAccount /\ acc[signin.user].identity = signin.person
        \/ Holders(signin.person) = {}

LoginSound(signin) ==
    /\ signin.user # NoAccount => owner[signin.user] = signin.person
    /\ ~overlap => GetsIdentity(signin)
    /\ signin.version <= tos
    /\ (signin.step = "finish" /\ ~signin.agreed) =>
          \/ signin.version = 0
          \/ signin.user # NoAccount /\ acc[signin.user].accepted >= signin.version

FlightsSound == \A b \in Browsers : flight[b] # NoLogin => LoginSound(flight[b])

\* Without overlap nobody has logins under way in two browsers.
OneFlightEach ==
    ~overlap => \A b, c \in Browsers :
        (flight[b] # NoLogin /\ flight[c] # NoLogin /\ flight[b].person = flight[c].person) => b = c

OneHolderEach == ~overlap => \A p \in People : \A h, k \in Holders(p) : h = k

AcceptsSound == \A a \in Accounts : acc[a].accepted <= tos

LoginsInv ==
    /\ LoginTypeOK /\ RowsAreOnesOwn /\ CredsSound(cred) /\ SessionsSound
    /\ FlightsSound /\ OneFlightEach /\ OneHolderEach /\ AcceptsSound

-----------------------------------------------------------------------------
(* What the pipeline's helpers resolve to *)

\* Moving the credentials of an account to the holder of its owner's identity,
\* or removing them, keeps every credential with its person.
LEMMA TransferSound ==
    ASSUME LoginsInv, NEW c, CredsSound(c), NEW from \in Accounts,
           NEW to \in Accounts \cup {NoAccount}, NEW ps \in SUBSET Providers,
           to # NoAccount => owner[to] = owner[from] /\ acc[to].identity = owner[from]
    PROVE  CredsSound(Transfer(c, from, to, ps))
<1> DEFINE t == Transfer(c, from, to, ps)
<1>1. t \in Creds
    BY DEF Transfer, CredsSound, Creds
<1>2. \A pr \in Providers, p \in People :
         t[pr][p] = IF pr \in ps /\ c[pr][p] = from THEN to ELSE c[pr][p]
    BY DEF Transfer
<1>3. from # NoAccount
    BY NonesAssumption
<1>4. ASSUME NEW pr \in Providers, NEW p \in People, t[pr][p] # NoAccount
      PROVE  owner[t[pr][p]] = p
    BY <1>2, <1>3, <1>4 DEF CredsSound
<1>5. ASSUME NEW p \in People, t[IdProxy][p] # NoAccount
      PROVE  acc[t[IdProxy][p]].identity = p
    BY <1>2, <1>3, <1>5, ProvidersAssumption DEF CredsSound
<1> HIDE DEF t
<1> QED
    BY <1>1, <1>4, <1>5 DEF CredsSound, t

\* A credential given to the holder of its person's identity stays sound.
LEMMA GiveSound ==
    ASSUME LoginsInv, NEW c, CredsSound(c), NEW pr \in Providers, NEW p \in People,
           NEW h \in Accounts, owner[h] = p, acc[h].identity = p
    PROVE  CredsSound([c EXCEPT ![pr][p] = h])
BY DEF CredsSound, Creds

\* The holders of an identity are accounts of its person.
LEMMA HoldersAreOwn ==
    ASSUME LoginsInv, NEW p \in People, NEW h \in Holders(p)
    PROVE  h \in Accounts /\ owner[h] = p /\ acc[h].identity = p /\ acc[h].active
BY NonesAssumption DEF LoginsInv, RowsAreOnesOwn, Holders

\* What social_user promises of an account it resolves to.
ResolvedSound(r, p, pr) ==
    /\ r.user \in Accounts \cup {NoAccount}
    /\ r.user # NoAccount => owner[r.user] = p
    /\ r.reauth \in BOOLEAN
    /\ r.reauth => r.user # NoAccount
    /\ CredsSound(r.cred)
    /\ (~overlap /\ pr = IdProxy) =>
          (r.user # NoAccount /\ acc[r.user].identity = p) \/ Holders(p) = {}

\* social_user resolves to an account of the person, whatever account the
\* browser was signed in to.
LEMMA SocialUserSound ==
    ASSUME LoginsInv, NEW b \in Browsers, NEW p \in People, NEW pr \in Providers,
           intent[b] # NoProvider => owner[session[b]] = p,
           NEW r \in SocialUser(b, p, pr)
    PROVE  ResolvedSound(r, p, pr)
<1> DEFINE social == cred[pr][p]
           u == SessionUser(b, p, pr)
           moved(x) == [cred EXCEPT ![pr][p] = x]
           settle(x, c) ==
            IF acc[x].active \/ Holders(p) = {} THEN {Resolution(x, c, FALSE)}
            ELSE {Resolution(h, Transfer([c EXCEPT ![pr][p] = h], x, h, {pr}), FALSE)
                    : h \in Holders(p)}
<1>1. social \in Accounts \cup {NoAccount} /\ (social # NoAccount => owner[social] = p)
    BY DEF LoginsInv, LoginTypeOK, CredsSound
<1>2. (social # NoAccount /\ pr = IdProxy) => acc[social].identity = p
    BY DEF LoginsInv, CredsSound
<1>3. u \in Accounts \cup {NoAccount} /\ (u # NoAccount => acc[u].active)
    BY DEF LoginsInv, LoginTypeOK, SessionUser, SignedIn
<1>4. (u # NoAccount /\ social = NoAccount) => owner[u] = p
    BY NonesAssumption DEF SessionUser, SignedIn
<1>5. CredsSound(cred)
    BY DEF LoginsInv
<1>6. ASSUME NEW x \in Accounts, owner[x] = p, acc[x].identity = p,
             NEW c, CredsSound(c), NEW s \in settle(x, c)
      PROVE  ResolvedSound(s, p, pr)
  <2>1. CASE acc[x].active \/ Holders(p) = {}
    <3>1. s = Resolution(x, c, FALSE)
        BY <1>6, <2>1
    <3> QED
        BY <1>6, <3>1, NonesAssumption DEF ResolvedSound, Resolution
  <2>2. CASE ~(acc[x].active \/ Holders(p) = {})
    <3>1. PICK h \in Holders(p) :
             s = Resolution(h, Transfer([c EXCEPT ![pr][p] = h], x, h, {pr}), FALSE)
        BY <1>6, <2>2
    <3>2. h \in Accounts /\ owner[h] = p /\ acc[h].identity = p
        BY HoldersAreOwn
    <3>3. CredsSound([c EXCEPT ![pr][p] = h])
        BY <1>6, <3>2, GiveSound
    <3>4. CredsSound(Transfer([c EXCEPT ![pr][p] = h], x, h, {pr}))
        BY <1>6, <3>2, <3>3, TransferSound
    <3> QED
        BY <3>1, <3>2, <3>4, NonesAssumption DEF ResolvedSound, Resolution
  <2> QED
    BY <2>1, <2>2
<1>7. CASE pr # IdProxy
  <2>1. r \in IF social = NoAccount THEN {Resolution(u, cred, FALSE)}
              ELSE {Resolution(social, cred, u # NoAccount /\ u # social)}
    BY <1>7 DEF SocialUser
  <2>2. CASE social = NoAccount
    <3>1. r = Resolution(u, cred, FALSE)
        BY <2>1, <2>2
    <3> QED
        BY <1>3, <1>4, <1>5, <1>7, <2>2, <3>1 DEF ResolvedSound, Resolution
  <2>3. CASE social # NoAccount
    <3>1. PICK x \in BOOLEAN : r = Resolution(social, cred, x)
        BY <2>1, <2>3
    <3> QED
        BY <1>1, <1>5, <1>7, <2>3, <3>1 DEF ResolvedSound, Resolution
  <2> QED
    BY <2>2, <2>3
<1>8. CASE pr = IdProxy /\ social # NoAccount
  <2>1. r \in IF u = NoAccount THEN settle(social, cred)
              ELSE IF u = social THEN settle(u, cred)
              ELSE IF acc[u].identity = p THEN settle(u, moved(u))
              ELSE {Resolution(social, cred, TRUE)}
    BY <1>8 DEF SocialUser
  <2> HIDE DEF settle, moved
  <2>2. CASE u = NoAccount \/ u = social
    BY <1>1, <1>2, <1>5, <1>6, <1>8, <2>1, <2>2
  <2>3. CASE u \notin {NoAccount, social} /\ acc[u].identity = p
    <3>1. u \in Accounts /\ owner[u] = p
        BY <1>3, <2>3, NonesAssumption DEF LoginsInv, RowsAreOnesOwn
    <3>2. CredsSound(moved(u))
        BY <1>5, <2>3, <3>1, GiveSound DEF moved
    <3> QED
        BY <1>6, <2>1, <2>3, <3>1, <3>2
  <2>4. CASE u \notin {NoAccount, social} /\ acc[u].identity # p
    <3>1. r = Resolution(social, cred, TRUE)
        BY <2>1, <2>4
    <3> QED
        BY <1>1, <1>2, <1>5, <1>8, <3>1 DEF ResolvedSound, Resolution
  <2> QED
    BY <2>2, <2>3, <2>4
<1>9. CASE pr = IdProxy /\ social = NoAccount /\ Holders(p) = {}
  <2>1. r = Resolution(u, cred, FALSE)
    BY <1>9 DEF SocialUser
  <2> QED
    BY <1>3, <1>4, <1>5, <1>9, <2>1 DEF ResolvedSound, Resolution
<1>10. CASE pr = IdProxy /\ social = NoAccount /\ Holders(p) # {}
  <2>1. PICK h \in Preferred(p) :
           r = Resolution(h, IF u # NoAccount /\ u # h THEN Transfer(cred, u, h, {pr}) ELSE cred,
                          u # h)
    BY <1>10 DEF SocialUser
  <2>2. h \in Holders(p)
    BY DEF Preferred
  <2>3. h \in Accounts /\ owner[h] = p /\ acc[h].identity = p
    BY <2>2, HoldersAreOwn
  <2>4. (u # NoAccount /\ u # h) => CredsSound(Transfer(cred, u, h, {pr}))
    BY <1>3, <1>4, <1>5, <1>10, <2>3, TransferSound
  <2> QED
    BY <1>5, <2>1, <2>3, <2>4, NonesAssumption DEF ResolvedSound, Resolution
<1> QED
    BY <1>7, <1>8, <1>9, <1>10

\* match_existing_user goes on with an account of the person, or with none.
LEMMA MatchSound ==
    ASSUME LoginsInv, NEW p \in People, NEW pr \in Providers,
           NEW answer \in Answers(p) \cup {NoAccount}
    PROVE  /\ Match(p, pr, answer).user \in Accounts \cup {NoAccount}
           /\ Match(p, pr, answer).user # NoAccount => owner[Match(p, pr, answer).user] = p
           /\ Match(p, pr, answer).matched \in BOOLEAN
<1> DEFINE to(step, x, m) == [to |-> step, user |-> x, matched |-> m]
           exact == Exact(p, pr)
           first == CHOOSE a \in exact : TRUE
<1>1. (Cardinality(exact) = 1) => first \in exact
    BY FS_EmptySet
<1>2. \A x \in exact : x \in Accounts /\ owner[x] = p
    BY NonesAssumption DEF LoginsInv, RowsAreOnesOwn, Exact, Candidates, NameMatches
<1>3. (answer \in Offered(pr) /\ answer # "new") => answer \in Accounts /\ owner[answer] = p
    BY NonesAssumption DEF Offered, Candidates, Answers
<1>4. \/ Match(p, pr, answer) = to("on", NoAccount, FALSE)
      \/ Match(p, pr, answer) = to("refuse", NoAccount, FALSE)
      \/ Match(p, pr, answer) = to("ask", NoAccount, FALSE)
      \/ answer \in Offered(pr) /\ answer # "new" /\ Match(p, pr, answer) = to("on", answer, TRUE)
      \/ Cardinality(exact) = 1 /\ Match(p, pr, answer) = to("on", first, TRUE)
    BY DEF Match
<1>5. Cardinality(exact) = 1 => first \in Accounts /\ owner[first] = p
    BY <1>1, <1>2
<1>6. \E step, x : \E m \in BOOLEAN :
         /\ Match(p, pr, answer) = to(step, x, m)
         /\ x \in Accounts \cup {NoAccount} /\ (x # NoAccount => owner[x] = p)
  <2> HIDE DEF exact, first, to
  <2> QED
    BY <1>3, <1>4, <1>5
<1> QED
    BY <1>6

\* Two states of one login that differ in how far it has come.
SameLogin(k, l) == k.user = l.user /\ k.person = l.person /\ k.provider = l.provider

\* A login that has come further is sound when what it has agreed to is.
LEMMA KeepsSound ==
    ASSUME NEW l, LoginSound(l), NEW k, SameLogin(k, l), k.version = tos, tos \in Nat,
           k.step = "finish" /\ ~k.agreed =>
               tos = 0 \/ (l.user # NoAccount /\ acc[l.user].accepted >= tos)
    PROVE  LoginSound(k) /\ k.person = l.person
<1>1. k.user = l.user /\ k.person = l.person /\ k.provider = l.provider
    BY DEF SameLogin
<1>2. /\ k.user # NoAccount => owner[k.user] = k.person
      /\ ~overlap => GetsIdentity(k)
    BY <1>1 DEF LoginSound, GetsIdentity
<1>3. k.version <= tos
    OBVIOUS
<1>4. k.step = "finish" /\ ~k.agreed =>
          \/ k.version = 0
          \/ k.user # NoAccount /\ acc[k.user].accepted >= k.version
    BY <1>1
<1> QED
    BY <1>1, <1>2, <1>3, <1>4 DEF LoginSound

\* require_tos_accept lets a login through with its accept, or with an accept
\* stored before of the version in effect.
LEMMA CheckTermsSound ==
    ASSUME LoginsInv, NEW signin \in Logins, LoginSound(signin), NEW shown
    PROVE  /\ CheckTerms(signin, shown) \in Logins
           /\ LoginSound(CheckTerms(signin, shown))
           /\ CheckTerms(signin, shown).person = signin.person
<1>1. tos \in Versions /\ Versions \subseteq Nat
    BY BoundsAssumption DEF LoginsInv, LoginTypeOK, Versions
<1>2. MustAccept(signin.user) \in BOOLEAN
    BY DEF MustAccept
<1>3. ~MustAccept(signin.user) =>
         tos = 0 \/ (signin.user # NoAccount /\ acc[signin.user].accepted >= tos)
  <2>1. signin.user # NoAccount => acc[signin.user].accepted \in Nat
    BY <1>1 DEF LoginsInv, LoginTypeOK, Logins, UserRows
  <2> QED
    BY <1>1, <2>1 DEF MustAccept
<1>4. CASE MustAccept(signin.user) /\ shown < tos
  <2>1. CheckTerms(signin, shown) = [signin EXCEPT !.step = "tos", !.version = tos]
    BY <1>4 DEF CheckTerms
  <2>2. /\ CheckTerms(signin, shown) \in Logins
        /\ CheckTerms(signin, shown).step = "tos" /\ CheckTerms(signin, shown).version = tos
        /\ SameLogin(CheckTerms(signin, shown), signin)
    BY <1>1, <2>1 DEF Logins, SameLogin
  <2> QED
    BY <1>1, <2>2, KeepsSound
<1>5. CASE ~(MustAccept(signin.user) /\ shown < tos)
  <2>1. CheckTerms(signin, shown) =
          [signin EXCEPT !.step = "finish", !.agreed = MustAccept(signin.user), !.version = tos]
    BY <1>5 DEF CheckTerms
  <2>2. /\ CheckTerms(signin, shown) \in Logins
        /\ CheckTerms(signin, shown).agreed = MustAccept(signin.user)
        /\ CheckTerms(signin, shown).version = tos
        /\ SameLogin(CheckTerms(signin, shown), signin)
    BY <1>1, <1>2, <2>1 DEF Logins, SameLogin
  <2>3. ~MustAccept(signin.user) =>
           tos = 0 \/ (signin.user # NoAccount /\ acc[signin.user].accepted >= tos)
    BY <1>3
  <2> QED
    BY <1>1, <2>2, <2>3, KeepsSound
<1> QED
    BY <1>4, <1>5

\* A login that goes on past the matcher ends, or has an account of its person.
LEMMA PursueSound ==
    ASSUME LoginsInv, NEW b \in Browsers, NEW signin \in Logins, LoginSound(signin),
           signin.step # "finish", NEW answer \in Answers(signin.person) \cup {NoAccount},
           Pursue(b, signin, answer)
    PROVE  \E l \in Logins \cup {NoLogin} :
              /\ flight' = [flight EXCEPT ![b] = l]
              /\ l # NoLogin => LoginSound(l) /\ l.person = signin.person
<1> DEFINE found == Match(signin.person, signin.provider, answer)
           resolved == [signin EXCEPT !.user = found.user, !.matched = found.matched]
           asked == [signin EXCEPT !.step = "match"]
<1>1. signin.person \in People /\ signin.provider \in Providers
    BY DEF Logins
<1>2. /\ found.user \in Accounts \cup {NoAccount} /\ found.matched \in BOOLEAN
      /\ found.user # NoAccount => owner[found.user] = signin.person
    BY <1>1, MatchSound
<1> HIDE DEF found
<1>3. asked \in Logins /\ LoginSound(asked) /\ asked.person = signin.person
  <2>1. /\ asked \in Logins /\ asked.step # "finish" /\ asked.version = signin.version
        /\ SameLogin(asked, signin)
    BY DEF Logins, SameLogin
  <2> QED
    BY <2>1 DEF LoginSound, GetsIdentity, SameLogin
<1>4. CASE signin.user # NoAccount
    BY <1>4, CheckTermsSound DEF Pursue
<1>5. CASE signin.user = NoAccount
  <2>1. resolved \in Logins /\ LoginSound(resolved) /\ resolved.person = signin.person
    <3>1. /\ resolved \in Logins /\ resolved.step # "finish" /\ resolved.version = signin.version
          /\ resolved.person = signin.person /\ resolved.provider = signin.provider
          /\ resolved.user = found.user
        BY <1>2 DEF Logins
    <3> HIDE DEF resolved
    <3> QED
        BY <1>2, <1>5, <3>1 DEF LoginSound, GetsIdentity
  <2> HIDE DEF resolved, asked
  <2>2. \/ flight' = [flight EXCEPT ![b] = NoLogin]
        \/ flight' = [flight EXCEPT ![b] = asked]
        \/ flight' = [flight EXCEPT ![b] = CheckTerms(resolved, 0)]
    BY <1>5 DEF Pursue, found, resolved, asked
  <2> QED
    BY <1>3, <2>1, <2>2, CheckTermsSound
<1> QED
    BY <1>4, <1>5

-----------------------------------------------------------------------------
(* Every step but the last of a login leaves names and identities alone *)

Quiet ==
    /\ owner' = owner /\ tos' >= tos /\ (overlap => overlap')
    /\ \A a \in Accounts :
         /\ acc'[a].identity = acc[a].identity /\ acc'[a].name = acc[a].name
         /\ acc'[a].active => acc[a].active
         /\ acc'[a].accepted >= acc[a].accepted /\ acc'[a].accepted <= tos'

\* No login appears or changes hands.
NoNewFlight ==
    \A b \in Browsers : flight'[b] # NoLogin =>
        flight[b] # NoLogin /\ flight'[b].person = flight[b].person

\* What a quiet step has to show: that the credentials and the logins under way
\* it leaves behind are sound, by the rows there were before it.
LEMMA QuietKeeps ==
    ASSUME LoginsInv, Quiet, LoginTypeOK', CredsSound(cred'), SessionsSound',
           OneFlightEach',
           \A b \in Browsers : flight'[b] # NoLogin => LoginSound(flight'[b])
    PROVE  LoginsInv'
<1>1. RowsAreOnesOwn' /\ AcceptsSound'
    BY DEF LoginsInv, RowsAreOnesOwn, AcceptsSound, Quiet
<1>2. \A p \in People : Holders(p)' \subseteq Holders(p)
    BY DEF Quiet, Holders, Exists
<1>3. OneHolderEach'
    BY <1>2 DEF LoginsInv, OneHolderEach, Quiet
<1>4. CredsSound(cred)'
  <2>1. \A p \in People : cred'[IdProxy][p] # NoAccount => cred'[IdProxy][p] \in Accounts
    BY ProvidersAssumption DEF CredsSound, Creds
  <2> QED
    BY <2>1 DEF CredsSound, Creds, Quiet
<1>5. ASSUME NEW b \in Browsers, flight'[b] # NoLogin PROVE LoginSound(flight[b])'
  <2>1. PICK l \in Logins : l = flight'[b] /\ LoginSound(l)
    BY <1>5 DEF LoginTypeOK
  <2>2. l.person \in People /\ l.version \in Nat /\ l.user \in Accounts \cup {NoAccount}
    BY <2>1, BoundsAssumption DEF Logins, Versions
  <2>3. tos \in Nat /\ tos' \in Nat
    BY BoundsAssumption DEF LoginsInv, LoginTypeOK, Versions
  <2>4. \A a \in Accounts : acc[a].accepted \in Nat /\ acc'[a].accepted \in Nat
    BY BoundsAssumption DEF LoginsInv, LoginTypeOK, UserRows, Versions
  <2>5. Holders(l.person)' \subseteq Holders(l.person)
    BY <1>2, <2>2 DEF Holders, Exists
  <2>6. (l.user # NoAccount => owner'[l.user] = l.person) /\ l.version <= tos'
    BY <2>1, <2>2, <2>3 DEF LoginSound, Quiet
  <2>7. ~overlap' => (l.provider = IdProxy =>
           \/ l.user # NoAccount /\ acc'[l.user].identity = l.person
           \/ Holders(l.person)' = {})
    BY <2>1, <2>2, <2>5 DEF LoginSound, GetsIdentity, Quiet
  <2>8. (l.step = "finish" /\ ~l.agreed) =>
           \/ l.version = 0
           \/ l.user # NoAccount /\ acc'[l.user].accepted >= l.version
    BY <2>1, <2>2, <2>4 DEF LoginSound, Quiet
  <2> QED
    BY <2>1, <2>6, <2>7, <2>8 DEF LoginSound, GetsIdentity
<1> QED
    BY <1>1, <1>3, <1>4, <1>5 DEF LoginsInv, FlightsSound

\* The same, for a step that begins no login.
LEMMA QuietRequestKeeps ==
    ASSUME LoginsInv, Quiet, LoginTypeOK', CredsSound(cred'), SessionsSound', NoNewFlight,
           \A b \in Browsers : flight'[b] # NoLogin => LoginSound(flight'[b])
    PROVE  LoginsInv'
<1>1. OneFlightEach'
    BY DEF LoginsInv, OneFlightEach, NoNewFlight, Quiet
<1> QED
    BY <1>1, QuietKeeps

-----------------------------------------------------------------------------
(* The steps *)

\* The rows and the versions in numbers.
LEMMA RowsTyped ==
    ASSUME LoginsInv
    PROVE  /\ tos \in Nat /\ acc \in [Accounts -> UserRows]
           /\ \A a \in Accounts : acc[a].accepted \in Nat /\ acc[a].accepted <= tos
BY BoundsAssumption DEF LoginsInv, LoginTypeOK, AcceptsSound, UserRows, Versions

\* A step that leaves what a row says of its owner and of the terms is quiet.
LEMMA SameRowsAreQuiet ==
    ASSUME LoginsInv, owner' = owner, overlap' = overlap, tos' \in Nat, tos' >= tos,
           \A a \in Accounts :
              /\ acc'[a].identity = acc[a].identity /\ acc'[a].name = acc[a].name
              /\ acc'[a].active => acc[a].active
              /\ acc'[a].accepted \in {acc[a].accepted, tos}
    PROVE  Quiet
BY RowsTyped DEF Quiet

\* Requests that touch no login under way and no credential.
LEMMA PlainRequestsKeep ==
    ASSUME LoginsInv,
           \/ \E b \in Browsers, pr \in Providers : Connect(b, pr)
           \/ \E b \in Browsers : Logout(b) \/ AcceptTos(b) \/ CleanupPartial(b)
           \/ \E a \in Accounts, elevated \in BOOLEAN : SetElevated(a, elevated)
           \/ NewTos
           \/ UNCHANGED loginVars
    PROVE  LoginsInv'
<1>1. LoginTypeOK'
  <2> USE BoundsAssumption DEF LoginsInv, LoginTypeOK, Other
  <2>1. CASE \E b \in Browsers, pr \in Providers : Connect(b, pr)
    BY <2>1 DEF Connect
  <2>2. CASE \E b \in Browsers : Logout(b) \/ CleanupPartial(b)
    BY SMTT(30), <2>2 DEF Logout, CleanupPartial
  <2>3. CASE \E b \in Browsers : AcceptTos(b)
    BY SMTT(30), <2>3 DEF AcceptTos, SignedIn, UserRows
  <2>4. CASE \E a \in Accounts, elevated \in BOOLEAN : SetElevated(a, elevated)
    <3>1. PICK a \in Accounts, elevated \in BOOLEAN : SetElevated(a, elevated)
        BY <2>4
    <3>2. acc' = [acc EXCEPT ![a].elevated = elevated]
        BY <3>1 DEF SetElevated
    <3>3. acc \in [Accounts -> UserRows]
        OBVIOUS
    <3>4. [acc[a] EXCEPT !.elevated = elevated] \in UserRows
        BY <3>3 DEF UserRows
    <3>5. acc' \in [Accounts -> UserRows]
        BY ONLY <3>2, <3>3, <3>4
    <3> QED
        BY <3>1, <3>5 DEF SetElevated
  <2>5. CASE NewTos
    BY <2>5 DEF NewTos, Versions, UserRows
  <2>6. CASE UNCHANGED loginVars
    BY <2>6 DEF loginVars
  <2> QED
    BY <2>1, <2>2, <2>3, <2>4, <2>5, <2>6
<1>2. Quiet
  <2>1. owner' = owner /\ overlap' = overlap /\ tos' \in {tos, tos + 1}
    BY DEF Connect, Logout, AcceptTos, CleanupPartial, SetElevated, NewTos, loginVars
  <2>2. tos' \in Nat /\ tos' >= tos
    BY <2>1, RowsTyped
  <2>3. ASSUME NEW a \in Accounts
        PROVE  /\ acc'[a].identity = acc[a].identity /\ acc'[a].name = acc[a].name
               /\ acc'[a].active = acc[a].active
               /\ acc'[a].accepted \in {acc[a].accepted, tos}
    <3>1. acc' = acc \/ (\E b \in Browsers : AcceptTos(b)) \/ \E h \in Accounts, e \in BOOLEAN : SetElevated(h, e)
        BY DEF Connect, Logout, CleanupPartial, NewTos, loginVars
    <3>2. CASE \E b \in Browsers : AcceptTos(b)
        BY <3>2, RowsTyped DEF AcceptTos, UserRows
    <3>3. CASE \E h \in Accounts, e \in BOOLEAN : SetElevated(h, e)
        BY <3>3, RowsTyped DEF SetElevated, UserRows
    <3> QED
        BY <3>1, <3>2, <3>3
  <2> QED
    BY <2>1, <2>2, <2>3, SameRowsAreQuiet
<1>3. cred' = cred
    BY DEF Connect, Logout, AcceptTos, CleanupPartial, SetElevated, NewTos, loginVars
<1>4. SessionsSound'
    BY DEF LoginsInv, LoginTypeOK, SessionsSound, Connect, Logout, AcceptTos, CleanupPartial,
       SetElevated, NewTos, loginVars
<1>5. \A b \in Browsers : flight'[b] # NoLogin => flight'[b] = flight[b]
    BY DEF LoginsInv, LoginTypeOK, Connect, Logout, AcceptTos, CleanupPartial, SetElevated, NewTos, loginVars
<1>6. NoNewFlight
    BY <1>5 DEF NoNewFlight
<1>7. \A b \in Browsers : flight'[b] # NoLogin => LoginSound(flight'[b])
    BY <1>5 DEF LoginsInv, FlightsSound
<1>8. CredsSound(cred')
    BY <1>3 DEF LoginsInv
<1> QED
    BY <1>1, <1>2, <1>4, <1>6, <1>7, <1>8, QuietRequestKeeps

\* Disconnecting only takes credentials away.
LEMMA DisconnectKeeps ==
    ASSUME LoginsInv, NEW b \in Browsers, NEW pr \in Providers, DisconnectLogin(b, pr)
    PROVE  LoginsInv'
<1>1. session[b] \in Accounts
    BY DEF LoginsInv, LoginTypeOK, DisconnectLogin, SignedIn
<1>2. CredsSound(cred')
    BY <1>1, TransferSound DEF LoginsInv, DisconnectLogin
<1>3. LoginTypeOK'
  <2>1. cred' \in Creds
    BY <1>2 DEF CredsSound
  <2>2. others' \in 0..MaxOthers
    BY BoundsAssumption DEF LoginsInv, LoginTypeOK, DisconnectLogin, Other
  <2> QED
    BY <2>1, <2>2 DEF LoginsInv, LoginTypeOK, DisconnectLogin, Creds
<1>4. Quiet
    BY RowsTyped, SameRowsAreQuiet DEF DisconnectLogin
<1>5. SessionsSound' /\ NoNewFlight
    BY DEF LoginsInv, SessionsSound, NoNewFlight, DisconnectLogin
<1>6. \A c \in Browsers : flight'[c] # NoLogin => LoginSound(flight'[c])
    BY DEF LoginsInv, FlightsSound, DisconnectLogin
<1> QED
    BY <1>2, <1>3, <1>4, <1>5, <1>6, QuietRequestKeeps

\* A switch moves the credentials to the account with the same identity.
LEMMA SwitchKeeps ==
    ASSUME LoginsInv, NEW b \in Browsers, Switch(b)
    PROVE  LoginsInv'
<1>1. PICK a \in Switchable(b) \ {session[b]} :
         /\ cred' = Transfer(cred, session[b], a, Providers)
         /\ session' = [session EXCEPT ![b] = a]
         /\ acc' = [acc EXCEPT ![a].used = TRUE]
    BY DEF Switch
<1>2. session[b] \in Accounts
    BY DEF LoginsInv, LoginTypeOK, Switch, SignedIn
<1>3. acc[session[b]].identity \in People
    BY <1>1, <1>2 DEF LoginsInv, LoginTypeOK, UserRows, Switchable
<1>4. owner[session[b]] = acc[session[b]].identity
    BY <1>2, <1>3, NonesAssumption DEF LoginsInv, RowsAreOnesOwn
<1>5. a \in Holders(acc[session[b]].identity)
    BY <1>1 DEF Switchable
<1>6. a \in Accounts /\ owner[a] = owner[session[b]] /\ acc[a].identity = owner[session[b]]
    BY <1>3, <1>4, <1>5, HoldersAreOwn
<1>7. CredsSound(cred')
    BY <1>1, <1>2, <1>6, TransferSound DEF LoginsInv
<1>8. LoginTypeOK'
  <2>1. cred' \in Creds
    BY <1>7 DEF CredsSound
  <2>2. acc' \in [Accounts -> UserRows]
    BY <1>1, <1>6, RowsTyped DEF UserRows
  <2>3. session' \in [Browsers -> Accounts \cup {NoAccount}]
    BY <1>1, <1>6 DEF LoginsInv, LoginTypeOK
  <2>4. others' \in 0..MaxOthers
    BY BoundsAssumption DEF LoginsInv, LoginTypeOK, Switch, Other
  <2> QED
    BY <2>1, <2>2, <2>3, <2>4 DEF LoginsInv, LoginTypeOK, Switch, Creds
<1>9. Quiet /\ NoNewFlight
  <2>1. ASSUME NEW h \in Accounts
        PROVE  /\ acc'[h].identity = acc[h].identity /\ acc'[h].name = acc[h].name
               /\ acc'[h].active = acc[h].active /\ acc'[h].accepted = acc[h].accepted
    BY <1>1, <1>6, RowsTyped DEF UserRows
  <2> QED
    BY <2>1, RowsTyped, SameRowsAreQuiet DEF Switch, NoNewFlight
<1>10. SessionsSound'
    BY <1>1, <1>2, <1>6, NonesAssumption DEF LoginsInv, LoginTypeOK, SessionsSound, Switch
<1>11. \A c \in Browsers : flight'[c] # NoLogin => LoginSound(flight'[c])
    BY DEF LoginsInv, FlightsSound, Switch
<1> QED
    BY <1>7, <1>8, <1>9, <1>10, <1>11, QuietRequestKeeps

\* A merge moves the credentials to the account with the same identity.
LEMMA MergeKeeps ==
    ASSUME LoginsInv, NEW source \in Accounts, NEW target \in Accounts, Merge(source, target)
    PROVE  LoginsInv'
<1>1. owner[target] = owner[source] /\ acc[target].identity = owner[source]
    BY DEF LoginsInv, RowsAreOnesOwn, Merge
<1>2. CredsSound(cred')
    BY <1>1, TransferSound DEF LoginsInv, Merge
<1>3. LoginTypeOK'
  <2>1. cred' \in Creds
    BY <1>2 DEF CredsSound
  <2>2. acc' \in [Accounts -> UserRows]
    <3>1. acc[target] \in UserRows /\ acc[source] \in UserRows
        BY RowsTyped
    <3>2. /\ [acc[target] EXCEPT !.elevated = @ \/ acc[source].elevated] \in UserRows
          /\ [acc[source] EXCEPT !.elevated = FALSE, !.active = FALSE] \in UserRows
        BY <3>1 DEF UserRows
    <3>3. \A h \in Accounts : acc'[h] =
            IF h = target THEN [acc[target] EXCEPT !.elevated = @ \/ acc[source].elevated]
            ELSE IF h = source THEN [acc[source] EXCEPT !.elevated = FALSE, !.active = FALSE]
            ELSE acc[h]
        BY RowsTyped DEF Merge
    <3>4. acc' = [h \in Accounts |-> acc'[h]]
        BY RowsTyped DEF Merge
    <3> QED
        BY <3>2, <3>3, <3>4, RowsTyped
  <2>3. others' \in 0..MaxOthers
    BY BoundsAssumption DEF LoginsInv, LoginTypeOK, Merge, Other
  <2> QED
    BY <2>1, <2>2, <2>3 DEF LoginsInv, LoginTypeOK, Merge, Creds
<1>4. Quiet /\ NoNewFlight
  <2>1. ASSUME NEW h \in Accounts
        PROVE  /\ acc'[h].identity = acc[h].identity /\ acc'[h].name = acc[h].name
               /\ acc'[h].active => acc[h].active
               /\ acc'[h].accepted = acc[h].accepted
    BY RowsTyped DEF UserRows, Merge
  <2> QED
    BY <2>1, RowsTyped, SameRowsAreQuiet DEF Merge, NoNewFlight
<1>5. SessionsSound'
    BY DEF LoginsInv, SessionsSound, Merge
<1>6. \A c \in Browsers : flight'[c] # NoLogin => LoginSound(flight'[c])
    BY DEF LoginsInv, FlightsSound, Merge
<1> QED
    BY <1>2, <1>3, <1>4, <1>5, <1>6, QuietRequestKeeps

\* Coming back to a paused login, it goes on with an account of the person.
LEMMA ResumeKeeps ==
    ASSUME LoginsInv, NEW b \in Browsers, ResumeMatch(b) \/ ResumeTos(b)
    PROVE  LoginsInv'
<1>1. flight[b] \in Logins /\ LoginSound(flight[b])
    BY DEF LoginsInv, LoginTypeOK, FlightsSound, ResumeMatch, ResumeTos, NoLogin
<1>2. \E l \in Logins \cup {NoLogin} :
         /\ flight' = [flight EXCEPT ![b] = l]
         /\ l # NoLogin => LoginSound(l) /\ l.person = flight[b].person
    BY <1>1, PursueSound, CheckTermsSound DEF ResumeMatch, ResumeTos
<1>3. UNCHANGED <<owner, acc, cred, session, intent, tos, at, overlap, logins, others>>
    BY DEF ResumeMatch, ResumeTos
<1>4. LoginTypeOK'
    BY <1>2, <1>3 DEF LoginsInv, LoginTypeOK
<1>5. Quiet /\ SessionsSound' /\ CredsSound(cred')
    BY <1>3, BoundsAssumption DEF LoginsInv, LoginTypeOK, AcceptsSound, SessionsSound, Quiet, UserRows, Versions
<1>6. flight[b] # NoLogin
    BY <1>1 DEF Logins, NoLogin
<1>7. NoNewFlight
    BY <1>2, <1>6 DEF LoginsInv, LoginTypeOK, NoNewFlight
<1>8. \A c \in Browsers : flight'[c] # NoLogin => LoginSound(flight'[c])
    BY <1>2 DEF LoginsInv, LoginTypeOK, FlightsSound
<1> QED
    BY <1>4, <1>5, <1>7, <1>8, QuietRequestKeeps

\* A login that comes back from a provider starts with an account of the person.
LEMMA NewLoginSound ==
    ASSUME LoginsInv, NEW p \in People, NEW pr \in Providers, NEW r, ResolvedSound(r, p, pr)
    PROVE  NewLogin(p, pr, r.user) \in Logins /\ LoginSound(NewLogin(p, pr, r.user))
<1> DEFINE l == NewLogin(p, pr, r.user)
<1>1. l \in Logins
    BY DEF LoginsInv, LoginTypeOK, ResolvedSound, NewLogin, Logins
<1>2. l.step = "match" /\ l.person = p /\ l.provider = pr /\ l.user = r.user /\ l.version = tos
    BY DEF NewLogin
<1> HIDE DEF l
<1>3. LoginSound(l)
    BY <1>2, RowsTyped DEF ResolvedSound, LoginSound, GetsIdentity
<1> QED
    BY <1>1, <1>3 DEF l

\* A browser that goes to its provider takes a flight of its own to it, and
\* touches no row.
LEMMA BeginKeeps ==
    ASSUME LoginsInv, NEW b \in Browsers, NEW p \in People, NEW pr \in Providers,
           Begin(b, p, pr)
    PROVE  LoginsInv'
<1>1. intent' \in [Browsers -> Providers \cup {NoProvider}] /\ logins' \in 0..MaxLogins
    BY BoundsAssumption DEF LoginsInv, LoginTypeOK, Begin
<1>2. overlap' \in BOOLEAN /\ (overlap => overlap')
      /\ \A c \in Browsers : (flight[c] # NoLogin /\ flight[c].person = p) => overlap'
    BY DEF LoginsInv, LoginTypeOK, Begin
<1>3. owner' = owner /\ tos' = tos /\ others' = others /\ flight[b] = NoLogin
    BY DEF Begin
<1>4. CASE Refused(b, p, pr)
  <2>1. UNCHANGED <<cred, session, at, acc, flight>>
    BY <1>4 DEF Begin
  <2>2. LoginTypeOK'
    BY <1>1, <1>2, <1>3, <2>1 DEF LoginsInv, LoginTypeOK
  <2>3. Quiet
    BY <1>2, <1>3, <2>1, RowsTyped DEF Quiet
  <2>4. SessionsSound' /\ NoNewFlight /\ CredsSound(cred')
    BY <1>3, <2>1 DEF LoginsInv, SessionsSound, NoNewFlight
  <2>5. \A c \in Browsers : flight'[c] # NoLogin => LoginSound(flight'[c])
    BY <2>1 DEF LoginsInv, FlightsSound
  <2> QED
    BY <2>2, <2>3, <2>4, <2>5, QuietRequestKeeps
<1>5. CASE ~Refused(b, p, pr)
  <2>1. PICK r \in SocialUser(b, p, pr) :
           /\ cred' = r.cred
           /\ IF r.reauth
              THEN /\ session' = [session EXCEPT ![b] = r.user]
                   /\ at' = [at EXCEPT ![b] = p]
                   /\ acc' = [acc EXCEPT ![r.user].used = TRUE]
              ELSE UNCHANGED <<session, at, acc>>
           /\ Pursue(b, NewLogin(p, pr, r.user), NoAccount)
    BY <1>5 DEF Begin
  <2>2. ResolvedSound(r, p, pr)
    BY SocialUserSound DEF Begin
  <2>3. NewLogin(p, pr, r.user) \in Logins /\ LoginSound(NewLogin(p, pr, r.user))
        /\ NewLogin(p, pr, r.user).step # "finish" /\ NewLogin(p, pr, r.user).person = p
    BY <2>2, NewLoginSound DEF NewLogin
  <2>4. PICK l \in Logins \cup {NoLogin} :
           /\ flight' = [flight EXCEPT ![b] = l]
           /\ l # NoLogin => LoginSound(l) /\ l.person = p
    BY <2>1, <2>3, PursueSound
  <2>5. r.reauth => r.user \in Accounts /\ owner[r.user] = p
    BY <2>2 DEF ResolvedSound
  <2>6. acc' \in [Accounts -> UserRows]
    <3>1. CASE r.reauth
        <4>1. acc' = [acc EXCEPT ![r.user].used = TRUE]
            BY <2>1, <3>1
        <4> QED
            BY <2>5, <3>1, <4>1, RowsTyped DEF UserRows
    <3>2. CASE ~r.reauth
        BY <2>1, <3>2, RowsTyped
    <3> QED
        BY <3>1, <3>2
  <2>7. \A a \in Accounts :
           /\ acc'[a].identity = acc[a].identity /\ acc'[a].name = acc[a].name
           /\ acc'[a].active = acc[a].active /\ acc'[a].accepted = acc[a].accepted
    BY <2>1, <2>5, RowsTyped DEF UserRows
  <2>8. Quiet
    BY <1>2, <1>3, <2>7, RowsTyped DEF Quiet
  <2>9. CredsSound(cred')
    BY <2>1, <2>2 DEF ResolvedSound
  <2>10. LoginTypeOK'
    <3>1. cred' \in Creds
        BY <2>9 DEF CredsSound
    <3>2. session' \in [Browsers -> Accounts \cup {NoAccount}] /\ at' \in [Browsers -> People \cup {Nobody}]
        BY <2>1, <2>5 DEF LoginsInv, LoginTypeOK
    <3>3. flight' \in [Browsers -> Logins \cup {NoLogin}]
        BY <2>4 DEF LoginsInv, LoginTypeOK
    <3> QED
        BY <1>1, <1>2, <1>3, <2>6, <3>1, <3>2, <3>3 DEF LoginsInv, LoginTypeOK, Creds
  <2>11. SessionsSound'
    BY <1>3, <2>1, <2>5, NonesAssumption DEF LoginsInv, LoginTypeOK, SessionsSound
  <2>12. OneFlightEach'
    BY <1>2, <2>4 DEF LoginsInv, LoginTypeOK, OneFlightEach
  <2>13. \A c \in Browsers : flight'[c] # NoLogin => LoginSound(flight'[c])
    BY <2>4 DEF LoginsInv, LoginTypeOK, FlightsSound
  <2> QED
    BY <2>8, <2>9, <2>10, <2>11, <2>12, <2>13, QuietKeeps
<1> QED
    BY <1>4, <1>5

\* The account a login finishes in, and what becomes of its row.
FinishesIn(b, a) ==
    LET signin == flight[b]
        p == signin.person
        social == cred[signin.provider][p]
        userRow == IF Exists(a) THEN acc[a] ELSE Created(signin)
        failed == social \notin {NoAccount, a}
    IN  /\ IF signin.user = NoAccount THEN ~Exists(a) ELSE a = signin.user
        /\ owner' = IF Exists(a) THEN owner ELSE [owner EXCEPT ![a] = p]
        /\ acc' = [acc EXCEPT ![a] = IF failed THEN userRow ELSE Finished(signin, userRow)]
        /\ cred' = IF failed THEN cred ELSE [cred EXCEPT ![signin.provider][p] = a]
        /\ IF failed \/ ~userRow.active THEN UNCHANGED <<session, at>>
           ELSE session' = [session EXCEPT ![b] = a] /\ at' = [at EXCEPT ![b] = p]

\* The row of the account is still its owner's, and its accept is no older.
LEMMA FinishRow ==
    ASSUME LoginsInv, NEW b \in Browsers, flight[b].step = "finish", NEW a \in Accounts,
           FinishesIn(b, a)
    PROVE  /\ flight[b] \in Logins /\ LoginSound(flight[b])
           /\ owner' \in [Accounts -> People \cup {Nobody}] /\ acc' \in [Accounts -> UserRows]
           /\ owner'[a] = flight[b].person
           /\ owner[a] \in {Nobody, flight[b].person}
           /\ \A h \in Accounts : h # a => owner'[h] = owner[h] /\ acc'[h] = acc[h]
           /\ acc'[a].name \in {Nobody, flight[b].person}
           /\ acc'[a].accepted <= tos
           /\ Exists(a) => /\ acc'[a].accepted >= acc[a].accepted
                           /\ acc'[a].active = acc[a].active
                           /\ a = flight[b].user
           /\ ~Exists(a) => flight[b].user = NoAccount
           /\ \/ Exists(a) /\ acc'[a].identity = acc[a].identity
              \/ flight[b].provider = IdProxy /\ acc'[a].identity = flight[b].person
              \/ ~Exists(a) /\ flight[b].provider # IdProxy /\ acc'[a].identity = Nobody
           /\ \/ cred' = cred
              \/ /\ cred' = [cred EXCEPT ![flight[b].provider][flight[b].person] = a]
                 /\ flight[b].provider = IdProxy => acc'[a].identity = flight[b].person
           /\ \/ UNCHANGED <<session, at>>
              \/ /\ session' = [session EXCEPT ![b] = a]
                 /\ at' = [at EXCEPT ![b] = flight[b].person]
                 /\ flight[b].agreed => acc'[a].accepted = tos
<1> DEFINE signin == flight[b]
           userRow == IF Exists(a) THEN acc[a] ELSE Created(signin)
           failed == cred[signin.provider][signin.person] \notin {NoAccount, a}
<1>1. signin \in Logins /\ LoginSound(signin)
    BY DEF LoginsInv, LoginTypeOK, FlightsSound, NoLogin
<1>2. signin.person \in People /\ signin.provider \in Providers
    BY <1>1 DEF Logins
<1>3. Exists(a) => a = signin.user /\ owner[a] = signin.person
    BY <1>1, NonesAssumption DEF FinishesIn, LoginSound, Exists
<1>4. ~Exists(a) => signin.user = NoAccount /\ owner[a] = Nobody
    BY <1>1, <1>2, NonesAssumption DEF FinishesIn, LoginSound, Exists
<1>5. Created(signin) \in UserRows /\ Created(signin).name = signin.person /\ Created(signin).accepted = 0
      /\ Created(signin).identity = IF signin.provider = IdProxy THEN signin.person ELSE Nobody
  <2> DEFINE identity == IF signin.provider = IdProxy THEN signin.person ELSE Nobody
  <2>1. identity \in People \cup {Nobody}
    BY <1>2
  <2>2. Created(signin) = [NewRow EXCEPT !.identity = identity, !.name = signin.person]
    BY DEF Created
  <2> HIDE DEF identity
  <2>3. NewRow \in UserRows /\ NewRow.accepted = 0
    BY BoundsAssumption DEF NewRow, UserRows, Versions
  <2>4. Created(signin) \in UserRows /\ Created(signin).name = signin.person
        /\ Created(signin).accepted = 0 /\ Created(signin).identity = identity
    BY <1>2, <2>1, <2>2, <2>3 DEF UserRows
  <2> QED
    BY <2>4 DEF identity
<1>6. userRow \in UserRows /\ userRow.accepted \in Nat /\ userRow.accepted <= tos
    BY <1>5, RowsTyped
<1>7. tos \in Versions /\ tos \in Nat
    BY RowsTyped DEF LoginsInv, LoginTypeOK
<1>8. StoreAccept(signin, userRow) \in {userRow.accepted, tos}
    BY DEF StoreAccept
<1> HIDE DEF userRow
<1>9. /\ Finished(signin, userRow) \in UserRows
      /\ Finished(signin, userRow).name = userRow.name /\ Finished(signin, userRow).active = userRow.active
      /\ Finished(signin, userRow).accepted = StoreAccept(signin, userRow)
      /\ Finished(signin, userRow).identity = IF signin.provider = IdProxy THEN signin.person ELSE userRow.identity
    BY <1>2, <1>6, <1>7, <1>8 DEF Finished, UserRows
<1>10. userRow.name \in {Nobody, signin.person}
    BY <1>3, <1>5 DEF userRow, LoginsInv, RowsAreOnesOwn
<1>11. acc' = [acc EXCEPT ![a] = IF failed THEN userRow ELSE Finished(signin, userRow)]
       /\ owner' = IF Exists(a) THEN owner ELSE [owner EXCEPT ![a] = signin.person]
    BY DEF FinishesIn, userRow
<1>12. acc' \in [Accounts -> UserRows] /\ acc'[a] \in {userRow, Finished(signin, userRow)}
       /\ \A h \in Accounts : h # a => acc'[h] = acc[h]
    BY <1>6, <1>9, <1>11, RowsTyped
<1>13. /\ owner' \in [Accounts -> People \cup {Nobody}] /\ owner'[a] = signin.person
       /\ \A h \in Accounts : h # a => owner'[h] = owner[h]
    BY <1>2, <1>3, <1>11 DEF LoginsInv, LoginTypeOK
<1>14. acc'[a].name \in {Nobody, signin.person} /\ acc'[a].accepted \in {userRow.accepted, tos}
       /\ acc'[a].active = userRow.active
    BY <1>8, <1>9, <1>10, <1>12
<1>15. acc'[a].identity \in {userRow.identity, IF signin.provider = IdProxy THEN signin.person ELSE userRow.identity}
    BY <1>9, <1>12
<1>16. Exists(a) => userRow = acc[a]
    BY DEF userRow
<1>17. ~Exists(a) => userRow = Created(signin)
    BY DEF userRow
<1>18. \/ Exists(a) /\ acc'[a].identity = acc[a].identity
       \/ signin.provider = IdProxy /\ acc'[a].identity = signin.person
       \/ ~Exists(a) /\ signin.provider # IdProxy /\ acc'[a].identity = Nobody
    BY <1>5, <1>15, <1>16, <1>17
<1>19. acc'[a].accepted <= tos
       /\ (Exists(a) => acc'[a].accepted >= acc[a].accepted /\ acc'[a].active = acc[a].active)
    BY <1>6, <1>7, <1>14, <1>16
<1>20. \/ cred' = cred
       \/ /\ cred' = [cred EXCEPT ![signin.provider][signin.person] = a]
          /\ signin.provider = IdProxy => acc'[a].identity = signin.person
  <2>1. failed => cred' = cred
    BY DEF FinishesIn
  <2>2. ~failed => cred' = [cred EXCEPT ![signin.provider][signin.person] = a]
    BY DEF FinishesIn
  <2>3. ~failed => acc'[a] = Finished(signin, userRow)
    BY <1>11, RowsTyped
  <2> QED
    BY <1>9, <2>1, <2>2, <2>3
<1>21. \/ UNCHANGED <<session, at>>
       \/ /\ session' = [session EXCEPT ![b] = a] /\ at' = [at EXCEPT ![b] = signin.person]
          /\ signin.agreed => acc'[a].accepted = tos
  <2>1. failed => UNCHANGED <<session, at>>
    BY DEF FinishesIn
  <2>2. \/ UNCHANGED <<session, at>>
        \/ session' = [session EXCEPT ![b] = a] /\ at' = [at EXCEPT ![b] = signin.person]
    BY DEF FinishesIn
  <2>3. ~failed => acc'[a] = Finished(signin, userRow)
    BY <1>11, RowsTyped
  <2>4. (~failed /\ signin.agreed) => acc'[a].accepted = tos
    BY <1>9, <2>3 DEF StoreAccept
  <2> QED
    BY <2>1, <2>2, <2>4
<1> QED
    BY <1>1, <1>3, <1>4, <1>12, <1>13, <1>14, <1>18, <1>19, <1>20, <1>21

\* A browser that comes back finds or makes the account of the person who
\* logged in at the provider, and of nobody else.
LEMMA FinishKeeps ==
    ASSUME LoginsInv, NEW b \in Browsers, Finish(b)
    PROVE  LoginsInv'
<1>1. PICK a \in Accounts : FinishesIn(b, a)
    BY DEF Finish, FinishesIn
<1>2. flight[b].step = "finish" /\ flight' = [flight EXCEPT ![b] = NoLogin]
      /\ intent' = [intent EXCEPT ![b] = NoProvider]
      /\ UNCHANGED <<tos, overlap, logins, others>>
    BY DEF Finish
<1> DEFINE signin == flight[b]
<1>0. PICK p \in People : p = signin.person
    BY FinishRow, <1>1, <1>2 DEF Logins
<1>3. /\ signin \in Logins /\ LoginSound(signin)
      /\ owner' \in [Accounts -> People \cup {Nobody}] /\ acc' \in [Accounts -> UserRows]
      /\ owner'[a] = p /\ owner[a] \in {Nobody, p}
      /\ \A h \in Accounts : h # a => owner'[h] = owner[h] /\ acc'[h] = acc[h]
      /\ acc'[a].name \in {Nobody, p} /\ acc'[a].accepted <= tos
    BY <1>0, <1>1, <1>2, FinishRow
<1>4. /\ Exists(a) => /\ acc'[a].accepted >= acc[a].accepted
                      /\ acc'[a].active = acc[a].active /\ a = signin.user
      /\ ~Exists(a) => signin.user = NoAccount
    BY <1>0, <1>1, <1>2, FinishRow
<1>5. \/ Exists(a) /\ acc'[a].identity = acc[a].identity
      \/ signin.provider = IdProxy /\ acc'[a].identity = p
      \/ ~Exists(a) /\ signin.provider # IdProxy /\ acc'[a].identity = Nobody
    BY <1>0, <1>1, <1>2, FinishRow
<1>6. \/ cred' = cred
      \/ /\ cred' = [cred EXCEPT ![signin.provider][p] = a]
         /\ signin.provider = IdProxy => acc'[a].identity = p
    BY <1>0, <1>1, <1>2, FinishRow
<1>7. \/ UNCHANGED <<session, at>>
      \/ session' = [session EXCEPT ![b] = a] /\ at' = [at EXCEPT ![b] = p]
    BY <1>0, <1>1, <1>2, FinishRow
<1>8. signin # NoLogin /\ p \in People /\ p # Nobody /\ signin.provider \in Providers
    BY <1>0, <1>3, NonesAssumption DEF Logins, NoLogin
<1>9. acc'[a].identity \in {acc[a].identity, p, Nobody}
      /\ (Exists(a) => owner[a] = p) /\ acc'[a].identity \in {Nobody, p}
    BY <1>3, <1>5 DEF Exists, LoginsInv, RowsAreOnesOwn
<1> HIDE DEF signin
<1>10. LoginTypeOK'
  <2>1. cred' \in Creds
    <3>1. cred \in Creds
        BY DEF LoginsInv, CredsSound
    <3> QED
        BY <1>6, <1>8, <3>1 DEF Creds
  <2>2. session' \in [Browsers -> Accounts \cup {NoAccount}] /\ at' \in [Browsers -> People \cup {Nobody}]
    BY <1>7, <1>8 DEF LoginsInv, LoginTypeOK
  <2> QED
    BY <1>2, <1>3, <2>1, <2>2 DEF LoginsInv, LoginTypeOK, Creds
<1>11. RowsAreOnesOwn'
    BY <1>3, <1>9 DEF LoginsInv, RowsAreOnesOwn
<1>12. AcceptsSound'
    BY <1>2, <1>3 DEF LoginsInv, AcceptsSound
<1>13. SessionsSound'
    BY <1>3, <1>7, <1>8, <1>9, NonesAssumption DEF LoginsInv, LoginTypeOK, SessionsSound, Exists
<1>14. CredsSound(cred)'
  <2>1. cred' \in Creds
    BY <1>10 DEF LoginTypeOK, Creds
  <2>2. ASSUME NEW pr \in Providers, NEW q \in People, cred'[pr][q] # NoAccount
        PROVE  owner'[cred'[pr][q]] = q
    <3>1. CASE cred'[pr][q] = cred[pr][q]
        BY <1>3, <1>8, <2>2, <3>1, NonesAssumption DEF LoginsInv, LoginTypeOK, CredsSound
    <3>2. CASE cred'[pr][q] = a /\ q = p
        BY <1>3, <3>2
    <3> QED
        BY <1>6, <1>8, <3>1, <3>2 DEF LoginsInv, LoginTypeOK
  <2>3. ASSUME NEW q \in People, cred'[IdProxy][q] # NoAccount
        PROVE  acc'[cred'[IdProxy][q]].identity = q
    <3>1. CASE cred'[IdProxy][q] = cred[IdProxy][q] /\ cred[IdProxy][q] # a
        BY <1>3, <2>3, <3>1, ProvidersAssumption DEF LoginsInv, LoginTypeOK, CredsSound
    <3>2. CASE cred'[IdProxy][q] = cred[IdProxy][q] /\ cred[IdProxy][q] = a
        <4>1. owner[a] = q /\ acc[a].identity = q
            BY <2>3, <3>2, ProvidersAssumption DEF LoginsInv, CredsSound
        <4>2. q = p /\ Exists(a)
            BY <1>3, <4>1, NonesAssumption DEF Exists
        <4> QED
            BY <1>5, <3>2, <4>1, <4>2
    <3>3. CASE cred'[IdProxy][q] = a /\ q = p /\ signin.provider = IdProxy /\ cred' # cred
        BY <1>6, <3>3
    <3> QED
        BY <1>6, <1>8, <3>1, <3>2, <3>3, ProvidersAssumption DEF LoginsInv, LoginTypeOK
  <2> QED
    BY <2>1, <2>2, <2>3 DEF CredsSound
<1>15. \A q \in People : q # p => Holders(q)' \subseteq Holders(q)
    BY <1>3, <1>9, NonesAssumption DEF Holders, Exists
<1>16. Holders(p)' \subseteq Holders(p) \cup {a}
    BY <1>3 DEF Holders, Exists
<1>17. ~overlap => (a \in Holders(p)' => (a \in Holders(p) \/ Holders(p) = {}))
  <2>1. SUFFICES ASSUME ~overlap, a \in Holders(p)' PROVE a \in Holders(p) \/ Holders(p) = {}
    OBVIOUS
  <2>2. acc'[a].identity = p /\ acc'[a].active
    BY <2>1 DEF Holders
  <2>3. CASE Exists(a) /\ acc'[a].identity = acc[a].identity
    BY <1>4, <2>2, <2>3 DEF Holders
  <2>4. CASE signin.provider = IdProxy
    <3>1. (signin.user # NoAccount /\ acc[signin.user].identity = p) \/ Holders(p) = {}
        BY <1>0, <1>3, <2>1, <2>4 DEF LoginSound, GetsIdentity
    <3>2. (signin.user # NoAccount /\ acc[signin.user].identity = p) => a \in Holders(p)
        BY <1>4, <2>2 DEF Holders
    <3> QED
        BY <3>1, <3>2
  <2> QED
    BY <1>5, <1>8, <2>2, <2>3, <2>4
<1>18. OneHolderEach'
    BY <1>2, <1>8, <1>15, <1>16, <1>17 DEF LoginsInv, OneHolderEach
<1>19. OneFlightEach'
    BY <1>2 DEF LoginsInv, LoginTypeOK, OneFlightEach
<1>20. FlightsSound'
  <2> SUFFICES ASSUME NEW c \in Browsers, flight'[c] # NoLogin PROVE LoginSound(flight[c])'
    BY DEF FlightsSound
  <2>1. c # b /\ flight'[c] = flight[c]
    BY <1>2 DEF LoginsInv, LoginTypeOK
  <2>2. PICK l \in Logins : l = flight[c] /\ LoginSound(l)
    BY <2>1 DEF LoginsInv, LoginTypeOK, FlightsSound
  <2>3. l.person \in People /\ l.user \in Accounts \cup {NoAccount} /\ l.version \in Nat
    BY <2>2, BoundsAssumption DEF Logins, Versions
  <2>4. \A h \in Accounts : acc[h].accepted \in Nat /\ acc'[h].accepted \in Nat
    BY <1>3, BoundsAssumption, RowsTyped DEF UserRows, Versions
  <2>5. ~overlap => l.person # p
    BY <1>0, <1>8, <2>1, <2>2 DEF LoginsInv, OneFlightEach, signin
  <2>6. l.user # NoAccount => Exists(l.user) /\ owner[l.user] = l.person /\ owner'[l.user] = l.person
    BY <1>3, <1>9, <2>2, <2>3, NonesAssumption DEF LoginSound, Exists
  <2>7. (l.user # NoAccount /\ l.user = a) => l.person = p
    BY <1>3, <2>6
  <2>8. ~overlap' => (l.provider = IdProxy =>
           \/ l.user # NoAccount /\ acc'[l.user].identity = l.person
           \/ Holders(l.person)' = {})
    <3>1. SUFFICES ASSUME ~overlap, l.provider = IdProxy
                   PROVE  \/ l.user # NoAccount /\ acc'[l.user].identity = l.person
                          \/ Holders(l.person)' = {}
        BY <1>2
    <3>2. CASE l.user # NoAccount /\ acc[l.user].identity = l.person
        BY <1>3, <2>3, <2>5, <2>7, <3>1, <3>2
    <3>3. CASE Holders(l.person) = {}
        BY <1>15, <2>3, <2>5, <3>1, <3>3
    <3> QED
        BY <2>2, <3>1, <3>2, <3>3 DEF LoginSound, GetsIdentity
  <2>9. (l.step = "finish" /\ ~l.agreed) =>
           \/ l.version = 0
           \/ l.user # NoAccount /\ acc'[l.user].accepted >= l.version
    BY <1>3, <1>4, <2>2, <2>3, <2>4, <2>6 DEF LoginSound
  <2>10. l.version <= tos'
    BY <1>2, <2>2 DEF LoginSound
  <2> QED
    BY <2>1, <2>2, <2>6, <2>8, <2>9, <2>10 DEF LoginSound, GetsIdentity
<1> QED
    BY <1>10, <1>11, <1>12, <1>13, <1>14, <1>18, <1>19, <1>20 DEF LoginsInv

\* The inductive invariant: what a paused login, a credential and a session
\* carry belongs to the person, whoever else uses the browser meanwhile.
THEOREM LoginsInvariant == LoginSpec => []LoginsInv
<1>1. LoginInit => LoginsInv
  <2> SUFFICES ASSUME LoginInit PROVE LoginsInv
    OBVIOUS
  <2>1. LoginTypeOK
    <3>1. tos \in Versions /\ logins \in 0..MaxLogins /\ others \in 0..MaxOthers
        BY BoundsAssumption DEF LoginInit, Versions
    <3> QED
        BY <3>1 DEF LoginInit, LoginTypeOK
  <2>2. RowsAreOnesOwn
    BY DEF LoginInit, RowsAreOnesOwn
  <2>3. CredsSound(cred)
    BY ProvidersAssumption DEF LoginInit, CredsSound, Creds
  <2>4. SessionsSound /\ FlightsSound /\ OneFlightEach
    BY DEF LoginInit, SessionsSound, FlightsSound, OneFlightEach
  <2>5. AcceptsSound
    BY DEF LoginInit, AcceptsSound
  <2>6. OneHolderEach
    BY NonesAssumption DEF LoginInit, OneHolderEach, Holders, Exists
  <2> QED
    BY <2>1, <2>2, <2>3, <2>4, <2>5, <2>6 DEF LoginsInv
<1>2. LoginsInv /\ [LoginNext]_loginVars => LoginsInv'
    BY PlainRequestsKeep, DisconnectKeeps, SwitchKeeps, MergeKeeps, ResumeKeeps, BeginKeeps,
       FinishKeeps DEF LoginNext
<1> QED
    BY <1>1, <1>2, PTL DEF LoginSpec

\* Every login ends in an account of the person who logs in: credentials and
\* sessions reach nobody else's, and nobody gets two active accounts for one
\* identity unless two of their logins were under way at the same time.
THEOREM LoginsReachOnesOwn == LoginSpec => []AccountsAreOnesOwn
<1>1. LoginsInv => AccountsAreOnesOwn
  <2> SUFFICES ASSUME LoginsInv PROVE AccountsAreOnesOwn
    OBVIOUS
  <2>1. LoginTypeOK /\ CredentialReachesOwner /\ SignedInAsOneself
    BY DEF LoginsInv, CredsSound, SessionsSound, CredentialReachesOwner, SignedInAsOneself
  <2>2. ASSUME ~overlap, NEW p \in People PROVE Cardinality(Holders(p)) =< 1
    <3>1. CASE Holders(p) = {}
        BY <3>1, FS_EmptySet
    <3>2. CASE \E h \in Holders(p) : TRUE
        <4>1. PICK h \in Holders(p) : Holders(p) = {h}
            BY <2>2, <3>2 DEF LoginsInv, OneHolderEach
        <4> QED
            BY <4>1, FS_Singleton
    <3> QED
        BY <3>1, <3>2
  <2> QED
    BY <2>1, <2>2 DEF AccountsAreOnesOwn, IdentityHasOneAccount
<1> QED
    BY <1>1, LoginsInvariant, PTL

\* A login that ends signed in has accepted a version of the terms no older
\* than the one in effect when require_tos_accept let it through.
THEOREM LoginsHaveAccepted == LoginSpec => FinishedLoginHasAccepted
<1> DEFINE Accepted ==
        \A b \in Browsers :
            (flight[b].step = "finish" /\ flight'[b] = NoLogin /\ session'[b] # session[b]) =>
                acc'[session'[b]].accepted >= flight[b].version
<1>1. LoginsInv /\ [LoginNext]_loginVars => [Accepted]_loginVars
  <2> SUFFICES ASSUME LoginsInv, [LoginNext]_loginVars, NEW b \in Browsers, flight[b].step = "finish",
                      flight'[b] = NoLogin, session'[b] # session[b]
               PROVE  acc'[session'[b]].accepted >= flight[b].version
    OBVIOUS
  <2>1. flight[b] \in Logins /\ LoginSound(flight[b]) /\ flight[b] # NoLogin
    BY DEF LoginsInv, LoginTypeOK, FlightsSound, NoLogin
  <2>2. ~UNCHANGED loginVars
    BY DEF loginVars
  <2>3. \E c \in Browsers : Finish(c)
    <3>1. ASSUME NEW c \in Browsers, NEW p \in People, NEW pr \in Providers, Begin(c, p, pr)
          PROVE  FALSE
        <4>1. c # b
            BY <2>1, <3>1 DEF Begin
        <4>2. flight' = flight \/ \E r : Pursue(c, NewLogin(p, pr, r), NoAccount)
            BY <3>1 DEF Begin
        <4>3. ASSUME NEW r, Pursue(c, NewLogin(p, pr, r), NoAccount) PROVE flight'[b] = flight[b]
            BY <4>1, <4>3 DEF LoginsInv, LoginTypeOK, Pursue
        <4> QED
            BY <2>1, <4>2, <4>3
    <3>2. ASSUME NEW c \in Browsers, ResumeMatch(c) \/ ResumeTos(c) \/ CleanupPartial(c)
          PROVE  FALSE
        BY <3>2 DEF ResumeMatch, ResumeTos, CleanupPartial
    <3> QED
        BY <2>1, <2>2, <3>1, <3>2 DEF LoginNext, Connect, DisconnectLogin, Switch, Logout,
           AcceptTos, SetElevated, Merge, NewTos
  <2>4. Finish(b)
    <3>1. PICK c \in Browsers : Finish(c)
        BY <2>3
    <3>2. flight' = [flight EXCEPT ![c] = NoLogin] /\ flight \in [Browsers -> Logins \cup {NoLogin}]
        BY <3>1 DEF Finish, LoginsInv, LoginTypeOK
    <3>3. c = b
        BY <2>1, <3>2
    <3> QED
        BY <3>1, <3>3
  <2>5. PICK a \in Accounts : FinishesIn(b, a)
    BY <2>4 DEF Finish, FinishesIn
  <2>6. /\ acc' \in [Accounts -> UserRows] /\ acc'[a].accepted <= tos
        /\ Exists(a) => acc'[a].accepted >= acc[a].accepted /\ a = flight[b].user
        /\ ~Exists(a) => flight[b].user = NoAccount
        /\ session' = [session EXCEPT ![b] = a]
        /\ flight[b].agreed => acc'[a].accepted = tos
    <3>1. \/ UNCHANGED <<session, at>>
          \/ session' = [session EXCEPT ![b] = a] /\ (flight[b].agreed => acc'[a].accepted = tos)
        BY <2>5, FinishRow
    <3> QED
        BY <2>5, <3>1, FinishRow
  <2>7. session'[b] = a
    BY <2>6 DEF LoginsInv, LoginTypeOK
  <2>8. acc'[a].accepted \in Nat /\ flight[b].version \in Nat
    BY <2>1, <2>6, BoundsAssumption DEF UserRows, Logins, Versions
  <2>9. flight[b].user # NoAccount => acc[flight[b].user].accepted \in Nat /\ Exists(a)
    BY <2>1, <2>6, RowsTyped DEF Logins
  <2>10. CASE flight[b].agreed
    BY <2>1, <2>6, <2>7, <2>8, <2>10, RowsTyped DEF LoginSound
  <2>11. CASE ~flight[b].agreed
    BY <2>1, <2>6, <2>7, <2>8, <2>9, <2>11 DEF LoginSound
  <2> QED
    BY <2>10, <2>11
<1> QED
    BY <1>1, LoginsInvariant, PTL DEF LoginSpec, FinishedLoginHasAccepted
=============================================================================
