------------------------- MODULE Membership_proofs -------------------------
(***************************************************************************)
(* Proof, for any number of users, groups, group roles and invites, of the *)
(* invariants of meeting roles and invites, and of what may take the       *)
(* moderator role.                                                         *)
(*                                                                         *)
(* The handlers are operators on the tables, so each has a lemma about any *)
(* sound tables, whoever calls it: most keep the tables sound because they *)
(* touch the roles and memberships of one user only (Kept).  What a folded *)
(* handler does for a set of rows rests on two lemmas about folds.         *)
(***************************************************************************)
EXTENDS Membership, FiniteSetTheorems, WellFoundedInduction, TLAPS

\* A set of numbers has a least one.
LEMMA LeastNumber ==
    ASSUME NEW S \in SUBSET Nat, S # {}
    PROVE  \E n \in S : \A m \in S : n <= m
<1> DEFINE R == {ss \in Nat \X Nat : ss[1] < ss[2]}
<1>1. IsWellFoundedOn(R, Nat)
    BY NatLessThanWellFounded DEF OpToRel
<1>2. \A m, n \in Nat : m < n => <<m, n>> \in R
    OBVIOUS
<1> HIDE DEF R
<1>3. PICK n \in S : \A m \in S : <<m, n>> \notin R
    BY <1>1, WFMin
<1>4. ASSUME NEW m \in S PROVE n <= m
  <2>1. m \in Nat /\ n \in Nat
    OBVIOUS
  <2>2. ~(m < n)
    BY <1>2, <1>3, <2>1
  <2> QED
    BY <2>1, <2>2
<1> QED
    BY <1>4

\* The element a fold takes first, and the set of the others.
First(s) == CHOOSE x \in s : TRUE
Others(s) == s \ {First(s)}

\* Taking the first element leaves a smaller set.
LEMMA OthersSmaller ==
    ASSUME NEW S, IsFiniteSet(S), NEW s \in SUBSET S, s # {}
    PROVE  /\ First(s) \in s /\ Others(s) \in SUBSET S
           /\ Cardinality(s) \in Nat /\ Cardinality(Others(s)) \in Nat
           /\ Cardinality(Others(s)) < Cardinality(s)
<1>1. First(s) \in s
    BY DEF First
<1>2. IsFiniteSet(s)
    BY FS_Subset
<1>3. Cardinality(Others(s)) = Cardinality(s) - 1
    BY <1>1, <1>2, FS_RemoveElement DEF Others
<1>4. Cardinality(s) \in Nat /\ IsFiniteSet(Others(s))
    BY <1>2, FS_CardinalityType, FS_Subset DEF Others
<1>5. Cardinality(Others(s)) \in Nat
    BY <1>4, FS_CardinalityType
<1> QED
    BY <1>1, <1>3, <1>4, <1>5 DEF Others

\* What holds of the empty set, and of a set when it holds of the others, holds
\* of every subset of a finite set.
LEMMA FoldInduction ==
    ASSUME NEW S, IsFiniteSet(S), NEW P \in SUBSET SUBSET S, {} \in P,
           \A s \in SUBSET S : s # {} /\ Others(s) \in P => s \in P
    PROVE  S \in P
<1> DEFINE Wrong == {n \in Nat : \E s \in (SUBSET S) \ P : Cardinality(s) = n}
<1>1. SUFFICES ASSUME S \notin P PROVE FALSE
    OBVIOUS
<1>2. Cardinality(S) \in Wrong
    BY <1>1, FS_CardinalityType
<1>3. Wrong \in SUBSET Nat /\ Wrong # {}
    BY <1>2
<1>4. PICK n \in Wrong : \A m \in Wrong : n <= m
  <2> HIDE DEF Wrong
  <2> QED
    BY <1>3, LeastNumber
<1>5. PICK s \in (SUBSET S) \ P : Cardinality(s) = n
    OBVIOUS
<1>6. s # {}
    OBVIOUS
<1>7. /\ Others(s) \in SUBSET S /\ Cardinality(Others(s)) \in Nat
      /\ Cardinality(Others(s)) < n /\ n \in Nat
    BY <1>5, <1>6, OthersSmaller
<1>8. Others(s) \notin P
    BY <1>5, <1>6
<1>9. Cardinality(Others(s)) \in Wrong
    BY <1>7, <1>8
<1> HIDE DEF Wrong
<1> QED
    BY <1>4, <1>7, <1>9

\* A fold by a function on D, one step of it.
FoldStep(F, base, f, s) == IF s = {} THEN base ELSE F[<<First(s), f[Others(s)]>>]

\* f is the fold of F over the subsets of S.
IsFold(F, base, S, f) == f = [s \in SUBSET S |-> FoldStep(F, base, f, s)]

\* The recursion of a fold has a solution, and it stays in D.
LEMMA FoldExists ==
    ASSUME NEW S, IsFiniteSet(S), NEW D, NEW base \in D, NEW F \in [S \X D -> D]
    PROVE  \E f : IsFold(F, base, S, f) /\ \A s \in SUBSET S : f[s] \in D
<1> DEFINE Upto(n) == {s \in SUBSET S : Cardinality(s) <= n}
           Solves(f, n) == \A s \in Upto(n) : f[s] = FoldStep(F, base, f, s)
           Bad == {n \in Nat : ~\E f : Solves(f, n)}
<1>1. \E f : Solves(f, 0)
  <2> DEFINE f == [s \in SUBSET S |-> base]
  <2>1. ASSUME NEW s \in Upto(0) PROVE s = {}
    <3>1. IsFiniteSet(s) /\ Cardinality(s) \in Nat
        BY FS_Subset, FS_CardinalityType
    <3>2. Cardinality(s) = 0
        BY <3>1
    <3> QED
        BY <3>1, <3>2, FS_EmptySet
  <2>2. Solves(f, 0)
    BY <2>1 DEF FoldStep
  <2> QED
    BY <2>2
<1>2. ASSUME NEW n \in Nat \ {0}, NEW f, Solves(f, n - 1)
      PROVE  \E h : Solves(h, n)
  <2> DEFINE h == [s \in SUBSET S |-> FoldStep(F, base, f, s)]
  <2>1. ASSUME NEW s \in Upto(n), s # {}
        PROVE  /\ Others(s) \in SUBSET S
               /\ h[Others(s)] = f[Others(s)]
    <3>1. /\ Others(s) \in SUBSET S /\ Cardinality(s) \in Nat
          /\ Cardinality(Others(s)) \in Nat
          /\ Cardinality(Others(s)) < Cardinality(s)
        BY <2>1, OthersSmaller
    <3>2. Cardinality(Others(s)) <= n - 1
        BY <3>1
    <3>3. Others(s) \in Upto(n - 1)
        BY <3>1, <3>2
    <3>4. f[Others(s)] = FoldStep(F, base, f, Others(s))
        BY <1>2, <3>3
    <3> QED
        BY <3>1, <3>4
  <2>2. \A s \in Upto(n) : h[s] = FoldStep(F, base, f, s)
    OBVIOUS
  <2> HIDE DEF h
  <2>3. Solves(h, n)
    BY <2>1, <2>2 DEF FoldStep
  <2> QED
    BY <2>3
<1>3. ASSUME Bad # {} PROVE FALSE
  <2>1. PICK n \in Bad : \A m \in Bad : n <= m
    <3>1. Bad \in SUBSET Nat
        OBVIOUS
    <3> HIDE DEF Bad
    <3> QED
        BY <1>3, <3>1, LeastNumber
  <2>2. n \in Nat \ {0}
    BY <1>1
  <2>3. n - 1 \in Nat /\ n - 1 \notin Bad
    <3>1. n - 1 \in Nat /\ ~(n <= n - 1)
        BY <2>2
    <3> HIDE DEF Bad
    <3> QED
        BY <2>1, <3>1
  <2>4. \E f : Solves(f, n - 1)
    BY <2>3
  <2> HIDE DEF Solves
  <2> QED
    BY <1>2, <2>1, <2>2, <2>4
<1>4. Cardinality(S) \in Nat
    BY FS_CardinalityType
<1>5. PICK f : Solves(f, Cardinality(S))
    BY <1>3, <1>4
<1>6. ASSUME NEW s \in SUBSET S PROVE s \in Upto(Cardinality(S))
    BY FS_Subset
<1>7. \A s \in SUBSET S : f[s] = FoldStep(F, base, f, s)
    BY <1>5, <1>6
<1> DEFINE g == [s \in SUBSET S |-> f[s]]
<1>8. ASSUME NEW s \in SUBSET S PROVE g[s] = FoldStep(F, base, g, s)
  <2>1. s # {} => Others(s) \in SUBSET S
    BY DEF Others
  <2>2. s # {} => g[Others(s)] = f[Others(s)]
    BY <2>1
  <2>3. g[s] = f[s]
    OBVIOUS
  <2> HIDE DEF g
  <2> QED
    BY <1>7, <2>2, <2>3 DEF FoldStep
<1>9. g = [s \in SUBSET S |-> FoldStep(F, base, g, s)]
  <2>1. g = [s \in SUBSET S |-> g[s]]
    OBVIOUS
  <2> HIDE DEF g
  <2> QED
    BY <1>8, <2>1
<1> HIDE DEF g
<1>10. ASSUME NEW s \in SUBSET S PROVE g[s] \in D
  <2> DEFINE P == {x \in SUBSET s : g[x] \in D}
  <2>1. IsFiniteSet(s)
    BY FS_Subset
  <2>2. {} \in P
    BY <1>8 DEF FoldStep
  <2>3. ASSUME NEW x \in SUBSET s, x # {}, Others(x) \in P PROVE x \in P
    <3>1. g[Others(x)] \in D /\ First(x) \in S /\ x \in SUBSET S
        BY <2>3 DEF First
    <3>2. g[x] = F[<<First(x), g[Others(x)]>>]
        BY <1>8, <2>3, <3>1 DEF FoldStep
    <3> QED
        BY <3>1, <3>2
  <2>4. s \in P
    <3>1. P \in SUBSET SUBSET s
        OBVIOUS
    <3> HIDE DEF P
    <3> QED
        BY <2>1, <2>2, <2>3, <3>1, FoldInduction
  <2> QED
    BY <2>4
<1> QED
    BY <1>9, <1>10 DEF IsFold

-----------------------------------------------------------------------------
(* What is kept of the tables                                              *)

\* What the membership of a user in a group can be.
Ranks == GroupRoles \cup {NoRole, NotMember}

\* The tables of the meeting.
Dbs == [roles : [Users -> (SUBSET Roles) \cup {NoRow}], lists : SUBSET Users,
        member : [Groups -> [Users -> Ranks]],
        invite : [Idents -> Invites \cup {NoInvite}],
        notes : [Idents -> [Groups -> Ranks]],
        dialect : BOOLEAN, joined : SUBSET Users, gone : SUBSET (Users \cup Idents)]

IsClosed(rs) == Required(rs) = rs

\* An accepted invite is that of a member and has nothing left to apply.
Done(s, i) ==
    s.invite[i] # NoInvite /\ s.invite[i].state = "accepted" =>
        /\ s.invite[i].used_by \in Users
        /\ s.roles[s.invite[i].used_by] # NoRow
        /\ \A g \in Groups : s.notes[i][g] = NotMember

Sound(s) ==
    /\ s \in Dbs
    /\ \A u \in Users : IsClosed(Assigned(s, u))
    /\ \A u \in s.lists : "pa" \in Assigned(s, u)
    /\ \A i \in Idents : Done(s, i)

\* From s to t only the roles of u and memberships have changed, and u neither
\* has lost the row nor the participant role.
Kept(s, t, u) ==
    /\ t \in Dbs
    /\ t.lists = s.lists /\ t.invite = s.invite /\ t.notes = s.notes
    /\ t.dialect = s.dialect /\ t.gone = s.gone
    /\ \A v \in Users \ {u} : t.roles[v] = s.roles[v]
    /\ s.roles[u] # NoRow => t.roles[u] # NoRow
    /\ "pa" \in Assigned(s, u) => "pa" \in Assigned(t, u)
    /\ IsClosed(Assigned(t, u))

\* The group role u has in g carries the moderator role.
Carried(s, g, u) == s.member[g][u] \in GroupRoles /\ "mo" \in Grants[s.member[g][u]]

\* The rows m when that of u is rs.
Rowed(m, u, rs) == [m EXCEPT ![u] = rs]

\* The memberships m when that of u in g is r.
Ranked(m, g, u, r) == [m EXCEPT ![g][u] = r]

\* From s to t the membership of u in g has become r.
Regrouped(s, t, g, u, r) ==
    /\ Kept(s, t, u)
    /\ t.member = Ranked(s.member, g, u, r)
    /\ IsModerator(s, u) => IsModerator(t, u) \/ (Carried(s, g, u) /\ r # s.member[g][u])

\* Sound tables stay sound.
LEMMA KeptSound ==
    ASSUME NEW s, Sound(s), NEW u \in Users, NEW t, Kept(s, t, u)
    PROVE  Sound(t)
<1>1. \A v \in Users \ {u} : Assigned(t, v) = Assigned(s, v)
    BY DEF Kept, Assigned
<1>2. \A v \in Users : IsClosed(Assigned(t, v))
    BY <1>1 DEF Kept, Sound
<1>3. \A v \in t.lists : "pa" \in Assigned(t, v)
    BY <1>1 DEF Kept, Sound, Dbs
<1>4. \A v \in Users : s.roles[v] # NoRow => t.roles[v] # NoRow
    BY DEF Kept
<1>5. \A i \in Idents : Done(t, i)
    BY <1>4 DEF Kept, Sound, Done
<1> QED
    BY <1>2, <1>3, <1>5 DEF Kept, Sound

\* Whatever rows are closed, what they require or lose leaves them closed.
LEMMA RolesClosed ==
    ASSUME NEW a \in SUBSET Roles, NEW rs \in SUBSET Roles
    PROVE  /\ Required(rs) \in SUBSET Roles /\ IsClosed(Required(rs))
           /\ IsClosed({})
           /\ IsClosed(a) => /\ IsClosed(a \cup Required(rs))
                             /\ IsClosed(a \ ReverseRequired(rs))
                             /\ a # {} => "pa" \in a
           /\ ReverseRequired(rs) \in SUBSET Roles
           /\ "pa" \notin rs => ReverseRequired(rs) = rs
    BY DEF IsClosed, Required, ReverseRequired, Roles

\* Saving a row changes that row, and notes a new one for on_commit.
LEMMA SaveRolesSaves ==
    ASSUME NEW s \in Dbs, NEW u \in Users, NEW rs \in SUBSET Roles,
           NEW t, t = SaveRoles(s, u, rs)
    PROVE  /\ t \in Dbs
           /\ t.lists = s.lists /\ t.invite = s.invite /\ t.notes = s.notes
           /\ t.dialect = s.dialect /\ t.gone = s.gone /\ t.member = s.member
           /\ t.roles = Rowed(s.roles, u, rs)
<1> DEFINE j == IF s.roles[u] = NoRow THEN s.joined \cup {u} ELSE s.joined
           new == Rowed(s.roles, u, rs)
<1>1. t = [s EXCEPT !.roles = new, !.joined = j]
    BY DEF SaveRoles, Rowed
<1>2. j \in SUBSET Users
    BY DEF Dbs
<1>3. new \in [Users -> (SUBSET Roles) \cup {NoRow}]
    BY DEF Dbs, Rowed
<1> HIDE DEF j, new
<1>4. /\ t \in Dbs /\ t.roles = new
      /\ t.lists = s.lists /\ t.invite = s.invite /\ t.notes = s.notes
      /\ t.dialect = s.dialect /\ t.gone = s.gone /\ t.member = s.member
    BY <1>1, <1>2, <1>3 DEF Dbs
<1> QED
    BY <1>4 DEF new

\* Meeting.add_roles: exactly the roles that are added and required.
LEMMA AddRolesAdds ==
    ASSUME NEW s \in Dbs, NEW u \in Users, NEW rs \in SUBSET Roles,
           NEW t, t = AddRoles(s, u, rs)
    PROVE  /\ t \in Dbs
           /\ t.lists = s.lists /\ t.invite = s.invite /\ t.notes = s.notes
           /\ t.dialect = s.dialect /\ t.gone = s.gone /\ t.member = s.member
           /\ t.roles = Rowed(s.roles, u, Assigned(s, u) \cup Required(rs))
<1> DEFINE row == IF s.roles[u] = NoRow THEN SaveRoles(s, u, {}) ELSE s
<1>0. s.roles \in [Users -> (SUBSET Roles) \cup {NoRow}] /\ Assigned(s, u) \in SUBSET Roles
    BY DEF Dbs, Assigned
<1>1. /\ row \in Dbs
      /\ row.lists = s.lists /\ row.invite = s.invite /\ row.notes = s.notes
      /\ row.dialect = s.dialect /\ row.gone = s.gone /\ row.member = s.member
      /\ row.roles = Rowed(s.roles, u, Assigned(s, u))
  <2>1. CASE s.roles[u] = NoRow
    BY <2>1, SaveRolesSaves DEF Assigned
  <2>2. CASE s.roles[u] # NoRow
    <3>1. s.roles = Rowed(s.roles, u, Assigned(s, u))
        BY <1>0, <2>2 DEF Assigned, Rowed
    <3> QED
        BY <2>2, <3>1
  <2> QED
    BY <2>1, <2>2
<1>2. Required(rs) \in SUBSET Roles
    BY RolesClosed
<1>3. t = AddTo(row, u, Assigned(row, u), rs)
    BY DEF AddRoles
<1> HIDE DEF row
<1>4. Assigned(row, u) = Assigned(s, u)
    BY <1>0, <1>1, NonesAssumption DEF Assigned, Rowed
<1>5. CASE Required(rs) \subseteq Assigned(s, u)
  <2>1. t = row /\ Assigned(s, u) \cup Required(rs) = Assigned(s, u)
    BY <1>3, <1>4, <1>5 DEF AddTo
  <2> QED
    BY <1>1, <2>1
<1>6. CASE ~(Required(rs) \subseteq Assigned(s, u))
  <2> DEFINE new == Assigned(s, u) \cup Required(rs)
  <2>1. t = SaveRoles(row, u, new)
    BY <1>3, <1>4, <1>6 DEF AddTo
  <2>2. new \in SUBSET Roles
    BY <1>0, <1>2
  <2> HIDE DEF new
  <2>3. /\ t.lists = row.lists /\ t.invite = row.invite /\ t.notes = row.notes
        /\ t.dialect = row.dialect /\ t.gone = row.gone /\ t.member = row.member
        /\ t.roles = Rowed(row.roles, u, new)
        /\ t \in Dbs
    BY <1>1, <2>1, <2>2, SaveRolesSaves
  <2>4. t.roles = Rowed(s.roles, u, new)
    BY <1>0, <1>1, <2>3 DEF Rowed
  <2> QED
    BY <1>1, <2>3, <2>4 DEF new
<1> QED
    BY <1>5, <1>6

\* Meeting.remove_roles of roles other than participant.
LEMMA RemoveRolesRemoves ==
    ASSUME NEW s \in Dbs, NEW u \in Users, IsClosed(Assigned(s, u)),
           NEW rs \in SUBSET (Roles \ {"pa"}), NEW t, t = RemoveRoles(s, u, rs)
    PROVE  /\ t \in Dbs
           /\ t.lists = s.lists /\ t.invite = s.invite /\ t.notes = s.notes
           /\ t.dialect = s.dialect /\ t.gone = s.gone /\ t.member = s.member
           /\ \A v \in Users \ {u} : t.roles[v] = s.roles[v]
           /\ t.roles[u] = NoRow <=> s.roles[u] = NoRow
           /\ Assigned(t, u) = Assigned(s, u) \ rs
<1>1. CASE s.roles[u] = NoRow
    BY <1>1 DEF RemoveRoles, Assigned
<1>2. CASE s.roles[u] # NoRow
  <2> DEFINE base == s.roles[u]
             left == base \ rs
  <2>1. base \in SUBSET Roles /\ IsClosed(base) /\ rs \in SUBSET Roles /\ Assigned(s, u) = base
    BY <1>2 DEF Dbs, Assigned
  <2>2. ReverseRequired(rs) = rs /\ (base # {} => "pa" \in base)
    BY <2>1, RolesClosed
  <2>3. t = RemoveFrom(s, u, base, rs)
    BY <1>2 DEF RemoveRoles
  <2>4. CASE left = base
    <3>1. t = s
        BY <2>2, <2>3, <2>4 DEF RemoveFrom
    <3> QED
        BY <2>1, <2>4, <3>1
  <2>5. CASE left # base
    <3>1. "pa" \in left /\ "pa" \in base
        BY <2>2, <2>5
    <3> DEFINE saved == SaveRoles(s, u, left)
    <3>2. t = [saved EXCEPT !.lists = @]
        BY <2>2, <2>3, <2>5, <3>1 DEF RemoveFrom
    <3>3. left \in SUBSET Roles
        BY <2>1
    <3> HIDE DEF left
    <3>4. /\ saved \in Dbs
          /\ saved.lists = s.lists /\ saved.invite = s.invite /\ saved.notes = s.notes
          /\ saved.dialect = s.dialect /\ saved.gone = s.gone /\ saved.member = s.member
          /\ saved.roles = Rowed(s.roles, u, left)
        BY <3>3, SaveRolesSaves
    <3> HIDE DEF saved
    <3>5. t = saved
        BY <3>2, <3>4 DEF Dbs
    <3>6. /\ t \in Dbs
          /\ t.lists = s.lists /\ t.invite = s.invite /\ t.notes = s.notes
          /\ t.dialect = s.dialect /\ t.gone = s.gone /\ t.member = s.member
          /\ t.roles = Rowed(s.roles, u, left)
        BY <3>4, <3>5
    <3>7. t.roles[u] = left /\ left # NoRow /\ \A v \in Users \ {u} : t.roles[v] = s.roles[v]
        BY <3>3, <3>6, NonesAssumption DEF Dbs, Rowed
    <3>8. Assigned(t, u) = left
        BY <3>7 DEF Assigned
    <3> QED
        BY <1>2, <2>1, <3>6, <3>7, <3>8 DEF left
  <2> QED
    BY <2>4, <2>5
<1> QED
    BY <1>1, <1>2

-----------------------------------------------------------------------------
(* Group memberships                                                       *)

\* What the lemmas about roles say, as Kept.
LEMMA AddRolesKept ==
    ASSUME NEW s \in Dbs, NEW u \in Users, IsClosed(Assigned(s, u)),
           NEW rs \in SUBSET Roles, NEW t, t = AddRoles(s, u, rs)
    PROVE  /\ Kept(s, t, u) /\ t.member = s.member
           /\ Assigned(t, u) = Assigned(s, u) \cup Required(rs)
           /\ t.roles[u] # NoRow
<1>1. s.roles \in [Users -> (SUBSET Roles) \cup {NoRow}] /\ Assigned(s, u) \in SUBSET Roles
    BY DEF Dbs, Assigned
<1> DEFINE new == Assigned(s, u) \cup Required(rs)
<1>2. new \in SUBSET Roles /\ IsClosed(new)
    BY <1>1, RolesClosed
<1> HIDE DEF new
<1>3. /\ t \in Dbs
      /\ t.lists = s.lists /\ t.invite = s.invite /\ t.notes = s.notes
      /\ t.dialect = s.dialect /\ t.gone = s.gone /\ t.member = s.member
      /\ t.roles = Rowed(s.roles, u, new)
  <2>1. /\ t \in Dbs
        /\ t.lists = s.lists /\ t.invite = s.invite /\ t.notes = s.notes
        /\ t.dialect = s.dialect /\ t.gone = s.gone /\ t.member = s.member
        /\ t.roles = Rowed(s.roles, u, Assigned(s, u) \cup Required(rs))
    BY SMTT(30), AddRolesAdds
  <2> QED
    BY <2>1 DEF new
<1>4. /\ t.roles[u] = new /\ new # NoRow
      /\ \A v \in Users \ {u} : t.roles[v] = s.roles[v]
    BY <1>1, <1>2, <1>3, NonesAssumption DEF Rowed
<1>5. Assigned(t, u) = new
    BY <1>4 DEF Assigned
<1> QED
    BY <1>2, <1>3, <1>4, <1>5 DEF Kept, new

\* handle_meeting_roles_through_removed takes roles the group role carries only.
LEMMA RoleWithdrawnKept ==
    ASSUME NEW s \in Dbs, NEW g \in Groups, NEW u \in Users, IsClosed(Assigned(s, u)),
           NEW r \in GroupRoles, NEW t, t = RoleWithdrawn(s, g, u, r)
    PROVE  /\ Kept(s, t, u) /\ t.member = s.member
           /\ Assigned(s, u) \ Grants[r] \subseteq Assigned(t, u)
<1>1. CASE ~s.dialect
    BY <1>1 DEF RoleWithdrawn, Kept
<1>2. CASE s.dialect
  <2>1. PICK rs : /\ rs \subseteq Grants[r]
                  /\ t = RemoveRoles(s, u, rs)
    BY <1>2 DEF RoleWithdrawn
  <2>2. rs \in SUBSET (Roles \ {"pa"})
    BY <2>1, MembershipAssumption
  <2>3. /\ t \in Dbs
        /\ t.lists = s.lists /\ t.invite = s.invite /\ t.notes = s.notes
        /\ t.dialect = s.dialect /\ t.gone = s.gone /\ t.member = s.member
        /\ \A v \in Users \ {u} : t.roles[v] = s.roles[v]
        /\ t.roles[u] = NoRow <=> s.roles[u] = NoRow
        /\ Assigned(t, u) = Assigned(s, u) \ rs
    BY <2>1, <2>2, RemoveRolesRemoves
  <2>4. Assigned(s, u) \in SUBSET Roles
    BY DEF Dbs, Assigned
  <2>5. "pa" \in Assigned(s, u) => "pa" \in Assigned(t, u)
    BY <2>2, <2>3
  <2>6. IsClosed(Assigned(t, u))
    <3>1. Assigned(s, u) # {} => "pa" \in Assigned(s, u)
        BY <2>4, RolesClosed
    <3>2. Assigned(t, u) # {} => "pa" \in Assigned(t, u)
        BY <2>3, <2>5, <3>1
    <3> QED
        BY <3>2 DEF IsClosed, Required
  <2> QED
    BY <2>1, <2>3, <2>5, <2>6 DEF Kept
<1> QED
    BY <1>1, <1>2

\* The tables s when the membership of u in g is r.
WithRank(s, g, u, r) == [s EXCEPT !.member[g][u] = r]

\* A changed membership is no matter to Kept.
LEMMA MemberSetKept ==
    ASSUME NEW s \in Dbs, NEW g \in Groups, NEW u \in Users, IsClosed(Assigned(s, u)),
           NEW r \in Ranks, NEW t, t = WithRank(s, g, u, r)
    PROVE  /\ t \in Dbs /\ t.member = Ranked(s.member, g, u, r)
           /\ t.roles = s.roles /\ Assigned(t, u) = Assigned(s, u)
           /\ Kept(s, t, u)
<1> DEFINE new == Ranked(s.member, g, u, r)
<1>1. t = [s EXCEPT !.member = new]
    BY DEF WithRank, Ranked
<1>2. new \in [Groups -> [Users -> Ranks]]
    BY DEF Dbs, Ranked
<1> HIDE DEF new
<1>3. /\ t \in Dbs /\ t.member = new
      /\ t.lists = s.lists /\ t.invite = s.invite /\ t.notes = s.notes
      /\ t.dialect = s.dialect /\ t.gone = s.gone /\ t.roles = s.roles
    BY <1>1, <1>2 DEF Dbs
<1>4. Assigned(t, u) = Assigned(s, u)
    BY <1>3 DEF Assigned
<1>5. Kept(s, t, u)
    BY <1>3, <1>4 DEF Kept
<1> QED
    BY <1>3, <1>4, <1>5 DEF new

\* Kept is transitive.
LEMMA KeptTransitive ==
    ASSUME NEW s, NEW t, NEW w, NEW u \in Users, Kept(s, t, u), Kept(t, w, u)
    PROVE  Kept(s, w, u)
    BY DEF Kept

\* handle_meeting_roles_through_role_added only adds.
LEMMA RoleGrantedKept ==
    ASSUME NEW s \in Dbs, NEW u \in Users, IsClosed(Assigned(s, u)),
           NEW r \in GroupRoles, NEW t, t = RoleGranted(s, u, r)
    PROVE  /\ Kept(s, t, u) /\ t.member = s.member
           /\ Assigned(s, u) \subseteq Assigned(t, u)
<1>1. CASE Grants[r] = {}
    BY <1>1 DEF RoleGranted, Kept
<1>2. CASE Grants[r] # {}
  <2>1. t = AddRoles(s, u, Grants[r])
    BY <1>2 DEF RoleGranted
  <2>2. Grants[r] \in SUBSET Roles
    BY MembershipAssumption
  <2> QED
    BY <2>1, <2>2, AddRolesKept
<1> QED
    BY <1>1, <1>2

\* What is granted when the membership has a role.
LEMMA GrantedAfter ==
    ASSUME NEW s \in Dbs, NEW g \in Groups, NEW u \in Users, IsClosed(Assigned(s, u)),
           NEW r \in GroupRoles, NEW t, t = RoleGranted(WithRank(s, g, u, r), u, r)
    PROVE  Regrouped(s, t, g, u, r) /\ Assigned(s, u) \subseteq Assigned(t, u)
<1> DEFINE row == WithRank(s, g, u, r)
<1>1. r \in Ranks
    BY DEF Ranks
<1>2. Kept(s, row, u) /\ Assigned(row, u) = Assigned(s, u)
    BY <1>1, MemberSetKept
<1>3. row \in Dbs /\ row.member = Ranked(s.member, g, u, r)
    BY <1>1, MemberSetKept
<1>4. t = RoleGranted(row, u, r)
    OBVIOUS
<1> HIDE DEF row
<1>5. Kept(row, t, u) /\ t.member = row.member /\ Assigned(row, u) \subseteq Assigned(t, u)
    BY <1>2, <1>3, <1>4, RoleGrantedKept
<1>6. Kept(s, t, u)
    BY <1>2, <1>5, KeptTransitive
<1> QED
    BY <1>2, <1>3, <1>5, <1>6 DEF Regrouped, IsModerator

\* What is withdrawn when the membership has lost its role.
LEMMA WithdrawnAfter ==
    ASSUME NEW s \in Dbs, NEW g \in Groups, NEW u \in Users, IsClosed(Assigned(s, u)),
           s.member[g][u] \in GroupRoles,
           NEW t, t = RoleWithdrawn(WithRank(s, g, u, NoRole), g, u, s.member[g][u])
    PROVE  Regrouped(s, t, g, u, NoRole)
<1> DEFINE row == WithRank(s, g, u, NoRole)
           old == s.member[g][u]
<1>1. NoRole \in Ranks /\ old # NoRole
    BY NonesAssumption DEF Ranks
<1>2. Kept(s, row, u) /\ Assigned(row, u) = Assigned(s, u)
    BY <1>1, MemberSetKept
<1>3. row \in Dbs /\ row.member = Ranked(s.member, g, u, NoRole)
    BY <1>1, MemberSetKept
<1>4. t = RoleWithdrawn(row, g, u, old)
    OBVIOUS
<1> HIDE DEF row
<1>5. Kept(row, t, u) /\ t.member = row.member /\ Assigned(row, u) \ Grants[old] \subseteq Assigned(t, u)
    BY <1>2, <1>3, <1>4, RoleWithdrawnKept
<1>6. Kept(s, t, u)
    BY <1>2, <1>5, KeptTransitive
<1> QED
    BY <1>1, <1>2, <1>3, <1>5, <1>6 DEF Regrouped, IsModerator, Carried

\* What is withdrawn before the membership is deleted.
LEMMA WithdrawnBefore ==
    ASSUME NEW s \in Dbs, NEW g \in Groups, NEW u \in Users, IsClosed(Assigned(s, u)),
           s.member[g][u] \in GroupRoles,
           NEW w, w = RoleWithdrawn(s, g, u, s.member[g][u]),
           NEW t, t = WithRank(w, g, u, NotMember)
    PROVE  Regrouped(s, t, g, u, NotMember)
<1> DEFINE old == s.member[g][u]
<1>1. NotMember \in Ranks /\ old # NotMember
    BY NonesAssumption DEF Ranks
<1>2. Kept(s, w, u) /\ w.member = s.member /\ Assigned(s, u) \ Grants[old] \subseteq Assigned(w, u)
    BY RoleWithdrawnKept
<1>3. w \in Dbs /\ IsClosed(Assigned(w, u))
    BY <1>2 DEF Kept
<1>4. Kept(w, t, u) /\ Assigned(t, u) = Assigned(w, u)
    BY <1>1, <1>3, MemberSetKept
<1>5. t.member = Ranked(w.member, g, u, NotMember)
    BY <1>1, <1>3, MemberSetKept
<1>6. Kept(s, t, u)
    BY <1>2, <1>4, KeptTransitive
<1> QED
    BY <1>1, <1>2, <1>4, <1>5, <1>6 DEF Regrouped, IsModerator, Carried

\* A membership that changes with no word to anyone.
LEMMA RegroupedSilently ==
    ASSUME NEW s \in Dbs, NEW g \in Groups, NEW u \in Users, IsClosed(Assigned(s, u)),
           NEW r \in Ranks, NEW t, t = WithRank(s, g, u, r)
    PROVE  Regrouped(s, t, g, u, r) /\ Assigned(t, u) = Assigned(s, u)
<1>1. Kept(s, t, u) /\ Assigned(t, u) = Assigned(s, u)
    BY MemberSetKept
<1>2. t.member = Ranked(s.member, g, u, r)
    BY MemberSetKept
<1> QED
    BY <1>1, <1>2 DEF Regrouped, IsModerator

\* GroupMembership.objects.create takes no role.
LEMMA AddMembershipRegroups ==
    ASSUME NEW s \in Dbs, NEW g \in Groups, NEW u \in Users, IsClosed(Assigned(s, u)),
           NEW r \in GroupRoles \cup {NoRole}, NEW t, t = AddMembership(s, g, u, r)
    PROVE  Regrouped(s, t, g, u, r) /\ Assigned(s, u) \subseteq Assigned(t, u)
<1>1. CASE r = NoRole
  <2>1. t = WithRank(s, g, u, r) /\ r \in Ranks
    BY <1>1 DEF AddMembership, WithRank, Ranks
  <2>2. Regrouped(s, t, g, u, r) /\ Assigned(t, u) = Assigned(s, u)
    BY <2>1, RegroupedSilently
  <2> QED
    BY <2>2
<1>2. CASE r # NoRole
  <2>1. t = RoleGranted(WithRank(s, g, u, r), u, r)
    BY <1>2 DEF AddMembership, WithRank
  <2>2. r \in GroupRoles
    BY <1>2
  <2> QED
    BY <2>1, <2>2, GrantedAfter
<1> QED
    BY <1>1, <1>2

\* GroupMembershipViewSet.perform_update.
LEMMA UpdateMembershipRegroups ==
    ASSUME NEW s \in Dbs, NEW g \in Groups, NEW u \in Users, IsClosed(Assigned(s, u)),
           s.member[g][u] # NotMember,
           NEW r \in GroupRoles \cup {NoRole}, NEW t, t = UpdateMembership(s, g, u, r)
    PROVE  Regrouped(s, t, g, u, r)
<1> DEFINE old == s.member[g][u]
<1>1. old \in GroupRoles \cup {NoRole} /\ r \in Ranks
    BY DEF Dbs, Ranks
<1>2. CASE old = NoRole /\ r # NoRole
  <2>1. t = RoleGranted(WithRank(s, g, u, r), u, r) /\ r \in GroupRoles
    BY <1>2 DEF UpdateMembership, WithRank
  <2> QED
    BY <2>1, GrantedAfter
<1>3. CASE old # NoRole /\ r = NoRole
  <2>1. t = RoleWithdrawn(WithRank(s, g, u, NoRole), g, u, old)
    BY <1>3 DEF UpdateMembership, WithRank
  <2>2. old \in GroupRoles
    BY <1>1, <1>3
  <2> QED
    BY <1>3, <2>1, <2>2, WithdrawnAfter
<1>4. CASE ~(old = NoRole /\ r # NoRole) /\ ~(old # NoRole /\ r = NoRole)
  <2>1. t = WithRank(s, g, u, r)
    BY <1>4 DEF UpdateMembership, WithRank
  <2> QED
    BY <1>1, <2>1, RegroupedSilently
<1> QED
    BY <1>2, <1>3, <1>4

\* A membership that is deleted.
LEMMA DropMembershipRegroups ==
    ASSUME NEW s \in Dbs, NEW g \in Groups, NEW u \in Users, IsClosed(Assigned(s, u)),
           NEW t, t = DropMembership(s, g, u)
    PROVE  Regrouped(s, t, g, u, NotMember)
<1>1. CASE s.member[g][u] \in GroupRoles
  <2> DEFINE w == RoleWithdrawn(s, g, u, s.member[g][u])
  <2>1. t = WithRank(w, g, u, NotMember)
    BY <1>1 DEF DropMembership, WithRank
  <2> HIDE DEF w
  <2>2. w = RoleWithdrawn(s, g, u, s.member[g][u])
    BY DEF w
  <2> QED
    BY <1>1, <2>1, <2>2, WithdrawnBefore
<1>2. CASE s.member[g][u] \notin GroupRoles
  <2>1. t = WithRank(s, g, u, NotMember) /\ NotMember \in Ranks
    BY <1>2 DEF DropMembership, WithRank, Ranks
  <2> QED
    BY <2>1, RegroupedSilently
<1> QED
    BY <1>1, <1>2

\* InviteGroup.accepted for one annotation.
LEMMA ApplyNoteRegroups ==
    ASSUME NEW s \in Dbs, NEW g \in Groups, NEW u \in Users, IsClosed(Assigned(s, u)),
           NEW r \in GroupRoles \cup {NoRole}, NEW t, t = ApplyNote(s, g, u, r)
    PROVE  Regrouped(s, t, g, u, r)
<1> DEFINE old == s.member[g][u]
           bare == WithRank(s, g, u, NoRole)
<1>0. /\ old \in Ranks /\ r \in Ranks /\ r # NotMember /\ NoRole # NotMember
      /\ NoRole \notin GroupRoles /\ NotMember \notin GroupRoles
    BY NonesAssumption DEF Dbs, Ranks
<1>1. CASE old = NotMember
  <2>1. t = AddMembership(s, g, u, r)
    BY <1>0, <1>1 DEF ApplyNote, WithRank
  <2> QED
    BY <2>1, AddMembershipRegroups
<1>2. CASE old \in GroupRoles /\ r = NoRole
  <2>1. t = RoleWithdrawn(bare, g, u, old)
    BY <1>0, <1>2 DEF ApplyNote, WithRank
  <2> QED
    BY <1>2, <2>1, WithdrawnAfter
<1>3. CASE old = NoRole /\ r # NoRole
  <2>1. t = RoleGranted(WithRank(s, g, u, r), u, r) /\ r \in GroupRoles
    BY <1>0, <1>3 DEF ApplyNote, WithRank
  <2> QED
    BY <2>1, GrantedAfter
<1>4. CASE old \in GroupRoles /\ r # NoRole /\ old # r
  <2> DEFINE w == RoleWithdrawn(bare, g, u, old)
  <2>1. t = RoleGranted(WithRank(w, g, u, r), u, r) /\ r \in GroupRoles
    BY <1>0, <1>4 DEF ApplyNote, WithRank
  <2>2. Regrouped(s, w, g, u, NoRole)
    BY <1>4, WithdrawnAfter
  <2> HIDE DEF w
  <2>3. Kept(s, w, u) /\ w.member = Ranked(s.member, g, u, NoRole)
    BY <2>2 DEF Regrouped
  <2>4. w \in Dbs /\ IsClosed(Assigned(w, u))
    BY <2>3 DEF Kept
  <2>5. Regrouped(w, t, g, u, r) /\ Assigned(w, u) \subseteq Assigned(t, u)
    BY <2>1, <2>4, GrantedAfter
  <2>6. Kept(s, t, u)
    BY <2>3, <2>5, KeptTransitive DEF Regrouped
  <2>7. t.member = Ranked(s.member, g, u, r)
    <3>1. t.member = Ranked(w.member, g, u, r)
        BY <2>5 DEF Regrouped
    <3>2. s.member \in [Groups -> [Users -> Ranks]]
        BY DEF Dbs
    <3> QED
        BY <2>3, <3>1, <3>2 DEF Ranked
  <2>8. IsModerator(s, u) => IsModerator(t, u) \/ Carried(s, g, u)
    BY <2>2, <2>5 DEF Regrouped, IsModerator
  <2> QED
    BY <1>4, <2>6, <2>7, <2>8 DEF Regrouped
<1>5. CASE ~(old = NotMember) /\ ~(old \in GroupRoles /\ r = NoRole)
           /\ ~(old = NoRole /\ r # NoRole) /\ ~(old \in GroupRoles /\ r # NoRole /\ old # r)
  <2>1. t = s
    BY <1>5 DEF ApplyNote, WithRank
  <2>2. old = r
    BY <1>0, <1>5 DEF Ranks
  <2>3. s.member = Ranked(s.member, g, u, r)
    BY <2>2 DEF Dbs, Ranked
  <2> QED
    BY <2>1, <2>3 DEF Regrouped, Kept
<1> QED
    BY <1>1, <1>2, <1>3, <1>4, <1>5

-----------------------------------------------------------------------------
(* Answers to an invite, and a group that is deleted                       *)

\* Which membership has changed.
LEMMA RankedIs ==
    ASSUME NEW m \in [Groups -> [Users -> Ranks]], NEW g \in Groups, NEW u \in Users,
           NEW r \in Ranks, NEW n, n = Ranked(m, g, u, r)
    PROVE  /\ n[g][u] = r
           /\ \A h \in Groups, v \in Users : h # g \/ v # u => n[h][v] = m[h][v]
    BY DEF Ranked

\* u has lost the moderator role at most with a group role that carried it.
ModeratorUnless(s, t, u) ==
    IsModerator(s, u) =>
        \/ IsModerator(t, u)
        \/ \E g \in Groups : Carried(s, g, u) /\ t.member[g][u] # s.member[g][u]

\* Some of the annotations of invite i have been applied for u.
Noted(s, t, i, u) ==
    /\ Kept(s, t, u) /\ t.roles[u] # NoRow
    /\ \A g \in Groups : t.member[g][u] \in {s.member[g][u], s.notes[i][g]}
    /\ ModeratorUnless(s, t, u)

\* One more annotation is applied.
LEMMA NoteApplied ==
    ASSUME NEW s \in Dbs, NEW i \in Idents, NEW u \in Users, NEW t, Noted(s, t, i, u),
           NEW g \in Groups, s.notes[i][g] # NotMember,
           NEW w, w = ApplyNote(t, g, u, s.notes[i][g])
    PROVE  Noted(s, w, i, u)
<1> DEFINE r == s.notes[i][g]
<1>1. r \in GroupRoles \cup {NoRole} /\ r \in Ranks
    BY DEF Dbs, Ranks
<1>2. t \in Dbs /\ IsClosed(Assigned(t, u)) /\ Kept(s, t, u)
    BY DEF Noted, Kept
<1>3. Regrouped(t, w, g, u, r)
    BY <1>1, <1>2, ApplyNoteRegroups
<1>4. Kept(t, w, u) /\ w.member = Ranked(t.member, g, u, r)
    BY <1>3 DEF Regrouped
<1>5. Kept(s, w, u) /\ w.roles[u] # NoRow
    BY <1>2, <1>4, KeptTransitive DEF Noted, Kept
<1>6. t.member \in [Groups -> [Users -> Ranks]]
    BY <1>2 DEF Dbs
<1>7. w.member[g][u] = r /\ \A h \in Groups : h # g => w.member[h][u] = t.member[h][u]
    BY <1>1, <1>4, <1>6, RankedIs
<1>8. \A h \in Groups : w.member[h][u] \in {s.member[h][u], s.notes[i][h]}
    BY <1>7 DEF Noted
<1>9. ASSUME IsModerator(s, u), ~IsModerator(w, u)
      PROVE  \E h \in Groups : Carried(s, h, u) /\ w.member[h][u] # s.member[h][u]
  <2>1. CASE IsModerator(t, u)
    <3>1. Carried(t, g, u) /\ r # t.member[g][u]
        BY <1>3, <1>9, <2>1 DEF Regrouped
    <3>2. t.member[g][u] = s.member[g][u]
        BY <3>1 DEF Noted
    <3>3. Carried(s, g, u) /\ w.member[g][u] # s.member[g][u]
        BY <1>7, <3>1, <3>2 DEF Carried
    <3> QED
        BY <3>3
  <2>2. CASE ~IsModerator(t, u)
    <3>1. PICK h \in Groups : Carried(s, h, u) /\ t.member[h][u] # s.member[h][u]
        BY <1>9, <2>2 DEF Noted, ModeratorUnless
    <3>2. t.member[h][u] = s.notes[i][h]
        BY <3>1 DEF Noted
    <3>3. w.member[h][u] = t.member[h][u]
        BY <1>7, <3>2
    <3> QED
        BY <3>1, <3>3
  <2> QED
    BY <2>1, <2>2
<1> QED
    BY <1>5, <1>8, <1>9 DEF Noted, ModeratorUnless

\* InviteStateMachine.accept: the tables stay sound, whatever copy of the
\* invite the request has read.
LEMMA AcceptSound ==
    ASSUME NEW s, Sound(s), NEW i \in Idents, NEW u \in Users, NEW copy \in Invites,
           NEW t, t = Accept(s, i, u, copy)
    PROVE  /\ Sound(t) /\ t.gone = s.gone
           /\ \A v \in Users : ModeratorUnless(s, t, v)
<1> DEFINE noted == {g \in Groups : s.notes[i][g] # NotMember}
           base == AddRoles(s, u, copy.roles)
           Step(f, x) == IF x = {} THEN base
                         ELSE ApplyNote(f[Others(x)], First(x), u, s.notes[i][First(x)])
           f == CHOOSE f : f = [x \in SUBSET noted |-> Step(f, x)]
           D == {w \in Dbs : Noted(s, w, i, u)}
<1>1. s \in Dbs /\ IsClosed(Assigned(s, u)) /\ copy.roles \in SUBSET Roles
    BY DEF Sound, Invites
<1>2. base \in D
  <2>1. /\ Kept(s, base, u) /\ base.member = s.member
        /\ Assigned(base, u) = Assigned(s, u) \cup Required(copy.roles)
        /\ base.roles[u] # NoRow
    BY <1>1, AddRolesKept
  <2>2. base \in Dbs
    BY <2>1 DEF Kept
  <2>3. Noted(s, base, i, u)
    BY <2>1 DEF Noted, ModeratorUnless, IsModerator
  <2> QED
    BY <2>2, <2>3
<1> HIDE DEF base
<1>3. ASSUME NEW w \in D, NEW g \in noted
      PROVE  ApplyNote(w, g, u, s.notes[i][g]) \in D
  <2> DEFINE x == ApplyNote(w, g, u, s.notes[i][g])
  <2>1. Noted(s, x, i, u)
    BY <1>1, <1>3, NoteApplied
  <2>2. x \in Dbs
    BY <2>1 DEF Noted, Kept
  <2> QED
    BY <2>1, <2>2
<1>4. IsFiniteSet(noted)
    BY FiniteAssumption, FS_Subset
<1>5. \E h : h = [x \in SUBSET noted |-> Step(h, x)]
  <2> DEFINE F == [p \in noted \X D |-> ApplyNote(p[2], p[1], u, s.notes[i][p[1]])]
  <2>1. F \in [noted \X D -> D]
    BY <1>3
  <2>2. \A g \in noted, w \in D : F[<<g, w>>] = ApplyNote(w, g, u, s.notes[i][g])
    OBVIOUS
  <2> HIDE DEF F, D, noted
  <2>3. PICK h : IsFold(F, base, noted, h) /\ \A x \in SUBSET noted : h[x] \in D
    BY <1>2, <1>4, <2>1, FoldExists
  <2>4. ASSUME NEW x \in SUBSET noted PROVE FoldStep(F, base, h, x) = Step(h, x)
    <3>1. CASE x = {}
        BY <3>1 DEF FoldStep
    <3>2. CASE x # {}
        <4>1. First(x) \in noted /\ h[Others(x)] \in D
            BY <2>3, <3>2 DEF First, Others
        <4> QED
            BY <2>2, <3>2, <4>1 DEF FoldStep
    <3> QED
        BY <3>1, <3>2
  <2>5. h = [x \in SUBSET noted |-> Step(h, x)]
    BY <2>3, <2>4 DEF IsFold
  <2> QED
    BY <2>5
<1>6. f = [x \in SUBSET noted |-> Step(f, x)]
    BY <1>5
<1>7. t = [f[noted] EXCEPT !.invite[i] = [copy EXCEPT !.state = "accepted", !.used_by = u],
                           !.notes[i] = [g \in Groups |-> NotMember]]
    BY DEF Accept, FoldSet, MapThenFoldSet, First, Others, base
<1> HIDE DEF f
<1>8. f[noted] \in D
  <2> DEFINE P == {x \in SUBSET noted : f[x] \in D}
  <2>1. \A x \in SUBSET noted : f[x] = Step(f, x)
    BY <1>6
  <2>2. {} \in P
    BY <1>2, <2>1
  <2>3. ASSUME NEW x \in SUBSET noted, x # {}, Others(x) \in P PROVE x \in P
    <3>1. First(x) \in noted /\ f[Others(x)] \in D
        BY <2>3 DEF First
    <3>2. f[x] = ApplyNote(f[Others(x)], First(x), u, s.notes[i][First(x)])
        BY <2>1, <2>3
    <3> HIDE DEF D, noted
    <3> QED
        BY <1>3, <3>1, <3>2
  <2>4. P \in SUBSET SUBSET noted
    OBVIOUS
  <2>5. noted \in P
    <3> HIDE DEF P, noted
    <3> QED
        BY <1>4, <2>2, <2>3, <2>4, FoldInduction
  <2> QED
    BY <2>5
<1>9. PICK w \in D : w = f[noted]
    BY <1>8
<1> HIDE DEF f, noted
<1>10. w \in Dbs /\ Noted(s, w, i, u) /\ Kept(s, w, u)
    BY <1>9 DEF Noted
<1> HIDE DEF D
<1>11. Sound(w)
    BY <1>10, KeptSound
<1> DEFINE inv == [copy EXCEPT !.state = "accepted", !.used_by = u]
           bare == [g \in Groups |-> NotMember]
<1>12. t = [w EXCEPT !.invite[i] = inv, !.notes[i] = bare]
    BY <1>7, <1>9
<1>13. /\ inv \in Invites /\ inv.used_by = u /\ inv # NoInvite
       /\ bare \in [Groups -> Ranks] /\ \A g \in Groups : bare[g] = NotMember
    BY NonesAssumption DEF Invites, InviteStates, Ranks
<1> HIDE DEF inv, bare
<1>14. /\ t \in Dbs /\ t.roles = w.roles /\ t.lists = w.lists /\ t.member = w.member
       /\ t.gone = w.gone /\ t.dialect = w.dialect
       /\ t.invite[i] = inv /\ t.notes[i] = bare
       /\ \A j \in Idents \ {i} : t.invite[j] = w.invite[j] /\ t.notes[j] = w.notes[j]
  <2> DEFINE ni == [w.invite EXCEPT ![i] = inv]
             nn == [w.notes EXCEPT ![i] = bare]
  <2>1. t = [w EXCEPT !.invite = ni, !.notes = nn]
    BY <1>12
  <2>2. /\ ni \in [Idents -> Invites \cup {NoInvite}] /\ nn \in [Idents -> [Groups -> Ranks]]
        /\ ni[i] = inv /\ nn[i] = bare
        /\ \A j \in Idents \ {i} : ni[j] = w.invite[j] /\ nn[j] = w.notes[j]
    BY <1>10, <1>13 DEF Dbs
  <2> HIDE DEF ni, nn
  <2>3. /\ t \in Dbs /\ t.roles = w.roles /\ t.lists = w.lists /\ t.member = w.member
        /\ t.gone = w.gone /\ t.dialect = w.dialect
        /\ t.invite = ni /\ t.notes = nn
    BY <1>10, <2>1, <2>2 DEF Dbs
  <2> QED
    BY <2>2, <2>3
<1>15. \A v \in Users : Assigned(t, v) = Assigned(w, v)
    BY <1>14 DEF Assigned
<1>16. \A j \in Idents : Done(t, j)
  <2>1. Done(t, i)
    BY <1>10, <1>13, <1>14 DEF Done, Noted
  <2>2. \A j \in Idents \ {i} : Done(t, j)
    BY <1>11, <1>14 DEF Done, Sound
  <2> QED
    BY <2>1, <2>2
<1>17. Sound(t)
  <2>1. t.lists \subseteq Users
    BY <1>14 DEF Dbs
  <2> QED
    BY <1>11, <1>14, <1>15, <1>16, <2>1 DEF Sound
<1>18. ASSUME NEW v \in Users PROVE ModeratorUnless(s, t, v)
  <2>1. CASE v = u
    BY <1>10, <1>14, <1>15, <2>1 DEF Noted, ModeratorUnless, IsModerator
  <2>2. CASE v # u
    BY <1>10, <1>14, <1>15, <2>2 DEF Kept, ModeratorUnless, IsModerator, Assigned
  <2> QED
    BY <2>1, <2>2
<1> QED
    BY <1>10, <1>14, <1>17, <1>18 DEF Kept

\* Some of the memberships of group g are dropped.
Dropped(s, t) ==
    /\ Sound(t) /\ t.gone = s.gone
    /\ \A v \in Users :
          /\ \A h \in Groups : t.member[h][v] \in {s.member[h][v], NotMember}
          /\ ModeratorUnless(s, t, v)

\* One more membership is dropped.
LEMMA OneDropped ==
    ASSUME NEW s \in Dbs, NEW t, Dropped(s, t), NEW g \in Groups, NEW u \in Users,
           NEW w, w = DropMembership(t, g, u)
    PROVE  Dropped(s, w)
<1>1. t \in Dbs /\ IsClosed(Assigned(t, u)) /\ Sound(t)
    BY DEF Dropped, Sound
<1>2. Regrouped(t, w, g, u, NotMember)
    BY <1>1, DropMembershipRegroups
<1>3. Kept(t, w, u) /\ w.member = Ranked(t.member, g, u, NotMember)
    BY <1>2 DEF Regrouped
<1>4. Sound(w) /\ w.gone = s.gone
    BY <1>1, <1>3, KeptSound DEF Dropped, Kept
<1>5. t.member \in [Groups -> [Users -> Ranks]] /\ NotMember \in Ranks
    BY <1>1 DEF Dbs, Ranks
<1>6. /\ w.member[g][u] = NotMember
      /\ \A h \in Groups, v \in Users : h # g \/ v # u => w.member[h][v] = t.member[h][v]
    BY <1>3, <1>5, RankedIs
<1>7. \A v \in Users, h \in Groups : w.member[h][v] \in {s.member[h][v], NotMember}
    BY <1>6 DEF Dropped
<1>8. ASSUME NEW v \in Users, IsModerator(s, v), ~IsModerator(w, v)
      PROVE  \E h \in Groups : Carried(s, h, v) /\ w.member[h][v] # s.member[h][v]
  <2>1. CASE IsModerator(t, v)
    <3>1. v = u
        BY <1>3, <1>8, <2>1 DEF Kept, IsModerator, Assigned
    <3>2. Carried(t, g, u) /\ t.member[g][u] # NotMember
        BY <1>2, <1>8, <2>1, <3>1 DEF Regrouped
    <3>3. t.member[g][u] = s.member[g][u]
        BY <3>2 DEF Dropped
    <3>4. Carried(s, g, u) /\ w.member[g][u] # s.member[g][u]
        BY <1>6, <3>2, <3>3 DEF Carried
    <3> QED
        BY <3>1, <3>4
  <2>2. CASE ~IsModerator(t, v)
    <3>1. PICK h \in Groups : Carried(s, h, v) /\ t.member[h][v] # s.member[h][v]
        BY <1>8, <2>2 DEF Dropped, ModeratorUnless
    <3>2. t.member[h][v] = NotMember
        BY <3>1 DEF Dropped
    <3>3. w.member[h][v] = t.member[h][v]
        BY <1>6, <3>2
    <3> QED
        BY <3>1, <3>3
  <2> QED
    BY <2>1, <2>2
<1> QED
    BY <1>4, <1>7, <1>8 DEF Dropped, ModeratorUnless

\* Annotations that go leave sound tables sound.
LEMMA FewerNotes ==
    ASSUME NEW s, Sound(s), NEW ns \in [Idents -> [Groups -> Ranks]],
           \A i \in Idents, g \in Groups : ns[i][g] \in {s.notes[i][g], NotMember},
           NEW t, t = [s EXCEPT !.notes = ns]
    PROVE  Sound(t) /\ t.gone = s.gone /\ t.roles = s.roles /\ t.member = s.member
<1>1. /\ t \in Dbs /\ t.roles = s.roles /\ t.lists = s.lists /\ t.invite = s.invite
      /\ t.notes = ns /\ t.gone = s.gone /\ t.member = s.member
    BY DEF Sound, Dbs
<1>2. \A i \in Idents : Done(t, i)
    BY <1>1 DEF Sound, Done
<1>3. \A u \in Users : Assigned(t, u) = Assigned(s, u)
    BY <1>1 DEF Assigned
<1>4. s.lists \subseteq Users
    BY DEF Sound, Dbs
<1> QED
    BY <1>1, <1>2, <1>3, <1>4 DEF Sound

\* The cascade of a group.
LEMMA GroupDroppedSound ==
    ASSUME NEW s, Sound(s), NEW g \in Groups, NEW t, t = GroupDropped(s, g)
    PROVE  Sound(t) /\ \A v \in Users : ModeratorUnless(s, t, v)
<1> DEFINE members == {u \in Users : s.member[g][u] # NotMember}
           Step(f, x) == IF x = {} THEN s ELSE DropMembership(f[Others(x)], g, First(x))
           f == CHOOSE f : f = [x \in SUBSET members |-> Step(f, x)]
           D == {w \in Dbs : Dropped(s, w)}
<1>1. s \in Dbs
    BY DEF Sound
<1>2. s \in D
    BY <1>1 DEF Dropped, ModeratorUnless
<1>3. ASSUME NEW w \in D, NEW u \in members
      PROVE  DropMembership(w, g, u) \in D
  <2> DEFINE x == DropMembership(w, g, u)
  <2>1. Dropped(s, x)
    BY <1>1, <1>3, OneDropped
  <2>2. x \in Dbs
    BY <2>1 DEF Dropped, Sound
  <2> QED
    BY <2>1, <2>2
<1>4. IsFiniteSet(members)
    BY FiniteAssumption, FS_Subset
<1>5. \E h : h = [x \in SUBSET members |-> Step(h, x)]
  <2> DEFINE F == [p \in members \X D |-> DropMembership(p[2], g, p[1])]
  <2>1. F \in [members \X D -> D]
    BY <1>3
  <2>2. \A u \in members, w \in D : F[<<u, w>>] = DropMembership(w, g, u)
    OBVIOUS
  <2> HIDE DEF F, D, members
  <2>3. PICK h : IsFold(F, s, members, h) /\ \A x \in SUBSET members : h[x] \in D
    BY <1>2, <1>4, <2>1, FoldExists
  <2>4. ASSUME NEW x \in SUBSET members PROVE FoldStep(F, s, h, x) = Step(h, x)
    <3>1. CASE x = {}
        BY <3>1 DEF FoldStep
    <3>2. CASE x # {}
        <4>1. First(x) \in members /\ h[Others(x)] \in D
            BY <2>3, <3>2 DEF First, Others
        <4> QED
            BY <2>2, <3>2, <4>1 DEF FoldStep
    <3> QED
        BY <3>1, <3>2
  <2>5. h = [x \in SUBSET members |-> Step(h, x)]
    BY <2>3, <2>4 DEF IsFold
  <2> QED
    BY <2>5
<1>6. f = [x \in SUBSET members |-> Step(f, x)]
    BY <1>5
<1>7. t = [f[members] EXCEPT !.notes = [i \in Idents |-> [@[i] EXCEPT ![g] = NotMember]]]
    BY DEF GroupDropped, FoldSet, MapThenFoldSet, First, Others
<1> HIDE DEF f
<1>8. f[members] \in D
  <2> DEFINE P == {x \in SUBSET members : f[x] \in D}
  <2>1. \A x \in SUBSET members : f[x] = Step(f, x)
    BY <1>6
  <2>2. {} \in P
    BY <1>2, <2>1
  <2>3. ASSUME NEW x \in SUBSET members, x # {}, Others(x) \in P PROVE x \in P
    <3>1. First(x) \in members /\ f[Others(x)] \in D
        BY <2>3 DEF First
    <3>2. f[x] = DropMembership(f[Others(x)], g, First(x))
        BY <2>1, <2>3
    <3> HIDE DEF D, members
    <3> QED
        BY <1>3, <3>1, <3>2
  <2>4. P \in SUBSET SUBSET members
    OBVIOUS
  <2>5. members \in P
    <3> HIDE DEF P, members
    <3> QED
        BY <1>4, <2>2, <2>3, <2>4, FoldInduction
  <2> QED
    BY <2>5
<1>9. PICK w \in D : w = f[members]
    BY <1>8
<1> DEFINE ns == [i \in Idents |-> [w.notes[i] EXCEPT ![g] = NotMember]]
<1>10. t = [w EXCEPT !.notes = ns]
    BY <1>7, <1>9
<1> HIDE DEF f, members
<1>11. w \in Dbs /\ Dropped(s, w) /\ Sound(w)
    BY DEF Dropped
<1> HIDE DEF D
<1>12. /\ ns \in [Idents -> [Groups -> Ranks]]
       /\ \A i \in Idents, h \in Groups : ns[i][h] \in {w.notes[i][h], NotMember}
    BY <1>11 DEF Dbs, Ranks
<1> HIDE DEF ns
<1>13. Sound(t) /\ t.roles = w.roles /\ t.member = w.member
    BY <1>10, <1>11, <1>12, FewerNotes
<1>14. \A v \in Users : ModeratorUnless(s, t, v)
    BY <1>11, <1>13 DEF Dropped, ModeratorUnless, IsModerator, Assigned
<1> QED
    BY <1>13, <1>14

-----------------------------------------------------------------------------
(* Rows that go, and what goes with them                                   *)

\* What is deleted of the invites.
LEMMA DropInvitesDrops ==
    ASSUME NEW s \in Dbs, NEW is \in SUBSET Idents, NEW t, t = DropInvites(s, is)
    PROVE  /\ t \in Dbs /\ t.roles = s.roles /\ t.lists = s.lists /\ t.member = s.member
           /\ t.dialect = s.dialect
           /\ \A i \in Idents :
                 /\ i \in is => t.invite[i] = NoInvite
                 /\ i \notin is => t.invite[i] = s.invite[i] /\ t.notes[i] = s.notes[i]
<1> DEFINE none == [g \in Groups |-> NotMember]
           ni == [i \in Idents |-> IF i \in is THEN NoInvite ELSE s.invite[i]]
           nn == [i \in Idents |-> IF i \in is THEN none ELSE s.notes[i]]
           ng == s.gone \cup is
<1>1. t = [s EXCEPT !.invite = ni, !.notes = nn, !.gone = ng]
    BY DEF DropInvites
<1>2. none \in [Groups -> Ranks]
    BY DEF Ranks
<1> HIDE DEF none
<1>3. /\ ni \in [Idents -> Invites \cup {NoInvite}] /\ nn \in [Idents -> [Groups -> Ranks]]
      /\ ng \in SUBSET (Users \cup Idents)
      /\ \A i \in Idents : /\ i \in is => ni[i] = NoInvite
                           /\ i \notin is => ni[i] = s.invite[i] /\ nn[i] = s.notes[i]
    BY <1>2 DEF Dbs
<1> HIDE DEF ni, nn, ng
<1>4. /\ t \in Dbs /\ t.roles = s.roles /\ t.lists = s.lists /\ t.member = s.member
      /\ t.dialect = s.dialect /\ t.invite = ni /\ t.notes = nn
    BY <1>1, <1>3 DEF Dbs
<1> QED
    BY <1>3, <1>4

\* From s to t at most the row of u has changed, and invites may have gone.
Parted(s, t, u) ==
    /\ Sound(t)
    /\ \A v \in Users \ {u} : t.roles[v] = s.roles[v]
    /\ \A i \in Idents : t.invite[i] \in {s.invite[i], NoInvite}

\* The pre_delete handlers of a row.
LEMMA LeftSound ==
    ASSUME NEW s, Sound(s), NEW u \in Users, u \notin s.lists, NEW t, t = Left(s, u)
    PROVE  Parted(s, t, u)
<1> DEFINE kept == [s EXCEPT !.roles[u] = NoRow, !.gone = @ \cup {u},
                             !.member = [g \in Groups |-> [@[g] EXCEPT ![u] = NotMember]]]
           nr == Rowed(s.roles, u, NoRow)
           nm == [g \in Groups |-> [s.member[g] EXCEPT ![u] = NotMember]]
           ng == s.gone \cup {u}
           is == UsedBy(s, u)
<1>1. s \in Dbs
    BY DEF Sound
<1>2. t = DropInvites(kept, is)
    BY DEF Left
<1>3. /\ nr \in [Users -> (SUBSET Roles) \cup {NoRow}] /\ nr[u] = NoRow
      /\ \A v \in Users \ {u} : nr[v] = s.roles[v]
      /\ nm \in [Groups -> [Users -> Ranks]]
      /\ ng \in SUBSET (Users \cup Idents)
      /\ kept = [s EXCEPT !.roles = nr, !.gone = ng, !.member = nm]
    BY <1>1 DEF Dbs, Ranks, Rowed
<1> HIDE DEF nr, nm, ng
<1>4. /\ kept \in Dbs /\ kept.roles = nr /\ kept.lists = s.lists
      /\ kept.invite = s.invite /\ kept.notes = s.notes
    BY <1>1, <1>3 DEF Dbs
<1> HIDE DEF kept
<1>5. /\ is \in SUBSET Idents
      /\ \A i \in Idents \ is : s.invite[i] # NoInvite => s.invite[i].used_by # u
    BY DEF UsedBy
<1> HIDE DEF is
<1>6. /\ t \in Dbs /\ t.roles = nr /\ t.lists = s.lists
      /\ \A i \in Idents :
            /\ i \in is => t.invite[i] = NoInvite
            /\ i \notin is => t.invite[i] = s.invite[i] /\ t.notes[i] = s.notes[i]
    BY <1>2, <1>4, <1>5, DropInvitesDrops
<1>7. Assigned(t, u) = {} /\ \A v \in Users \ {u} : Assigned(t, v) = Assigned(s, v)
    BY <1>3, <1>6 DEF Assigned
<1>8. \A v \in Users : IsClosed(Assigned(t, v))
    BY <1>7, RolesClosed DEF Sound
<1>9. \A v \in t.lists : "pa" \in Assigned(t, v)
  <2>1. s.lists \subseteq Users
    BY <1>1 DEF Dbs
  <2> QED
    BY <1>6, <1>7, <2>1 DEF Sound
<1>10. ASSUME NEW i \in Idents PROVE Done(t, i)
  <2>1. CASE i \in is
    BY <1>6, <2>1 DEF Done
  <2>2. CASE i \notin is
    BY <1>3, <1>5, <1>6, <2>2 DEF Sound, Done
  <2> QED
    BY <2>1, <2>2
<1>11. \A i \in Idents : t.invite[i] \in {s.invite[i], NoInvite}
    BY <1>6
<1> QED
    BY <1>3, <1>6, <1>8, <1>9, <1>10, <1>11 DEF Sound, Parted

\* The tables s when those in ls have a role in a speaker system.
WithLists(s, ls) == [s EXCEPT !.lists = ls]

\* A saved row that keeps whoever is in a list a participant.
LEMMA SavedSound ==
    ASSUME NEW s, Sound(s), NEW u \in Users, NEW rs \in SUBSET Roles, IsClosed(rs),
           NEW ls \in SUBSET s.lists, u \in ls => "pa" \in rs,
           NEW t, t = WithLists(SaveRoles(s, u, rs), ls)
    PROVE  /\ Sound(t) /\ t.invite = s.invite /\ t.lists = ls
           /\ \A v \in Users \ {u} : t.roles[v] = s.roles[v]
           /\ Assigned(t, u) = rs
<1> DEFINE w == SaveRoles(s, u, rs)
           nr == Rowed(s.roles, u, rs)
<1>1. s \in Dbs
    BY DEF Sound
<1>2. /\ w \in Dbs /\ w.lists = s.lists /\ w.invite = s.invite /\ w.notes = s.notes
      /\ w.roles = nr
    BY <1>1, SaveRolesSaves
<1>3. t = [w EXCEPT !.lists = ls]
    BY DEF WithLists
<1> HIDE DEF w
<1>4. ls \in SUBSET Users
    BY <1>1 DEF Dbs
<1>5. /\ t \in Dbs /\ t.roles = nr /\ t.lists = ls /\ t.invite = s.invite
      /\ t.notes = s.notes
    BY <1>2, <1>3, <1>4 DEF Dbs
<1>6. nr[u] = rs /\ rs # NoRow /\ \A v \in Users \ {u} : nr[v] = s.roles[v]
    BY <1>1, NonesAssumption DEF Dbs, Rowed
<1> HIDE DEF nr
<1>7. Assigned(t, u) = rs /\ \A v \in Users \ {u} : Assigned(t, v) = Assigned(s, v)
    BY <1>5, <1>6 DEF Assigned
<1>8. \A v \in Users : IsClosed(Assigned(t, v))
    BY <1>7 DEF Sound
<1>9. \A v \in t.lists : "pa" \in Assigned(t, v)
    BY <1>4, <1>5, <1>7 DEF Sound
<1>10. \A i \in Idents : Done(t, i)
    BY <1>5, <1>6 DEF Sound, Done
<1> QED
    BY <1>5, <1>6, <1>7, <1>8, <1>9, <1>10 DEF Sound

\* Roles.remove, from whatever row the request has read.
LEMMA RemoveFromSound ==
    ASSUME NEW s, Sound(s), NEW u \in Users, NEW base \in SUBSET Roles, IsClosed(base),
           NEW rs \in SUBSET Roles, NEW t, t = RemoveFrom(s, u, base, rs)
    PROVE  Parted(s, t, u)
<1> DEFINE left == base \ ReverseRequired(rs)
           ls == IF "pa" \in base \ left THEN s.lists \ {u} ELSE s.lists
           saved == WithLists(SaveRoles(s, u, left), ls)
<1>0. s \in Dbs
    BY DEF Sound
<1>1. left \in SUBSET Roles /\ IsClosed(left) /\ (base # {} => "pa" \in base)
    BY RolesClosed
<1>2. CASE left = base
  <2>1. t = s
    BY <1>2 DEF RemoveFrom
  <2> QED
    BY <2>1 DEF Parted
<1>3. CASE left # base
  <2>1. "pa" \in base
    BY <1>1, <1>3
  <2>2. ls \in SUBSET s.lists /\ (u \in ls => "pa" \in left)
    BY <2>1
  <2>3. t = IF left = {} THEN Left(saved, u) ELSE saved
    <3>1. SaveRoles(s, u, left).lists = s.lists
        <4> HIDE DEF left
        <4> QED
            BY <1>0, <1>1, SaveRolesSaves
    <3>2. saved = [SaveRoles(s, u, left) EXCEPT
                      !.lists = IF "pa" \in base \ left THEN @ \ {u} ELSE @]
        BY <3>1 DEF WithLists
    <3> QED
        BY <1>3, <3>2 DEF RemoveFrom
  <2>4. left = {} => u \notin ls
    BY <2>2
  <2> HIDE DEF left, ls
  <2>5. /\ Sound(saved) /\ saved.invite = s.invite /\ saved.lists = ls
        /\ \A v \in Users \ {u} : saved.roles[v] = s.roles[v]
    BY <1>1, <2>2, SavedSound
  <2> HIDE DEF saved
  <2>6. CASE left = {}
    <3>1. Parted(saved, t, u)
        BY <2>3, <2>4, <2>5, <2>6, LeftSound
    <3> QED
        BY <2>5, <3>1 DEF Parted
  <2>7. CASE left # {}
    BY <2>3, <2>5, <2>7 DEF Parted
  <2> QED
    BY <2>6, <2>7
<1> QED
    BY <1>2, <1>3

\* Meeting.remove_roles of whatever roles.
LEMMA RemoveRolesSound ==
    ASSUME NEW s, Sound(s), NEW u \in Users, NEW rs \in SUBSET Roles,
           NEW t, t = RemoveRoles(s, u, rs)
    PROVE  Parted(s, t, u)
<1>1. CASE s.roles[u] = NoRow
    BY <1>1 DEF RemoveRoles, Parted
<1>2. CASE s.roles[u] # NoRow
  <2> DEFINE base == s.roles[u]
  <2>1. base \in SUBSET Roles
    BY <1>2 DEF Sound, Dbs
  <2>2. IsClosed(base)
    BY <1>2 DEF Sound, Assigned
  <2>3. t = RemoveFrom(s, u, base, rs)
    BY <1>2 DEF RemoveRoles
  <2> HIDE DEF base
  <2> QED
    BY <2>1, <2>2, <2>3, RemoveFromSound
<1> QED
    BY <1>1, <1>2

\* Roles.add, to whatever row the request has read.
LEMMA AddToSound ==
    ASSUME NEW s, Sound(s), NEW u \in Users, NEW base \in SUBSET Roles, IsClosed(base),
           NEW rs \in SUBSET Roles, rs # {}, NEW t, t = AddTo(s, u, base, rs)
    PROVE  /\ Sound(t)
           /\ \A v \in Users \ {u} : t.roles[v] = s.roles[v]
           /\ t = s \/ base \subseteq Assigned(t, u)
<1> DEFINE new == base \cup Required(rs)
           saved == WithLists(SaveRoles(s, u, new), s.lists)
<1>1. s \in Dbs
    BY DEF Sound
<1>2. new \in SUBSET Roles /\ IsClosed(new)
    BY RolesClosed
<1>3. "pa" \in new
    BY DEF Required
<1>4. CASE Required(rs) \subseteq base
    BY <1>4 DEF AddTo
<1>5. CASE ~(Required(rs) \subseteq base)
  <2>1. t = SaveRoles(s, u, new)
    BY <1>5 DEF AddTo
  <2>2. base \subseteq new
    OBVIOUS
  <2> HIDE DEF new
  <2>3. t \in Dbs /\ t.lists = s.lists
    BY <1>1, <1>2, <2>1, SaveRolesSaves
  <2>4. t = saved
    BY <2>1, <2>3 DEF Dbs, WithLists
  <2>5. /\ Sound(saved)
        /\ \A v \in Users \ {u} : saved.roles[v] = s.roles[v]
        /\ Assigned(saved, u) = new
    <3>1. s.lists \in SUBSET s.lists
        OBVIOUS
    <3> QED
        BY <1>2, <1>3, <3>1, SavedSound
  <2> QED
    BY <2>2, <2>4, <2>5
<1> QED
    BY <1>4, <1>5

-----------------------------------------------------------------------------
(* Invites that are written                                                *)

\* The tables s when invite i, or its annotation for group g, has been written.
WithInvite(s, i, inv) == [s EXCEPT !.invite[i] = inv]
WithNote(s, i, g, r) == [s EXCEPT !.notes[i][g] = r]

\* An invite is accepted only where it was, by whoever had accepted it.
LEMMA InviteSaved ==
    ASSUME NEW s, Sound(s), NEW i \in Idents, NEW inv \in Invites,
           inv.state = "accepted" =>
               /\ s.invite[i] # NoInvite /\ s.invite[i].state = "accepted"
               /\ inv.used_by = s.invite[i].used_by,
           NEW t, t = WithInvite(s, i, inv)
    PROVE  /\ Sound(t) /\ t.roles = s.roles /\ t.gone = s.gone /\ t.dialect = s.dialect
           /\ t.member = s.member
           /\ t.invite[i] = inv /\ inv # NoInvite
<1> DEFINE ni == [s.invite EXCEPT ![i] = inv]
<1>1. s \in Dbs
    BY DEF Sound
<1>2. t = [s EXCEPT !.invite = ni]
    BY DEF WithInvite
<1>3. /\ ni \in [Idents -> Invites \cup {NoInvite}] /\ ni[i] = inv /\ inv # NoInvite
      /\ \A j \in Idents \ {i} : ni[j] = s.invite[j]
    BY <1>1, NonesAssumption DEF Dbs
<1> HIDE DEF ni
<1>4. /\ t \in Dbs /\ t.roles = s.roles /\ t.gone = s.gone /\ t.dialect = s.dialect
      /\ t.member = s.member /\ t.lists = s.lists /\ t.notes = s.notes /\ t.invite = ni
    BY <1>1, <1>2, <1>3 DEF Dbs
<1>5. \A u \in Users : Assigned(t, u) = Assigned(s, u)
    BY <1>4 DEF Assigned
<1>6. s.lists \subseteq Users
    BY <1>1 DEF Dbs
<1>7. ASSUME NEW j \in Idents PROVE Done(t, j)
  <2>1. CASE j = i
    BY <1>3, <1>4, <2>1 DEF Sound, Done
  <2>2. CASE j # i
    BY <1>3, <1>4, <2>2 DEF Sound, Done
  <2> QED
    BY <2>1, <2>2
<1> QED
    BY <1>3, <1>4, <1>5, <1>6, <1>7 DEF Sound

\* An annotation is stored only on an invite that nobody has used.
LEMMA NoteSaved ==
    ASSUME NEW s, Sound(s), NEW i \in Idents, NEW g \in Groups, NEW r \in Ranks,
           s.invite[i] # NoInvite => s.invite[i].used_by = Nobody,
           NEW t, t = WithNote(s, i, g, r)
    PROVE  Sound(t) /\ t.roles = s.roles
<1> DEFINE nn == [s.notes EXCEPT ![i][g] = r]
<1>1. s \in Dbs
    BY DEF Sound
<1>2. t = [s EXCEPT !.notes = nn]
    BY DEF WithNote
<1>3. /\ nn \in [Idents -> [Groups -> Ranks]]
      /\ \A j \in Idents \ {i} : nn[j] = s.notes[j]
    BY <1>1 DEF Dbs
<1> HIDE DEF nn
<1>4. /\ t \in Dbs /\ t.roles = s.roles /\ t.lists = s.lists /\ t.notes = nn
      /\ t.invite = s.invite
    BY <1>1, <1>2, <1>3 DEF Dbs
<1>5. \A u \in Users : Assigned(t, u) = Assigned(s, u)
    BY <1>4 DEF Assigned
<1>6. s.lists \subseteq Users
    BY <1>1 DEF Dbs
<1>7. ASSUME NEW j \in Idents PROVE Done(t, j)
  <2>1. CASE j = i
    BY <1>4, <2>1, NonesAssumption DEF Sound, Done
  <2>2. CASE j # i
    BY <1>3, <1>4, <2>2 DEF Sound, Done
  <2> QED
    BY <2>1, <2>2
<1> QED
    BY <1>4, <1>5, <1>6, <1>7 DEF Sound

\* MeetingInviteManager._update_assigned_roles: a moderator whose roles still
\* hold moderator and participant stays one.
LEMMA UpdateAssignedSound ==
    ASSUME NEW s, Sound(s), NEW u \in Users, NEW rs \in SUBSET Roles,
           NEW t, t = UpdateAssigned(s, u, rs)
    PROVE  /\ Parted(s, t, u)
           /\ "pa" \in rs /\ "mo" \in rs /\ IsModerator(s, u) => IsModerator(t, u)
<1> DEFINE current == Assigned(s, u)
           away == current \ (rs \cup Ignored(s))
           removed == RemoveRoles(s, u, away)
           added == rs \ (current \cup Ignored(s))
<1>1. s \in Dbs /\ IsClosed(current) /\ current \in SUBSET Roles
    BY DEF Sound, Dbs, Assigned
<1>2. t = IF added = {} THEN removed ELSE AddRoles(removed, u, added)
    BY DEF UpdateAssigned
<1>3. away \in SUBSET Roles /\ added \in SUBSET Roles
    BY <1>1
<1>4. Parted(s, removed, u)
  <2> HIDE DEF away
  <2> QED
    BY <1>3, RemoveRolesSound
<1>5. ASSUME "pa" \in rs, "mo" \in rs, IsModerator(s, u)
      PROVE  IsModerator(removed, u)
  <2>1. away \in SUBSET (Roles \ {"pa"}) /\ "mo" \notin away /\ "mo" \in current
    BY <1>3, <1>5 DEF IsModerator
  <2> HIDE DEF away
  <2>2. Assigned(removed, u) = current \ away
    BY <1>1, <2>1, RemoveRolesRemoves
  <2> QED
    BY <2>1, <2>2 DEF IsModerator
<1> HIDE DEF removed, added
<1>6. CASE added = {}
    BY <1>2, <1>4, <1>5, <1>6
<1>7. CASE added # {}
  <2>1. Sound(removed) /\ removed \in Dbs /\ IsClosed(Assigned(removed, u))
    BY <1>4 DEF Parted, Sound
  <2>2. t = AddRoles(removed, u, added)
    BY <1>2, <1>7
  <2>3. Kept(removed, t, u) /\ Assigned(t, u) = Assigned(removed, u) \cup Required(added)
    BY <1>3, <2>1, <2>2, AddRolesKept
  <2>4. Sound(t)
    BY <2>1, <2>3, KeptSound
  <2>5. Parted(s, t, u)
    BY <1>4, <2>3, <2>4 DEF Parted, Kept
  <2> QED
    BY <1>5, <2>3, <2>5 DEF IsModerator
<1> QED
    BY <1>6, <1>7

\* The user of invite i.
Uses(s, i, u) == s.invite[i] # NoInvite /\ s.invite[i].used_by = u

\* MeetingInviteManager.create_or_update_mixed for one recipient.
LEMMA CreateOrUpdateSound ==
    ASSUME NEW s, Sound(s), NEW i \in Idents, NEW offered \in SUBSET Roles,
           NEW t, t = CreateOrUpdate(s, i, offered)
    PROVE  /\ Sound(t) /\ t.invite[i] \in Invites
           /\ \A v \in Users :
                 IsModerator(s, v) /\ (Uses(s, i, v) => "pa" \in offered /\ "mo" \in offered)
                     => IsModerator(t, v)
<1> DEFINE rs == offered \ Ignored(s)
           inv == s.invite[i]
           new == NewInvite(rs)
           reopened == IF inv.state \in {"open", "accepted"} THEN inv.state ELSE "open"
           row == [inv EXCEPT !.roles = rs, !.state = reopened]
           updated == WithInvite(s, i, row)
           synced == IF inv.used_by = Nobody \/ inv.roles = rs THEN updated
                     ELSE UpdateAssigned(updated, inv.used_by, rs)
<1>1. /\ s \in Dbs /\ rs \in SUBSET Roles
      /\ "pa" \in offered => "pa" \in rs
      /\ "mo" \in offered => "mo" \in rs
    BY MembershipAssumption DEF Sound, Ignored
<1>2. new \in Invites /\ new.state = "open"
    BY <1>1 DEF NewInvite, Invites, InviteStates
<1>3. CASE inv = NoInvite
  <2>1. t = WithInvite(s, i, new)
    BY <1>3 DEF CreateOrUpdate, WithInvite
  <2> HIDE DEF new
  <2>2. Sound(t) /\ t.roles = s.roles /\ t.invite[i] = new
    BY <1>2, <2>1, InviteSaved
  <2> QED
    BY <1>2, <2>2 DEF IsModerator, Assigned
<1>4. CASE inv # NoInvite
  <2>1. t = IF synced.invite[i] = NoInvite THEN WithInvite(synced, i, new) ELSE synced
    BY <1>4 DEF CreateOrUpdate, WithInvite
  <2>2. inv \in Invites
    BY <1>1, <1>4 DEF Dbs
  <2>3. /\ row \in Invites /\ row.used_by = inv.used_by
        /\ row.state = "accepted" => inv.state = "accepted"
    BY <1>1, <2>2 DEF Invites, InviteStates
  <2> HIDE DEF row
  <2>4. /\ Sound(updated) /\ updated.roles = s.roles /\ updated.invite[i] = row
        /\ row # NoInvite
    BY <1>4, <2>3, InviteSaved
  <2>5. \A v \in Users : IsModerator(updated, v) <=> IsModerator(s, v)
    BY <2>4 DEF IsModerator, Assigned
  <2> HIDE DEF updated, rs, new
  <2>6. /\ Sound(synced)
        /\ synced.invite[i] \in {row, NoInvite}
        /\ \A v \in Users :
              IsModerator(s, v) /\ (Uses(s, i, v) => "pa" \in offered /\ "mo" \in offered)
                  => IsModerator(synced, v)
    <3>1. CASE inv.used_by = Nobody \/ inv.roles = rs
        <4>1. synced = updated
            BY <3>1
        <4> QED
            BY <2>4, <2>5, <4>1
    <3>2. CASE ~(inv.used_by = Nobody \/ inv.roles = rs)
        <4> DEFINE u == inv.used_by
        <4>1. u \in Users
            BY <2>2, <3>2 DEF Invites
        <4>2. synced = UpdateAssigned(updated, u, rs)
            BY <3>2
        <4>3. Uses(s, i, u)
            BY <1>4 DEF Uses
        <4> HIDE DEF u, synced
        <4>4. /\ Parted(updated, synced, u)
              /\ "pa" \in rs /\ "mo" \in rs /\ IsModerator(updated, u) => IsModerator(synced, u)
            BY <1>1, <2>4, <4>1, <4>2, UpdateAssignedSound
        <4>5. \A v \in Users \ {u} : IsModerator(updated, v) <=> IsModerator(synced, v)
            BY <4>4 DEF Parted, IsModerator, Assigned
        <4>6. Sound(synced) /\ synced.invite[i] \in {row, NoInvite}
            BY <2>4, <4>4 DEF Parted
        <4> QED
            BY <1>1, <2>5, <4>3, <4>4, <4>5, <4>6
    <3> QED
        BY <3>1, <3>2
  <2> HIDE DEF synced
  <2>7. CASE synced.invite[i] = NoInvite
    <3>1. t = WithInvite(synced, i, new)
        BY <2>1, <2>7
    <3>2. Sound(t) /\ t.roles = synced.roles /\ t.invite[i] = new
        BY <1>2, <2>6, <3>1, InviteSaved
    <3>3. \A v \in Users : IsModerator(t, v) <=> IsModerator(synced, v)
        BY <3>2 DEF IsModerator, Assigned
    <3> QED
        BY <1>2, <2>6, <3>2, <3>3
  <2>8. CASE synced.invite[i] # NoInvite
    BY <2>1, <2>3, <2>6, <2>8
  <2> QED
    BY <2>7, <2>8
<1> QED
    BY <1>3, <1>4

\* InviteGroup.annotate takes nobody's roles.
LEMMA AnnotateSound ==
    ASSUME NEW s, Sound(s), NEW i \in Idents, s.invite[i] \in Invites,
           NEW g \in Groups, NEW r \in GroupRoles \cup {NoRole},
           NEW t, t = Annotate(s, i, g, r)
    PROVE  Sound(t) /\ \A v \in Users : IsModerator(s, v) => IsModerator(t, v)
<1> DEFINE u == s.invite[i].used_by
<1>1. s \in Dbs /\ u \in Users \cup {Nobody} /\ r \in Ranks
    BY DEF Sound, Invites, Ranks
<1>2. CASE u = Nobody
  <2>1. t = WithNote(s, i, g, r)
    BY <1>2 DEF Annotate, WithNote
  <2>2. Sound(t) /\ t.roles = s.roles
    BY <1>1, <1>2, <2>1, NoteSaved
  <2> QED
    BY <2>2 DEF IsModerator, Assigned
<1>3. CASE u # Nobody
  <2>1. u \in Users
    BY <1>1, <1>3
  <2>2. t = AddMembership(s, g, u, r) \/ t = WithRank(s, g, u, r)
    BY <1>3 DEF Annotate, WithRank
  <2> HIDE DEF u
  <2>3. IsClosed(Assigned(s, u))
    BY <2>1 DEF Sound
  <2>4. Kept(s, t, u) /\ Assigned(s, u) \subseteq Assigned(t, u)
    <3>1. CASE t = AddMembership(s, g, u, r)
        BY <1>1, <2>1, <2>3, <3>1, AddMembershipRegroups DEF Regrouped
    <3>2. CASE t = WithRank(s, g, u, r)
        BY <1>1, <2>1, <2>3, <3>2, MemberSetKept
    <3> QED
        BY <2>2, <3>1, <3>2
  <2>5. Sound(t)
    BY <2>1, <2>4, KeptSound
  <2>6. \A v \in Users : IsModerator(s, v) => IsModerator(t, v)
    BY <2>4 DEF Kept, IsModerator, Assigned
  <2> QED
    BY <2>5, <2>6
<1> QED
    BY <1>2, <1>3

\* The group column of an import: none, or a group and a role in it.
Columns == {NotMember} \cup Groups \X (GroupRoles \cup {NoRole})

\* One row of an import or of a validated request.
LEMMA StoreInviteSound ==
    ASSUME NEW s, Sound(s), NEW i \in Idents, NEW offered \in SUBSET Roles,
           NEW column \in Columns, NEW t, t = StoreInvite(s, i, offered, column)
    PROVE  /\ Sound(t)
           /\ \A v \in Users :
                 IsModerator(s, v) /\ (Uses(s, i, v) => "pa" \in offered /\ "mo" \in offered)
                     => IsModerator(t, v)
<1> DEFINE row == CreateOrUpdate(s, i, offered)
<1>1. /\ Sound(row) /\ row.invite[i] \in Invites
      /\ \A v \in Users :
            IsModerator(s, v) /\ (Uses(s, i, v) => "pa" \in offered /\ "mo" \in offered)
                => IsModerator(row, v)
    BY CreateOrUpdateSound
<1>2. CASE column = NotMember
    BY <1>1, <1>2 DEF StoreInvite
<1>3. CASE column # NotMember
  <2> DEFINE r == IF s.dialect THEN column[2] ELSE NoRole
  <2>1. column[1] \in Groups /\ r \in GroupRoles \cup {NoRole}
    BY <1>3 DEF Columns
  <2>2. t = Annotate(row, i, column[1], r)
    BY <1>3 DEF StoreInvite
  <2> HIDE DEF row, r
  <2>3. Sound(t) /\ \A v \in Users : IsModerator(row, v) => IsModerator(t, v)
    BY <1>1, <2>1, <2>2, AnnotateSound
  <2> QED
    BY <1>1, <2>3
<1> QED
    BY <1>2, <1>3

-----------------------------------------------------------------------------
(* The requests                                                            *)

\* What a request in flight has read: a closed row, or an invite.
ClosedSets == {rs \in SUBSET Roles : IsClosed(rs)}
RoleRequests == [kind : {"add", "remove"}, of : Users, roles : Offered,
                 copy : ClosedSets, lost : BOOLEAN]
AcceptRequests == [kind : {"accept"}, of : Idents, user : Users, copy : Invites,
                   lost : BOOLEAN]
RejectRequests == [kind : {"reject"}, of : Idents, user : Users \cup {Nobody},
                   copy : Invites, lost : BOOLEAN]
CreateRequests == [kind : {"create"}, of : Idents, roles : Offered, column : Columns,
                   lost : BOOLEAN]
Requests ==
    {Idle} \cup RoleRequests \cup AcceptRequests \cup RejectRequests \cup CreateRequests

\* The tables are sound whatever is in flight, because what is in flight would
\* leave them sound from any sound tables.
MembershipInv ==
    /\ Sound(db) /\ db.gone = {}
    /\ phase \in {"upcoming", "closed", "archived"}
    /\ req \in Requests

\* What ModeratorsKept says of one user.
StepKeeps(u) ==
    IsModerator(db, u) /\ ~IsModerator(db', u) =>
        \/ LosesGroupRole(u)
        \/ FinishRemove /\ req.of = u
        \/ FinishAdd /\ req.of = u /\ "mo" \notin req.copy
        \/ FinishCreate /\ db.invite[req.of].used_by = u

StepSound == MembershipInv' /\ \A u \in Users : StepKeeps(u)

\* A request that the row is lost of stays a request.
LEMMA LostRequest ==
    ASSUME req \in Requests, req # Idle, NEW r, r = [req EXCEPT !.lost = TRUE]
    PROVE  r \in Requests
<1>1. CASE req \in RoleRequests
  <2>1. r \in RoleRequests
    BY <1>1 DEF RoleRequests
  <2> QED
    BY <2>1 DEF Requests
<1>2. CASE req \in AcceptRequests
  <2>1. r \in AcceptRequests
    BY <1>2 DEF AcceptRequests
  <2> QED
    BY <2>1 DEF Requests
<1>3. CASE req \in RejectRequests
  <2>1. r \in RejectRequests
    BY <1>3 DEF RejectRequests
  <2> QED
    BY <2>1 DEF Requests
<1>4. CASE req \in CreateRequests
  <2>1. r \in CreateRequests
    BY <1>4 DEF CreateRequests
  <2> QED
    BY <2>1 DEF Requests
<1> QED
    BY <1>1, <1>2, <1>3, <1>4 DEF Requests

\* The transaction's deletions are over.
LEMMA GoneForgotten ==
    ASSUME NEW s, Sound(s), NEW t, t = [s EXCEPT !.gone = {}]
    PROVE  Sound(t) /\ t.gone = {} /\ t.roles = s.roles /\ t.member = s.member
<1>1. /\ t \in Dbs /\ t.gone = {} /\ t.roles = s.roles /\ t.member = s.member
      /\ t.lists = s.lists /\ t.invite = s.invite /\ t.notes = s.notes
    BY DEF Sound, Dbs
<1>2. \A u \in Users : Assigned(t, u) = Assigned(s, u)
    BY <1>1 DEF Assigned
<1>3. \A i \in Idents : Done(t, i)
    BY <1>1 DEF Sound, Done
<1>4. s.lists \subseteq Users
    BY DEF Sound, Dbs
<1> QED
    BY <1>1, <1>2, <1>3, <1>4 DEF Sound

\* A commit of sound tables in which no moderator is lost without a group role.
LEMMA CommitSound ==
    ASSUME MembershipInv, NEW s, Sound(s),
           \A u \in Users : ModeratorUnless(db, s, u), Commit(s)
    PROVE  StepSound
<1>1. PICK d : d = db'
    OBVIOUS
<1>2. d = [s EXCEPT !.gone = {}]
    BY <1>1 DEF Commit
<1>3. Sound(d) /\ d.gone = {} /\ d.roles = s.roles /\ d.member = s.member
    BY <1>2, GoneForgotten
<1>4. req' \in Requests
  <2>1. CASE req' = req
    BY <2>1 DEF MembershipInv
  <2>2. CASE req # Idle /\ req' = [req EXCEPT !.lost = TRUE]
    BY <2>2, LostRequest DEF MembershipInv
  <2> QED
    BY <2>1, <2>2 DEF Commit
<1>5. Sound(db') /\ db'.gone = {}
    BY <1>1, <1>3
<1>6. MembershipInv'
    BY <1>4, <1>5 DEF MembershipInv, Commit
<1>7. ASSUME NEW u \in Users PROVE StepKeeps(u)
  <2>1. db'.member = s.member /\ (IsModerator(db', u) <=> IsModerator(s, u))
    BY <1>1, <1>3 DEF IsModerator, Assigned
  <2> QED
    BY <2>1 DEF StepKeeps, ModeratorUnless, LosesGroupRole, Carried
<1> QED
    BY <1>6, <1>7 DEF StepSound

\* Roles that are added, and whatever keeps the rows of the others.
LEMMA KeptStep ==
    ASSUME MembershipInv, NEW u \in Users, NEW s, Kept(db, s, u),
           IsModerator(db, u) => IsModerator(s, u), Commit(s)
    PROVE  StepSound
<1>1. Sound(s)
    BY KeptSound DEF MembershipInv
<1>2. \A v \in Users : ModeratorUnless(db, s, v)
    BY DEF Kept, ModeratorUnless, IsModerator, Assigned
<1> QED
    BY <1>1, <1>2, CommitSound

\* A membership that changes.
LEMMA RegroupStep ==
    ASSUME MembershipInv, NEW u \in Users, NEW g \in Groups, NEW r \in Ranks, NEW s,
           Regrouped(db, s, g, u, r), Commit(s)
    PROVE  StepSound
<1>1. Kept(db, s, u) /\ Sound(s)
    BY KeptSound DEF MembershipInv, Regrouped
<1>2. db.member \in [Groups -> [Users -> Ranks]]
    BY DEF MembershipInv, Sound, Dbs
<1>3. s.member[g][u] = r
    BY <1>2, RankedIs DEF Regrouped
<1>4. ModeratorUnless(db, s, u)
    BY <1>3 DEF Regrouped, ModeratorUnless
<1>5. \A v \in Users \ {u} : ModeratorUnless(db, s, v)
    BY <1>1 DEF Kept, ModeratorUnless, IsModerator, Assigned
<1> QED
    BY <1>1, <1>4, <1>5, CommitSound

\* Tables with the same rows.
LEMMA SameRolesStep ==
    ASSUME MembershipInv, NEW s, Sound(s), s.roles = db.roles, Commit(s)
    PROVE  StepSound
<1>1. \A v \in Users : ModeratorUnless(db, s, v)
    BY DEF ModeratorUnless, IsModerator, Assigned
<1> QED
    BY <1>1, CommitSound

\* The join policy's handler gives the user roles and takes none.
LEMMA JoinSound ==
    ASSUME MembershipInv, NEW u \in Users, Join(u)
    PROVE  StepSound
<1> DEFINE s == AddRoles(db, u, {"pa"})
<1>1. db \in Dbs /\ IsClosed(Assigned(db, u)) /\ {"pa"} \in SUBSET Roles
    BY DEF MembershipInv, Sound, Roles
<1>2. Kept(db, s, u) /\ Assigned(s, u) = Assigned(db, u) \cup Required({"pa"})
    BY <1>1, AddRolesKept
<1>3. Commit(s)
    BY DEF Join
<1> HIDE DEF s
<1> QED
    BY <1>2, <1>3, KeptStep DEF IsModerator

\* The user is a participant by the time the speaker role is saved.
LEMMA AddSystemRoleSound ==
    ASSUME MembershipInv, NEW u \in Users, AddSystemRole(u)
    PROVE  StepSound
<1> DEFINE w == [db EXCEPT !.lists = @ \cup {u}]
           s == AddRoles(w, u, {"pa"})
<1>1. db \in Dbs /\ Sound(db) /\ {"pa"} \in SUBSET Roles
    BY DEF MembershipInv, Sound, Roles
<1>2. /\ w \in Dbs /\ w.roles = db.roles /\ w.lists = db.lists \cup {u}
      /\ w.invite = db.invite /\ w.notes = db.notes
    BY <1>1 DEF Dbs
<1>3. Commit(s)
    BY DEF AddSystemRole
<1> HIDE DEF w
<1>4. \A v \in Users : Assigned(w, v) = Assigned(db, v) /\ IsClosed(Assigned(w, v))
    BY <1>1, <1>2 DEF Assigned, Sound
<1>5. /\ Kept(w, s, u) /\ Assigned(s, u) = Assigned(db, u) \cup Required({"pa"})
      /\ s.roles[u] # NoRow
    BY <1>1, <1>2, <1>4, AddRolesKept
<1> HIDE DEF s
<1>6. \A v \in Users \ {u} : Assigned(s, v) = Assigned(db, v) /\ s.roles[v] = db.roles[v]
    BY <1>2, <1>5 DEF Kept, Assigned
<1>7. "pa" \in Assigned(s, u)
    BY <1>5 DEF Required
<1>8. Sound(s)
  <2>1. \A v \in Users : IsClosed(Assigned(s, v))
    BY <1>1, <1>5, <1>6 DEF Kept, Sound
  <2>2. \A v \in s.lists : "pa" \in Assigned(s, v)
    <3>1. s.lists = db.lists \cup {u} /\ db.lists \subseteq Users
        BY <1>1, <1>2, <1>5 DEF Kept, Dbs
    <3> QED
        BY <1>1, <1>6, <1>7, <3>1 DEF Sound
  <2>3. \A i \in Idents : Done(s, i)
    BY <1>1, <1>2, <1>5, <1>6 DEF Kept, Sound, Done
  <2> QED
    BY <1>5, <2>1, <2>2, <2>3 DEF Kept, Sound
<1>9. \A v \in Users : ModeratorUnless(db, s, v)
    BY <1>5, <1>6 DEF ModeratorUnless, IsModerator
<1> QED
    BY <1>3, <1>8, <1>9, CommitSound

\* A moderator who adds a newcomer gives roles and takes none.
LEMMA AddNewcomerSound ==
    ASSUME MembershipInv, NEW u \in Users, NEW rs \in Offered, AddNewcomer(u, rs)
    PROVE  StepSound
<1> DEFINE s == AddRoles(db, u, rs)
<1>1. db \in Dbs /\ IsClosed(Assigned(db, u)) /\ rs \in SUBSET Roles
    BY MembershipAssumption DEF MembershipInv, Sound
<1>2. Kept(db, s, u) /\ Assigned(s, u) = Assigned(db, u) \cup Required(rs)
    BY <1>1, AddRolesKept
<1>3. Commit(s)
    BY DEF AddNewcomer
<1> HIDE DEF s
<1> QED
    BY <1>2, <1>3, KeptStep DEF IsModerator

\* Memberships that are created, changed or deleted.
LEMMA MembershipsSound ==
    ASSUME MembershipInv, NEW u \in Users, NEW g \in Groups,
           NEW r \in GroupRoles \cup {NoRole},
           CreateMembership(g, u, r) \/ ChangeMembership(g, u, r) \/ DeleteMembership(g, u)
    PROVE  StepSound
<1>1. db \in Dbs /\ IsClosed(Assigned(db, u)) /\ r \in Ranks /\ NotMember \in Ranks
    BY DEF MembershipInv, Sound, Ranks
<1>2. CASE CreateMembership(g, u, r)
  <2> DEFINE s == AddMembership(db, g, u, r)
  <2>1. Regrouped(db, s, g, u, r)
    BY <1>1, AddMembershipRegroups
  <2>2. Commit(s)
    BY <1>2 DEF CreateMembership
  <2> HIDE DEF s
  <2> QED
    BY <1>1, <2>1, <2>2, RegroupStep
<1>3. CASE ChangeMembership(g, u, r)
  <2> DEFINE s == UpdateMembership(db, g, u, r)
  <2>1. Regrouped(db, s, g, u, r)
    BY <1>1, <1>3, UpdateMembershipRegroups DEF ChangeMembership
  <2>2. Commit(s)
    BY <1>3 DEF ChangeMembership
  <2> HIDE DEF s
  <2> QED
    BY <1>1, <2>1, <2>2, RegroupStep
<1>4. CASE DeleteMembership(g, u)
  <2> DEFINE s == DropMembership(db, g, u)
  <2>1. Regrouped(db, s, g, u, NotMember)
    BY <1>1, DropMembershipRegroups
  <2>2. Commit(s)
    BY <1>4 DEF DeleteMembership
  <2> HIDE DEF s
  <2> QED
    BY <1>1, <2>1, <2>2, RegroupStep
<1> QED
    BY <1>2, <1>3, <1>4

\* A deleted group takes the moderator role of its members at most.
LEMMA DeleteGroupSound ==
    ASSUME MembershipInv, NEW g \in Groups, DeleteGroup(g)
    PROVE  StepSound
<1> DEFINE s == GroupDropped(db, g)
<1>1. Sound(s) /\ \A v \in Users : ModeratorUnless(db, s, v)
    BY GroupDroppedSound DEF MembershipInv
<1>2. Commit(s)
    BY DEF DeleteGroup
<1> HIDE DEF s
<1> QED
    BY <1>1, <1>2, CommitSound

-----------------------------------------------------------------------------
(* The requests about invites                                              *)

\* Invites that end otherwise than by being accepted.
LEMMA InvitesEnded ==
    ASSUME NEW s, Sound(s), NEW ni \in [Idents -> Invites \cup {NoInvite}],
           \A i \in Idents : ni[i] = s.invite[i] \/ ni[i].state # "accepted",
           NEW t, t = [s EXCEPT !.invite = ni]
    PROVE  Sound(t) /\ t.roles = s.roles /\ t.gone = s.gone
<1>1. /\ t \in Dbs /\ t.roles = s.roles /\ t.lists = s.lists /\ t.invite = ni
      /\ t.notes = s.notes /\ t.gone = s.gone
    BY DEF Sound, Dbs
<1>2. \A i \in Idents : Done(t, i)
    BY <1>1 DEF Sound, Done
<1>3. \A u \in Users : Assigned(t, u) = Assigned(s, u)
    BY <1>1 DEF Assigned
<1>4. s.lists \subseteq Users
    BY DEF Sound, Dbs
<1> QED
    BY <1>1, <1>2, <1>3, <1>4 DEF Sound

\* The invites that a job or the archiving expires.
ExpiredOf(is) == [i \in Idents |-> IF is[i] # NoInvite /\ is[i].state = "open"
                                   THEN [is[i] EXCEPT !.state = "expired"] ELSE is[i]]

\* Expired invites are no accepted ones.
LEMMA ExpirySound ==
    ASSUME NEW s, Sound(s), NEW t, t = [s EXCEPT !.invite = ExpiredOf(s.invite)]
    PROVE  Sound(t) /\ t.roles = s.roles /\ t.gone = s.gone
<1> DEFINE ni == ExpiredOf(s.invite)
<1>1. s.invite \in [Idents -> Invites \cup {NoInvite}]
    BY DEF Sound, Dbs
<1>2. ASSUME NEW i \in Idents
      PROVE  /\ ni[i] \in Invites \cup {NoInvite}
             /\ ni[i] = s.invite[i] \/ ni[i].state # "accepted"
  <2>1. CASE s.invite[i] # NoInvite /\ s.invite[i].state = "open"
    <3>1. ni[i] = [s.invite[i] EXCEPT !.state = "expired"]
        BY <2>1 DEF ExpiredOf
    <3>2. s.invite[i] \in Invites
        BY <1>1, <2>1
    <3>3. ni[i] \in Invites /\ ni[i].state = "expired"
        BY <3>1, <3>2 DEF Invites, InviteStates
    <3> QED
        BY <3>3
  <2>2. CASE ~(s.invite[i] # NoInvite /\ s.invite[i].state = "open")
    <3>1. ni[i] = s.invite[i]
        BY <2>2 DEF ExpiredOf
    <3> QED
        BY <1>1, <3>1
  <2> QED
    BY <2>1, <2>2
<1>3. ni \in [Idents -> Invites \cup {NoInvite}]
  <2>1. ni = [i \in Idents |-> ni[i]]
    BY DEF ExpiredOf
  <2> HIDE DEF ni
  <2> QED
    BY <1>2, <2>1
<1> HIDE DEF ni
<1>4. t = [s EXCEPT !.invite = ni]
    BY DEF ni
<1> QED
    BY <1>2, <1>3, <1>4, InvitesEnded

\* after_reject, from any copy of the invite.
LEMMA RejectSound ==
    ASSUME NEW s, Sound(s), NEW i \in Idents, NEW u \in Users \cup {Nobody},
           NEW copy \in Invites, NEW t, t = Reject(s, i, u, copy)
    PROVE  Sound(t) /\ t.roles = s.roles
<1> DEFINE inv == [copy EXCEPT !.state = "rejected", !.used_by = IF u = Nobody THEN @ ELSE u]
<1>1. inv \in Invites /\ inv.state = "rejected"
    BY DEF Invites, InviteStates
<1>2. t = WithInvite(s, i, inv)
    BY DEF Reject, WithInvite
<1> HIDE DEF inv
<1> QED
    BY <1>1, <1>2, InviteSaved

\* The dialect comes, and goes without a word to anyone.
LEMMA DialectsSound ==
    ASSUME MembershipInv, InstallDialect \/ RemoveDialect
    PROVE  StepSound
<1>1. db \in Dbs /\ Sound(db) /\ db.lists \subseteq Users
    BY DEF MembershipInv, Sound, Dbs
<1>2. CASE InstallDialect
  <2> DEFINE s == [db EXCEPT !.dialect = TRUE]
  <2>1. /\ s \in Dbs /\ s.roles = db.roles /\ s.lists = db.lists
        /\ s.invite = db.invite /\ s.notes = db.notes
    BY <1>1 DEF Dbs
  <2>2. Commit(s)
    BY <1>2 DEF InstallDialect
  <2> HIDE DEF s
  <2>3. Sound(s)
    BY <1>1, <2>1 DEF Sound, Done, Assigned
  <2> QED
    BY <2>1, <2>2, <2>3, SameRolesStep
<1>3. CASE RemoveDialect
  <2> DEFINE Bare(r) == IF r \in GroupRoles THEN NoRole ELSE r
             nm == [g \in Groups |-> [u \in Users |-> Bare(db.member[g][u])]]
             nn == [i \in Idents |-> [g \in Groups |-> Bare(db.notes[i][g])]]
             s == [db EXCEPT !.dialect = FALSE, !.member = nm, !.notes = nn]
  <2>1. \A r \in Ranks : Bare(r) \in Ranks
    BY DEF Ranks
  <2>2. Bare(NotMember) = NotMember
    BY NonesAssumption
  <2>3. Commit(s)
    BY <1>3 DEF RemoveDialect
  <2> HIDE DEF Bare
  <2>4. /\ nm \in [Groups -> [Users -> Ranks]] /\ nn \in [Idents -> [Groups -> Ranks]]
        /\ \A i \in Idents, g \in Groups : db.notes[i][g] = NotMember => nn[i][g] = NotMember
    BY <1>1, <2>1, <2>2 DEF Dbs
  <2> HIDE DEF nm, nn
  <2>5. /\ s \in Dbs /\ s.roles = db.roles /\ s.lists = db.lists
        /\ s.invite = db.invite /\ s.notes = nn
    BY <1>1, <2>4 DEF Dbs
  <2> HIDE DEF s
  <2>6. \A i \in Idents : Done(s, i)
    BY <1>1, <2>4, <2>5 DEF Sound, Done
  <2>7. Sound(s)
    BY <1>1, <2>5, <2>6 DEF Sound, Assigned
  <2> QED
    BY <2>3, <2>5, <2>7, SameRolesStep
<1> QED
    BY <1>2, <1>3

\* A moderator's invite is not imported without the moderator role.
LEMMA ImportInviteSound ==
    ASSUME MembershipInv, NEW i \in Idents, NEW rs \in Offered, NEW column \in Columns,
           ImportInvite(i, rs, column)
    PROVE  StepSound
<1> DEFINE offered == rs \cup {"pa"}
           s == StoreInvite(db, i, offered, column)
<1>1. offered \in SUBSET Roles /\ "pa" \in offered
    BY MembershipAssumption DEF Roles
<1>2. ~Lockout(db, i, offered) /\ Commit(s)
    BY DEF ImportInvite
<1> HIDE DEF offered
<1>3. /\ Sound(s)
      /\ \A v \in Users :
            IsModerator(db, v) /\ (Uses(db, i, v) => "pa" \in offered /\ "mo" \in offered)
                => IsModerator(s, v)
    BY <1>1, StoreInviteSound DEF MembershipInv
<1> HIDE DEF s
<1>4. ASSUME NEW v \in Users, IsModerator(db, v), Uses(db, i, v), "mo" \notin offered
      PROVE  FALSE
    BY <1>2, <1>4, NonesAssumption DEF Lockout, Uses
<1>5. \A v \in Users : ModeratorUnless(db, s, v)
    BY <1>1, <1>3, <1>4 DEF ModeratorUnless
<1> QED
    BY <1>2, <1>3, <1>5, CommitSound

\* An invite that is deleted takes its annotations with it.
LEMMA DeleteInviteSound ==
    ASSUME MembershipInv, NEW i \in Idents, DeleteInvite(i)
    PROVE  StepSound
<1> DEFINE s == DropInvites(db, {i})
<1>1. db \in Dbs /\ Sound(db) /\ db.lists \subseteq Users
    BY DEF MembershipInv, Sound, Dbs
<1>2. Commit(s)
    BY DEF DeleteInvite
<1>3. /\ s \in Dbs /\ s.roles = db.roles /\ s.lists = db.lists
      /\ \A j \in Idents :
            /\ j \in {i} => s.invite[j] = NoInvite
            /\ j \notin {i} => s.invite[j] = db.invite[j] /\ s.notes[j] = db.notes[j]
    BY <1>1, DropInvitesDrops
<1> HIDE DEF s
<1>4. \A j \in Idents : Done(s, j)
    BY <1>1, <1>3 DEF Sound, Done
<1>5. Sound(s)
    BY <1>1, <1>3, <1>4 DEF Sound, Assigned
<1> QED
    BY <1>2, <1>3, <1>5, SameRolesStep

\* Revoked or expired one by one, or in a job, or without annotations.
LEMMA ClosedInvitesSound ==
    ASSUME MembershipInv, NEW i \in Idents, NEW to \in {"revoked", "expired"},
           CloseInvite(i, to) \/ ClearAnnotations(i) \/ ExpireUnused
    PROVE  StepSound
<1>1. db \in Dbs /\ Sound(db)
    BY DEF MembershipInv, Sound
<1>2. CASE CloseInvite(i, to)
  <2> DEFINE inv == [db.invite[i] EXCEPT !.state = to]
             s == [db EXCEPT !.invite[i].state = to]
  <2>1. db.invite[i] \in Invites
    BY <1>1, <1>2 DEF CloseInvite, Dbs
  <2>2. inv \in Invites /\ inv.state # "accepted"
    BY <2>1 DEF Invites, InviteStates
  <2>3. s = WithInvite(db, i, inv)
    BY DEF WithInvite
  <2>4. Commit(s)
    BY <1>2 DEF CloseInvite
  <2> HIDE DEF inv, s
  <2>5. Sound(s) /\ s.roles = db.roles
    BY <1>1, <2>2, <2>3, InviteSaved
  <2> QED
    BY <2>4, <2>5, SameRolesStep
<1>3. CASE ClearAnnotations(i)
  <2> DEFINE ns == [db.notes EXCEPT ![i] = [g \in Groups |-> NotMember]]
             s == [db EXCEPT !.notes = ns]
  <2>1. /\ ns \in [Idents -> [Groups -> Ranks]]
        /\ \A j \in Idents, g \in Groups : ns[j][g] \in {db.notes[j][g], NotMember}
    BY <1>1 DEF Dbs, Ranks
  <2>2. Commit(s)
    BY <1>3 DEF ClearAnnotations
  <2> HIDE DEF ns
  <2>3. Sound(s) /\ s.roles = db.roles
    BY <1>1, <2>1, FewerNotes
  <2> HIDE DEF s
  <2> QED
    BY <2>2, <2>3, SameRolesStep
<1>4. CASE ExpireUnused
  <2> DEFINE s == [db EXCEPT !.invite = ExpiredOf(db.invite)]
  <2>1. Commit(s)
    BY <1>4 DEF ExpireUnused, ExpiredOf
  <2>2. Sound(s) /\ s.roles = db.roles
    BY <1>1, ExpirySound
  <2> HIDE DEF s
  <2> QED
    BY <2>1, <2>2, SameRolesStep
<1> QED
    BY <1>2, <1>3, <1>4

\* A moderator answers an invite in the moderator's own name.
LEMMA AnswerAsModeratorSound ==
    ASSUME MembershipInv, NEW i \in Idents, NEW u \in Users,
           NEW answer \in {"accept", "reject"}, AnswerAsModerator(i, u, answer)
    PROVE  StepSound
<1> DEFINE inv == db.invite[i]
<1>1. Sound(db) /\ inv \in Invites
    BY DEF MembershipInv, Sound, Dbs, AnswerAsModerator
<1>2. CASE answer = "accept"
  <2> DEFINE s == Accept(db, i, u, inv)
  <2>1. Sound(s) /\ \A v \in Users : ModeratorUnless(db, s, v)
    BY <1>1, AcceptSound
  <2>2. Commit(s)
    BY <1>2 DEF AnswerAsModerator
  <2> HIDE DEF s
  <2> QED
    BY <2>1, <2>2, CommitSound
<1>3. CASE answer # "accept"
  <2> DEFINE s == Reject(db, i, u, inv)
  <2>1. Sound(s) /\ s.roles = db.roles
    BY <1>1, RejectSound
  <2>2. Commit(s)
    BY <1>3 DEF AnswerAsModerator
  <2> HIDE DEF s
  <2> QED
    BY <2>1, <2>2, SameRolesStep
<1> QED
    BY <1>2, <1>3

\* The token API changes the roles of no moderator.
LEMMA TokenChangeSound ==
    ASSUME MembershipInv, NEW i \in Idents, NEW rs \in Offered, NEW add \in BOOLEAN,
           TokenChange(i, rs, add)
    PROVE  StepSound
<1> DEFINE inv == db.invite[i]
           new == IF add THEN inv.roles \cup rs ELSE inv.roles \ ReverseRequired(rs)
           roles == Required(new) \ Ignored(db)
           row == [inv EXCEPT !.roles = roles]
           saved == [db EXCEPT !.invite[i].roles = roles]
           s == IF inv.state = "accepted" THEN UpdateAssigned(saved, inv.used_by, roles)
                ELSE saved
<1>1. Sound(db) /\ inv # NoInvite /\ inv \in Invites
    BY DEF MembershipInv, Sound, Dbs, TokenChange
<1>2. rs \in SUBSET Roles
    BY MembershipAssumption
<1>3. new \in SUBSET Roles
    BY <1>1, <1>2 DEF Invites
<1>4. /\ ~(inv.state = "accepted" /\ IsModerator(db, inv.used_by))
      /\ Commit(s)
    BY DEF TokenChange
<1>5. roles \in SUBSET Roles
  <2> HIDE DEF new
  <2> QED
    BY <1>3, RolesClosed
<1> HIDE DEF new, roles
<1>6. row \in Invites /\ row.state = inv.state /\ row.used_by = inv.used_by
    BY <1>1, <1>5 DEF Invites
<1>7. saved = WithInvite(db, i, row)
    BY DEF WithInvite
<1> HIDE DEF row, saved
<1>8. Sound(saved) /\ saved.roles = db.roles
    BY <1>1, <1>6, <1>7, InviteSaved
<1>9. CASE inv.state # "accepted"
  <2>1. s = saved
    BY <1>9
  <2> HIDE DEF s
  <2> QED
    BY <1>4, <1>8, <2>1, SameRolesStep
<1>10. CASE inv.state = "accepted"
  <2> DEFINE u == inv.used_by
  <2>1. u \in Users /\ ~IsModerator(db, u)
    BY <1>1, <1>4, <1>10 DEF Sound, Done
  <2>2. s = UpdateAssigned(saved, u, roles)
    BY <1>10
  <2> HIDE DEF s, u
  <2>3. Parted(saved, s, u)
    BY <1>5, <1>8, <2>1, <2>2, UpdateAssignedSound
  <2>4. \A v \in Users : ModeratorUnless(db, s, v)
    BY <1>8, <2>1, <2>3 DEF Parted, ModeratorUnless, IsModerator, Assigned
  <2>5. Sound(s)
    BY <2>3 DEF Parted
  <2> QED
    BY <1>4, <2>4, <2>5, CommitSound
<1> QED
    BY <1>9, <1>10

\* The on_commit handler of a new row.
LEMMA UseInviteSound ==
    ASSUME MembershipInv, NEW u \in Users, UseInvite(u)
    PROVE  StepSound
<1> DEFINE told == [db EXCEPT !.joined = @ \ {u}]
<1>1. db \in Dbs /\ Sound(db) /\ db.lists \subseteq Users
    BY DEF MembershipInv, Sound, Dbs
<1>2. /\ told \in Dbs /\ told.roles = db.roles /\ told.lists = db.lists
      /\ told.invite = db.invite /\ told.notes = db.notes /\ told.member = db.member
    BY <1>1 DEF Dbs
<1>3. \/ Commit(told)
      \/ \E i \in Idents : db.invite[i] # NoInvite /\ Commit(Accept(told, i, u, db.invite[i]))
    BY MembershipAssumption DEF UseInvite
<1> HIDE DEF told
<1>4. Sound(told)
    BY <1>1, <1>2 DEF Sound, Done, Assigned
<1>5. CASE Commit(told)
    BY <1>2, <1>4, <1>5, SameRolesStep
<1>6. ASSUME NEW i \in Idents, db.invite[i] # NoInvite,
             Commit(Accept(told, i, u, db.invite[i]))
      PROVE  StepSound
  <2> DEFINE s == Accept(told, i, u, db.invite[i])
  <2>1. db.invite[i] \in Invites
    BY <1>1, <1>6 DEF Dbs
  <2>2. Sound(s) /\ \A v \in Users : ModeratorUnless(told, s, v)
    BY <1>4, <2>1, AcceptSound
  <2>3. Commit(s)
    BY <1>6
  <2> HIDE DEF s
  <2>4. \A v \in Users : ModeratorUnless(db, s, v)
    BY <1>2, <2>2 DEF ModeratorUnless, IsModerator, Assigned, Carried
  <2> QED
    BY <2>2, <2>3, <2>4, CommitSound
<1> QED
    BY <1>3, <1>5, <1>6

\* The meeting closes, opens again or is archived.
LEMMA PhasesSound ==
    ASSUME MembershipInv, CloseOrReopen \/ Archive
    PROVE  StepSound
<1>1. CASE CloseOrReopen
  <2>1. db' = db /\ req' = req /\ phase' \in {"upcoming", "closed", "archived"}
    BY <1>1 DEF CloseOrReopen
  <2>2. MembershipInv'
    BY <2>1 DEF MembershipInv
  <2>3. \A u \in Users : StepKeeps(u)
    BY <2>1 DEF StepKeeps
  <2> QED
    BY <2>2, <2>3 DEF StepSound
<1>2. CASE Archive
  <2>1. PICK s : s = db'
    OBVIOUS
  <2>2. s = [db EXCEPT !.invite = ExpiredOf(db.invite)] /\ req' = req /\ phase' = "archived"
    BY <1>2, <2>1 DEF Archive, ExpiredOf
  <2>3. Sound(s) /\ s.roles = db.roles /\ s.gone = {}
    BY <2>2, ExpirySound DEF MembershipInv
  <2>4. MembershipInv'
    BY <2>1, <2>2, <2>3 DEF MembershipInv
  <2>5. \A u \in Users : StepKeeps(u)
    BY <2>1, <2>3 DEF StepKeeps, IsModerator, Assigned
  <2> QED
    BY <2>4, <2>5 DEF StepSound
<1> QED
    BY <1>1, <1>2

-----------------------------------------------------------------------------
(* The requests that commit what they decided from an earlier read         *)

\* A read changes nothing.
LEMMA BegunSound ==
    ASSUME MembershipInv, NEW r \in Requests, Begin(r)
    PROVE  StepSound
<1>1. db' = db /\ phase' = phase /\ req' \in Requests
    BY DEF Begin
<1>2. MembershipInv'
    BY <1>1 DEF MembershipInv
<1>3. \A u \in Users : StepKeeps(u)
    BY <1>1 DEF StepKeeps
<1> QED
    BY <1>2, <1>3 DEF StepSound

\* What is read of a row is closed.
LEMMA BeginRolesSound ==
    ASSUME MembershipInv, NEW kind \in {"add", "remove"}, NEW u \in Users,
           NEW rs \in Offered, BeginRoles(kind, u, rs)
    PROVE  StepSound
<1> DEFINE r == [kind |-> kind, of |-> u, roles |-> rs, copy |-> db.roles[u],
                 lost |-> FALSE]
<1>1. db.roles[u] \in ClosedSets
    BY DEF MembershipInv, Sound, Dbs, Assigned, ClosedSets, BeginRoles
<1>2. r \in RoleRequests
    BY <1>1 DEF RoleRequests
<1>3. r \in Requests /\ Begin(r)
    BY <1>2 DEF Requests, BeginRoles
<1> HIDE DEF r
<1> QED
    BY <1>3, BegunSound

\* What is read of an invite is an invite.
LEMMA BeginAnswerSound ==
    ASSUME MembershipInv, NEW i \in Idents, NEW u, NEW answer \in {"accept", "reject"},
           u \in Users \/ (u = Nobody /\ answer = "reject"), BeginAnswer(i, u, answer)
    PROVE  StepSound
<1> DEFINE r == [kind |-> answer, of |-> i, user |-> u, copy |-> db.invite[i],
                 lost |-> FALSE]
<1>1. db.invite[i] \in Invites
    BY DEF MembershipInv, Sound, Dbs, BeginAnswer
<1>2. r \in AcceptRequests \cup RejectRequests
    BY <1>1 DEF AcceptRequests, RejectRequests
<1>3. r \in Requests /\ Begin(r)
    BY <1>2 DEF Requests, BeginAnswer
<1> HIDE DEF r
<1> QED
    BY <1>3, BegunSound

\* A validated invite has nothing of the tables but what may be offered.
LEMMA BeginCreateSound ==
    ASSUME MembershipInv, NEW i \in Idents, NEW rs \in Offered, NEW column \in Columns,
           BeginCreate(i, rs, column)
    PROVE  StepSound
<1> DEFINE r == [kind |-> "create", of |-> i, roles |-> rs, column |-> column,
                 lost |-> FALSE]
<1>1. r \in CreateRequests
    BY DEF CreateRequests
<1>2. r \in Requests /\ Begin(r)
    BY <1>1 DEF Requests, BeginCreate
<1> HIDE DEF r
<1> QED
    BY <1>2, BegunSound

\* The save of sound tables, or a save that fails.
LEMMA FinishSound ==
    ASSUME MembershipInv, NEW s, Sound(s), NEW saves \in BOOLEAN, Finish(s, saves)
    PROVE  /\ MembershipInv'
           /\ db' = db \/ (db'.roles = s.roles /\ db'.member = s.member)
<1>1. PICK d : d = db'
    OBVIOUS
<1>2. req' \in Requests /\ phase' = phase
    BY DEF Finish, Requests
<1>3. CASE saves
  <2>1. d = [s EXCEPT !.gone = {}]
    BY <1>1, <1>3 DEF Finish
  <2>2. Sound(d) /\ d.gone = {} /\ d.roles = s.roles /\ d.member = s.member
    BY <2>1, GoneForgotten
  <2>3. MembershipInv'
    BY <1>1, <1>2, <2>2 DEF MembershipInv
  <2> QED
    BY <1>1, <2>2, <2>3
<1>4. CASE ~saves
  <2>1. db' = db
    BY <1>4 DEF Finish
  <2>2. MembershipInv'
    BY <1>2, <2>1 DEF MembershipInv
  <2> QED
    BY <2>1, <2>2
<1> QED
    BY <1>3, <1>4

\* Which request is of which kind.
LEMMA KindOfRequest ==
    ASSUME req \in Requests
    PROVE  /\ req.kind \in {"add", "remove"} => req \in RoleRequests
           /\ req.kind = "accept" => req \in AcceptRequests
           /\ req.kind = "reject" => req \in RejectRequests
           /\ req.kind = "create" => req \in CreateRequests
  BY DEF Requests, RoleRequests, AcceptRequests, RejectRequests, CreateRequests, Idle

\* Roles that are added to a copy leave the moderator it was read as.
LEMMA FinishAddSound ==
    ASSUME MembershipInv, FinishAdd
    PROVE  StepSound
<1> DEFINE u == req.of
           s == AddTo(db, u, req.copy, req.roles)
<1>1. /\ u \in Users /\ req.copy \in SUBSET Roles /\ IsClosed(req.copy)
      /\ req.roles \in SUBSET Roles /\ req.roles # {}
  <2>1. req \in RoleRequests
    BY KindOfRequest DEF MembershipInv, FinishAdd
  <2> QED
    BY <2>1, MembershipAssumption DEF RoleRequests, ClosedSets
<1>2. PICK saves \in BOOLEAN : Finish(s, saves)
  <2>1. Finish(s, MayInsert(db.roles[req.of], NoRow))
    BY DEF FinishAdd
  <2>2. MayInsert(db.roles[req.of], NoRow) \in BOOLEAN
    BY DEF MayInsert
  <2> QED
    BY <2>1, <2>2
<1>3. /\ Sound(s)
      /\ \A v \in Users \ {u} : s.roles[v] = db.roles[v]
      /\ s = db \/ req.copy \subseteq Assigned(s, u)
  <2> HIDE DEF u
  <2> QED
    BY <1>1, AddToSound DEF MembershipInv
<1> HIDE DEF s
<1>4. MembershipInv' /\ (db' = db \/ (db'.roles = s.roles /\ db'.member = s.member))
    BY <1>2, <1>3, FinishSound
<1>5. ASSUME NEW v \in Users PROVE StepKeeps(v)
  <2>1. CASE db' = db \/ s = db
    BY <1>4, <2>1 DEF StepKeeps, IsModerator, Assigned
  <2>2. CASE db'.roles = s.roles /\ s # db /\ v # u
    BY <1>3, <2>2 DEF StepKeeps, IsModerator, Assigned
  <2>3. CASE db'.roles = s.roles /\ s # db /\ v = u
    <3>1. "mo" \in req.copy => IsModerator(db', u)
        BY <1>3, <2>3 DEF IsModerator, Assigned
    <3> QED
        BY <2>3, <3>1 DEF StepKeeps
  <2> QED
    BY <1>4, <2>1, <2>2, <2>3
<1> QED
    BY <1>4, <1>5 DEF StepSound

\* Roles that are removed are those of the user the request names.
LEMMA FinishRemoveSound ==
    ASSUME MembershipInv, FinishRemove
    PROVE  StepSound
<1> DEFINE u == req.of
           s == RemoveFrom(db, u, req.copy, req.roles)
<1>1. /\ u \in Users /\ req.copy \in SUBSET Roles /\ IsClosed(req.copy)
      /\ req.roles \in SUBSET Roles
  <2>1. req \in RoleRequests
    BY KindOfRequest DEF MembershipInv, FinishRemove
  <2> QED
    BY <2>1, MembershipAssumption DEF RoleRequests, ClosedSets
<1>2. PICK saves \in BOOLEAN : Finish(s, saves)
  <2>1. Finish(s, MayInsert(db.roles[req.of], NoRow))
    BY DEF FinishRemove
  <2>2. MayInsert(db.roles[req.of], NoRow) \in BOOLEAN
    BY DEF MayInsert
  <2> QED
    BY <2>1, <2>2
<1>3. Parted(db, s, u)
  <2> HIDE DEF u
  <2> QED
    BY <1>1, RemoveFromSound DEF MembershipInv
<1> HIDE DEF s
<1>4. MembershipInv' /\ (db' = db \/ (db'.roles = s.roles /\ db'.member = s.member))
    BY <1>2, <1>3, FinishSound DEF Parted
<1>5. ASSUME NEW v \in Users PROVE StepKeeps(v)
  <2>1. CASE db' = db
    BY <2>1 DEF StepKeeps
  <2>2. CASE db'.roles = s.roles /\ v # u
    BY <1>3, <2>2 DEF Parted, StepKeeps, IsModerator, Assigned
  <2>3. CASE v = u
    BY <2>3 DEF StepKeeps
  <2> QED
    BY <1>4, <2>1, <2>2, <2>3
<1> QED
    BY <1>4, <1>5 DEF StepSound

\* An answer that is given from a copy of the invite.
LEMMA FinishAnswerSound ==
    ASSUME MembershipInv, FinishAnswer
    PROVE  StepSound
<1> DEFINE s == IF req.kind = "accept" THEN Accept(db, req.of, req.user, req.copy)
                ELSE Reject(db, req.of, req.user, req.copy)
<1>1. PICK saves \in BOOLEAN : Finish(s, saves)
  <2>1. Finish(s, MayInsert(db.invite[req.of], NoInvite))
    BY DEF FinishAnswer
  <2>2. MayInsert(db.invite[req.of], NoInvite) \in BOOLEAN
    BY DEF MayInsert
  <2> QED
    BY <2>1, <2>2
<1>2. Sound(s) /\ \A v \in Users : ModeratorUnless(db, s, v)
  <2>1. CASE req.kind = "accept"
    <3>1. req \in AcceptRequests
        BY <2>1, KindOfRequest DEF MembershipInv
    <3>2. req.of \in Idents /\ req.user \in Users /\ req.copy \in Invites
        BY <3>1 DEF AcceptRequests
    <3>3. s = Accept(db, req.of, req.user, req.copy)
        BY <2>1
    <3> HIDE DEF s
    <3> QED
        BY <3>2, <3>3, AcceptSound DEF MembershipInv
  <2>2. CASE req.kind = "reject"
    <3>1. req \in RejectRequests
        BY <2>2, KindOfRequest DEF MembershipInv
    <3>2. req.of \in Idents /\ req.user \in Users \cup {Nobody} /\ req.copy \in Invites
        BY <3>1 DEF RejectRequests
    <3>3. s = Reject(db, req.of, req.user, req.copy)
        BY <2>2
    <3> HIDE DEF s
    <3>4. Sound(s) /\ s.roles = db.roles
        BY <3>2, <3>3, RejectSound DEF MembershipInv
    <3> QED
        BY <3>4 DEF ModeratorUnless, IsModerator, Assigned
  <2> QED
    BY <2>1, <2>2 DEF FinishAnswer
<1> HIDE DEF s
<1>3. MembershipInv' /\ (db' = db \/ (db'.roles = s.roles /\ db'.member = s.member))
    BY <1>1, <1>2, FinishSound
<1>4. ASSUME NEW v \in Users PROVE StepKeeps(v)
  <2>1. CASE db' = db
    BY <2>1 DEF StepKeeps
  <2>2. CASE db'.roles = s.roles /\ db'.member = s.member
    <3>1. IsModerator(db', v) <=> IsModerator(s, v)
        BY <2>2 DEF IsModerator, Assigned
    <3> QED
        BY <1>2, <2>2, <3>1 DEF ModeratorUnless, StepKeeps, LosesGroupRole, Carried
  <2> QED
    BY <1>3, <2>1, <2>2
<1> QED
    BY <1>3, <1>4 DEF StepSound

\* The create endpoint takes the moderator role of the invite's user at most.
LEMMA FinishCreateSound ==
    ASSUME MembershipInv, FinishCreate
    PROVE  StepSound
<1> DEFINE i == req.of
           s == StoreInvite(db, i, req.roles, req.column)
<1>1. i \in Idents /\ req.roles \in SUBSET Roles /\ req.column \in Columns
  <2>1. req \in CreateRequests
    BY KindOfRequest DEF MembershipInv, FinishCreate
  <2> QED
    BY <2>1, MembershipAssumption DEF CreateRequests
<1>2. Finish(s, TRUE)
    BY DEF FinishCreate
<1>3. /\ Sound(s)
      /\ \A v \in Users : IsModerator(db, v) /\ ~Uses(db, i, v) => IsModerator(s, v)
  <2> HIDE DEF i
  <2>1. PICK offered \in SUBSET Roles : offered = req.roles
    BY <1>1
  <2>2. s = StoreInvite(db, i, offered, req.column)
    BY <2>1
  <2>3. PICK column \in Columns : column = req.column
    BY <1>1
  <2>4. PICK d : d = db
    OBVIOUS
  <2>5. PICK made : made = StoreInvite(d, i, offered, column)
    OBVIOUS
  <2>6. Sound(d) /\ s = made
    BY <2>2, <2>3, <2>4, <2>5 DEF MembershipInv
  <2> HIDE DEF s
  <2>7. /\ Sound(made)
        /\ \A v \in Users :
              IsModerator(d, v) /\ (Uses(d, i, v) => "pa" \in offered /\ "mo" \in offered)
                  => IsModerator(made, v)
    BY <1>1, <2>5, <2>6, StoreInviteSound
  <2> QED
    BY <2>4, <2>6, <2>7
<1> HIDE DEF s
<1>4. MembershipInv' /\ (db' = db \/ (db'.roles = s.roles /\ db'.member = s.member))
    BY <1>2, <1>3, FinishSound
<1>5. ASSUME NEW v \in Users PROVE StepKeeps(v)
  <2>1. CASE db' = db
    BY <2>1 DEF StepKeeps
  <2>2. CASE db'.roles = s.roles
    <3>1. IsModerator(db', v) <=> IsModerator(s, v)
        BY <2>2 DEF IsModerator, Assigned
    <3> QED
        BY <1>3, <3>1 DEF StepKeeps, Uses
  <2> QED
    BY <1>4, <2>1, <2>2
<1> QED
    BY <1>4, <1>5 DEF StepSound

-----------------------------------------------------------------------------
(* The theorems                                                            *)

\* The tables are sound when there is nothing in them.
LEMMA InitMembershipInv ==
    ASSUME Init
    PROVE  MembershipInv
<1>1. db \in Dbs
    BY DEF Init, Dbs, Ranks
<1>2. \A u \in Users : Assigned(db, u) = {}
    BY DEF Init, Assigned
<1>3. \A i \in Idents : db.invite[i] = NoInvite
    BY DEF Init
<1>4. db.lists = {} /\ db.gone = {} /\ phase = "upcoming" /\ req \in Requests
    BY DEF Init, Requests
<1> QED
    BY <1>1, <1>2, <1>3, <1>4, RolesClosed DEF MembershipInv, Sound, Done

\* Every request leaves the tables sound and the moderators in place.
LEMMA NextSound ==
    ASSUME MembershipInv, Next
    PROVE  StepSound
<1>1. ASSUME NEW u \in Users, Join(u) \/ AddSystemRole(u) \/ UseInvite(u)
      PROVE  StepSound
    BY <1>1, JoinSound, AddSystemRoleSound, UseInviteSound
<1>2. ASSUME NEW u \in Users, NEW rs \in Offered,
             BeginRoles("add", u, rs) \/ BeginRoles("remove", u, rs) \/ AddNewcomer(u, rs)
      PROVE  StepSound
    BY <1>2, BeginRolesSound, AddNewcomerSound
<1>3. ASSUME NEW u \in Users, NEW g \in Groups, DeleteMembership(g, u)
      PROVE  StepSound
    BY <1>3, MembershipsSound
<1>4. ASSUME NEW u \in Users, NEW g \in Groups, NEW r \in GroupRoles \cup {NoRole},
             CreateMembership(g, u, r) \/ ChangeMembership(g, u, r)
      PROVE  StepSound
    BY <1>4, MembershipsSound
<1>5. ASSUME NEW u \in Users, NEW i \in Idents, NEW answer \in {"accept", "reject"},
             AnswerAsModerator(i, u, answer)
      PROVE  StepSound
    BY <1>5, AnswerAsModeratorSound
<1>6. ASSUME NEW i \in Idents,
             \/ DeleteInvite(i) \/ ClearAnnotations(i)
             \/ CloseInvite(i, "revoked") \/ CloseInvite(i, "expired")
      PROVE  StepSound
    BY <1>6, DeleteInviteSound, ClosedInvitesSound
<1>7. ASSUME NEW i \in Idents,
             \/ BeginAnswer(i, Owner[i], "accept")
             \/ \E u \in {Owner[i], Nobody} : BeginAnswer(i, u, "reject")
      PROVE  StepSound
  <2>1. Owner[i] \in Users
    BY MembershipAssumption
  <2> QED
    BY <1>7, <2>1, BeginAnswerSound
<1>8. ASSUME NEW i \in Idents, NEW rs \in Offered, NEW add \in BOOLEAN,
             TokenChange(i, rs, add)
      PROVE  StepSound
    BY <1>8, TokenChangeSound
<1>9. ASSUME NEW i \in Idents, NEW rs \in Offered, NEW column \in GroupColumns(db),
             ImportInvite(i, rs, column) \/ BeginCreate(i, rs, column)
      PROVE  StepSound
  <2>1. column \in Columns
    BY DEF GroupColumns, Columns
  <2> QED
    BY <1>9, <2>1, ImportInviteSound, BeginCreateSound
<1>10. ASSUME NEW g \in Groups, DeleteGroup(g)
       PROVE  StepSound
    BY <1>10, DeleteGroupSound
<1>11. CASE InstallDialect \/ RemoveDialect
    BY <1>11, DialectsSound
<1>12. CASE CloseOrReopen \/ Archive
    BY <1>12, PhasesSound
<1>13. CASE ExpireUnused
  <2> DEFINE s == [db EXCEPT !.invite = ExpiredOf(db.invite)]
  <2>1. Commit(s)
    BY <1>13 DEF ExpireUnused, ExpiredOf
  <2>2. Sound(s) /\ s.roles = db.roles
    BY ExpirySound DEF MembershipInv
  <2> HIDE DEF s
  <2> QED
    BY <2>1, <2>2, SameRolesStep
<1>14. CASE FinishAdd
    BY <1>14, FinishAddSound
<1>15. CASE FinishRemove
    BY <1>15, FinishRemoveSound
<1>16. CASE FinishAnswer
    BY <1>16, FinishAnswerSound
<1>17. CASE FinishCreate
    BY <1>17, FinishCreateSound
<1>18. CASE Rollback
  <2>1. db' = db /\ phase' = phase /\ req' \in Requests
    BY <1>18 DEF Rollback, Requests
  <2>2. MembershipInv' /\ \A u \in Users : StepKeeps(u)
    BY <2>1 DEF MembershipInv, StepKeeps
  <2> QED
    BY <2>2 DEF StepSound
<1> QED
    BY <1>1, <1>2, <1>3, <1>4, <1>5, <1>6, <1>7, <1>8, <1>9, <1>10, <1>11, <1>12, <1>13,
       <1>14, <1>15, <1>16, <1>17, <1>18 DEF Next

\* A step that changes nothing.
LEMMA StutterSound ==
    ASSUME MembershipInv, UNCHANGED vars
    PROVE  StepSound
<1>1. db' = db /\ phase' = phase /\ req' = req
    BY DEF vars
<1>2. MembershipInv' /\ \A u \in Users : StepKeeps(u)
    BY <1>1 DEF MembershipInv, StepKeeps
<1> QED
    BY <1>2 DEF StepSound

\* The tables are sound in every state, whatever overlaps.
THEOREM MembershipInvariant == Spec => []MembershipInv
<1>1. Init => MembershipInv
    BY InitMembershipInv
<1>2. MembershipInv /\ [Next]_vars => MembershipInv'
    BY NextSound, StutterSound DEF StepSound
<1> QED
    BY <1>1, <1>2, PTL DEF Spec

\* Whoever has a role in the meeting or in a speaker system is a participant.
THEOREM RolesRest == Spec => []RolesRestOnParticipation
<1>1. MembershipInv => RolesRestOnParticipation
    BY DEF MembershipInv, Sound, Dbs, Ranks, IsClosed, RolesRestOnParticipation, TypeOK,
           RolesAreClosed, SystemRoleNeedsParticipant
<1> QED
    BY <1>1, MembershipInvariant, PTL

\* An accepted invite is that of a member of the meeting and was applied whole.
THEOREM AcceptedAreDone == Spec => []AcceptedInvitesAreDone
<1>1. MembershipInv => AcceptedInvitesAreDone
    BY DEF MembershipInv, Sound, Done, AcceptedInvitesAreDone, AcceptedMeansMember,
           AcceptedIsApplied
<1> QED
    BY <1>1, MembershipInvariant, PTL

\* What may take the moderator role, whatever requests overlap.
THEOREM ModeratorsStay == Spec => ModeratorsKept
<1>1. MembershipInv /\ [Next]_vars =>
          [\A u \in Users :
              IsModerator(db, u) /\ ~IsModerator(db', u) =>
                  \/ LosesGroupRole(u)
                  \/ FinishRemove /\ req.of = u
                  \/ FinishAdd /\ req.of = u /\ "mo" \notin req.copy
                  \/ FinishCreate /\ db.invite[req.of].used_by = u]_vars
    BY NextSound DEF StepSound, StepKeeps
<1> QED
    BY <1>1, MembershipInvariant, PTL DEF Spec, ModeratorsKept

=============================================================================
