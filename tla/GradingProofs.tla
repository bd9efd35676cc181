---------------------------- MODULE GradingProofs ----------------------------
(***************************************************************************)
(* What the names of the account say, for every username and spec: whose   *)
(* namespace the exit check and the instructor's view take a name for, and *)
(* whose it is.  Usernames and spec names are sequences of parts, of any   *)
(* length: "ann-x" is two.                                                 *)
(***************************************************************************)
EXTENDS Grading, SequenceTheorems, TLAPS

(* All strings; the prover has to be told of the literals. *)
Part == STRING \cup {"", "ws", "control", "orders", "staging", "prod"}
Name == Seq(Part)
(* The names that are not empty. *)
User == Name \ {<<>>, <<"">>}
Nobody == {<<>>, <<"">>}

-----------------------------------------------------------------------------
(* Sequences. *)

LEMMA OneElement == ASSUME NEW S, NEW x \in S PROVE <<x>> \in Seq(S) /\ Len(<<x>>) = 1 /\ <<x>>[1] = x
  OBVIOUS

LEMMA Single == ASSUME NEW x \in Part PROVE <<x>> \in Name /\ Len(<<x>>) = 1 /\ <<x>>[1] = x
  BY OneElement DEF Name

LEMMA Words == "ws" \in Part /\ "control" \in Part /\ "orders" \in Part /\ Environment \subseteq Part
  BY DEF Part, Environment

LEMMA StringNames == Seq(STRING) \subseteq Name
  <1>1. \A s \in Seq(STRING) : s \in Name
    BY SeqMonotonic DEF Name, Part
  <1> QED
    BY <1>1

LEMMA Joined ==
    ASSUME NEW s \in Name, NEW t \in Name
    PROVE  /\ s \o t \in Name
           /\ Len(s \o t) = Len(s) + Len(t)
           /\ \A i \in 1..Len(s) : (s \o t)[i] = s[i]
           /\ \A i \in 1..Len(t) : (s \o t)[Len(s) + i] = t[i]
  <1>1. /\ s \o t \in Name
        /\ Len(s \o t) = Len(s) + Len(t)
        /\ \A i \in 1..Len(s) + Len(t) : (s \o t)[i] = IF i <= Len(s) THEN s[i] ELSE t[i - Len(s)]
    BY ConcatProperties DEF Name
  <1>2. Len(s) \in Nat /\ Len(t) \in Nat
    BY LenProperties DEF Name
  <1>3. ASSUME NEW i \in 1..Len(s) PROVE (s \o t)[i] = s[i]
    BY <1>1, <1>2
  <1>4. ASSUME NEW i \in 1..Len(t) PROVE (s \o t)[Len(s) + i] = t[i]
    <2>1. Len(s) + i \in 1..Len(s) + Len(t) /\ ~(Len(s) + i <= Len(s)) /\ Len(s) + i - Len(s) = i
      BY <1>2
    <2> QED
      BY <1>1, <2>1
  <1> QED
    BY <1>1, <1>3, <1>4

LEMMA Same ==
    ASSUME NEW s \in Name, NEW t \in Name, Len(s) = Len(t), \A i \in 1..Len(s) : s[i] = t[i]
    PROVE  s = t
  BY SeqEqual DEF Name

LEMMA Slice ==
    ASSUME NEW s \in Name, NEW m \in 1..Len(s) + 1, NEW n \in 0..Len(s), m <= n + 1
    PROVE  /\ SubSeq(s, m, n) \in Name
           /\ Len(SubSeq(s, m, n)) = n - m + 1
           /\ \A i \in 1..n - m + 1 : SubSeq(s, m, n)[i] = s[m + i - 1]
  <1>1. Len(s) \in Nat /\ m \in Int /\ n \in Int
    BY LenProperties DEF Name
  <1>2. \A i \in m..n : s[i] \in Part
    BY <1>1 DEF Name
  <1>3. /\ SubSeq(s, m, n) \in Seq(Part)
        /\ Len(SubSeq(s, m, n)) = IF m <= n THEN n - m + 1 ELSE 0
        /\ \A i \in 1..n - m + 1 : SubSeq(s, m, n)[i] = s[m + i - 1]
    BY <1>1, <1>2, SubSeqProperties
  <1> QED
    BY <1>1, <1>3 DEF Name

LEMMA FirstPart ==
    ASSUME NEW s \in Name, NEW n \in 0..Len(s)
    PROVE  /\ SubSeq(s, 1, n) \in Name
           /\ Len(SubSeq(s, 1, n)) = n
           /\ \A i \in 1..n : SubSeq(s, 1, n)[i] = s[i]
  <1>1. Len(s) \in Nat
    BY LenProperties DEF Name
  <1>2. 1 \in 1..Len(s) + 1 /\ 1 <= n + 1
    BY <1>1
  <1>3. /\ SubSeq(s, 1, n) \in Name
        /\ Len(SubSeq(s, 1, n)) = n - 1 + 1
        /\ \A i \in 1..n - 1 + 1 : SubSeq(s, 1, n)[i] = s[1 + i - 1]
    BY <1>2, Slice
  <1>4. n - 1 + 1 = n /\ \A i \in 1..n : 1 + i - 1 = i
    BY <1>1
  <1> QED
    BY <1>3, <1>4

LEMMA LastPart ==
    ASSUME NEW s \in Name, NEW m \in 0..Len(s)
    PROVE  /\ SubSeq(s, m + 1, Len(s)) \in Name
           /\ Len(SubSeq(s, m + 1, Len(s))) = Len(s) - m
           /\ \A i \in 1..Len(s) - m : SubSeq(s, m + 1, Len(s))[i] = s[m + i]
  <1>1. Len(s) \in Nat
    BY LenProperties DEF Name
  <1>2. m + 1 \in 1..Len(s) + 1 /\ Len(s) \in 0..Len(s) /\ m + 1 <= Len(s) + 1
    BY <1>1
  <1> DEFINE k == m + 1
             l == Len(s)
  <1>3. k \in 1..Len(s) + 1 /\ l \in 0..Len(s) /\ k <= l + 1
    BY <1>2
  <1> HIDE DEF k, l
  <1>4. /\ SubSeq(s, k, l) \in Name
        /\ Len(SubSeq(s, k, l)) = l - k + 1
        /\ \A i \in 1..l - k + 1 : SubSeq(s, k, l)[i] = s[k + i - 1]
    BY <1>3, Slice
  <1>5. l - k + 1 = Len(s) - m /\ \A i \in 1..Len(s) - m : k + i - 1 = m + i
    BY <1>1 DEF k, l
  <1>6. /\ SubSeq(s, k, l) \in Name
        /\ Len(SubSeq(s, k, l)) = Len(s) - m
        /\ \A i \in 1..Len(s) - m : SubSeq(s, k, l)[i] = s[m + i]
    BY <1>4, <1>5
  <1> QED
    BY <1>6 DEF k, l

(* u is a prefix of what begins with u, and a strict one when something follows. *)
LEMMA Begins ==
    ASSUME NEW u \in Name, NEW s \in Name
    PROVE  /\ SubSeq(u \o s, 1, Len(u)) = u
           /\ SubSeq(u \o s, Len(u) + 1, Len(u \o s)) = s
           /\ IsStrictPrefix(u, u \o s) <=> s # <<>>
  <1> DEFINE w == u \o s
  <1>1. /\ w \in Name /\ Len(w) = Len(u) + Len(s)
        /\ \A i \in 1..Len(u) : w[i] = u[i]
        /\ \A i \in 1..Len(s) : w[Len(u) + i] = s[i]
    BY Joined
  <1>2. Len(u) \in Nat /\ Len(s) \in Nat
    BY LenProperties DEF Name
  <1> HIDE DEF w
  <1>3. SubSeq(w, 1, Len(u)) = u
    <2>1. /\ SubSeq(w, 1, Len(u)) \in Name
          /\ Len(SubSeq(w, 1, Len(u))) = Len(u)
          /\ \A i \in 1..Len(u) : SubSeq(w, 1, Len(u))[i] = w[i]
      <3>1. Len(u) \in 0..Len(w)
        BY <1>1, <1>2
      <3> QED
        BY <1>1, <3>1, FirstPart
    <2> QED
      BY <1>1, <2>1, Same
  <1>4. SubSeq(w, Len(u) + 1, Len(w)) = s
    <2> DEFINE rest == SubSeq(w, Len(u) + 1, Len(w))
    <2>1. Len(u) \in 0..Len(w) /\ Len(w) - Len(u) = Len(s)
      BY <1>1, <1>2
    <2>2. /\ rest \in Name /\ Len(rest) = Len(s)
          /\ \A i \in 1..Len(s) : rest[i] = w[Len(u) + i]
      BY <1>1, <2>1, LastPart
    <2> HIDE DEF rest
    <2>4. rest = s
      BY <1>1, <2>2, Same
    <2> QED
      BY <2>4 DEF rest
  <1>5. SubSeq(u, 1, Len(u)) = u
    BY SubSeqFull DEF Name
  <1>6. IsPrefix(u, w)
    BY <1>1, <1>2, <1>3, <1>5 DEF IsPrefix
  <1>7. u = w <=> s = <<>>
    BY ConcatEqualIffEmpty DEF Name, w
  <1> QED
    BY <1>3, <1>4, <1>6, <1>7 DEF IsStrictPrefix, w

-----------------------------------------------------------------------------
(* The names the platform gives. *)

LEMMA PhysicalName ==
    ASSUME NEW u \in Name, NEW s \in Name, NEW e \in Part
    PROVE  /\ physicalNamespace(u, s, e) \in Name
           /\ Len(physicalNamespace(u, s, e)) = Len(u) + Len(s) + 2
           /\ Head(physicalNamespace(u, s, e)) = "ws"
           /\ Last(physicalNamespace(u, s, e)) = e
           /\ Middle(physicalNamespace(u, s, e)) = u \o s
  <1> DEFINE front == <<"ws">> \o u \o s
             name == front \o <<e>>
  <1>1. <<"ws">> \in Name /\ Len(<<"ws">>) = 1 /\ <<"ws">>[1] = "ws"
    BY Single, Words
  <1>2. <<e>> \in Name /\ Len(<<e>>) = 1 /\ <<e>>[1] = e
    BY Single
  <1>3. Len(u) \in Nat /\ Len(s) \in Nat
    BY LenProperties DEF Name
  <1>4. u \o s \in Name /\ Len(u \o s) = Len(u) + Len(s)
    BY Joined
  <1>5. front = <<"ws">> \o (u \o s)
    BY <1>1, ConcatAssociative DEF Name
  <1> HIDE DEF front
  <1>6. /\ front \in Name /\ Len(front) = Len(u) + Len(s) + 1
        /\ front[1] = "ws"
        /\ \A i \in 1..Len(u \o s) : front[i + 1] = (u \o s)[i]
    <2>1. /\ front \in Name /\ Len(front) = 1 + Len(u \o s)
          /\ \A i \in 1..1 : front[i] = <<"ws">>[i]
          /\ \A i \in 1..Len(u \o s) : front[1 + i] = (u \o s)[i]
      BY <1>1, <1>4, <1>5, Joined
    <2>2. front[1] = "ws"
      BY <1>1, <2>1
    <2>3. \A i \in 1..Len(u \o s) : 1 + i = i + 1
      BY <1>3, <1>4
    <2> QED
      BY <1>3, <1>4, <2>1, <2>2, <2>3
  <1>7. /\ name \in Name /\ Len(name) = Len(front) + 1
        /\ \A i \in 1..Len(front) : name[i] = front[i]
        /\ name[Len(front) + 1] = e
    <2>1. /\ name \in Name /\ Len(name) = Len(front) + Len(<<e>>)
          /\ \A i \in 1..Len(front) : name[i] = front[i]
          /\ \A i \in 1..Len(<<e>>) : name[Len(front) + i] = <<e>>[i]
      BY <1>2, <1>6, Joined
    <2>2. name[Len(front) + 1] = e
      BY <1>2, <2>1
    <2> QED
      BY <1>2, <2>1, <2>2
  <1>8. name = physicalNamespace(u, s, e)
    BY DEF physicalNamespace, front
  <1> HIDE DEF name
  <1>9. Len(name) = Len(u) + Len(s) + 2 /\ Last(name) = e
    BY <1>3, <1>6, <1>7 DEF Last
  <1>10. Head(name) = "ws"
    <2>1. name # <<>>
      BY <1>3, <1>9, EmptySeq DEF Name
    <2>2. name[1] = front[1]
      BY <1>3, <1>6, <1>7
    <2> QED
      BY <1>6, <1>7, <2>1, <2>2 DEF Name
  <1>11. Middle(name) = u \o s
    <2> DEFINE middle == SubSeq(name, 2, Len(name) - 1)
    <2>1. /\ middle \in Name
          /\ Len(middle) = Len(name) - 1 - 2 + 1
          /\ \A i \in 1..Len(name) - 1 - 2 + 1 : middle[i] = name[2 + i - 1]
      <3>1. 2 \in 1..Len(name) + 1 /\ Len(name) - 1 \in 0..Len(name) /\ 2 <= Len(name) - 1 + 1
        BY <1>3, <1>9
      <3> HIDE DEF middle
      <3>2. \A m, n : m \in 1..Len(name) + 1 /\ n \in 0..Len(name) /\ m <= n + 1 =>
              /\ SubSeq(name, m, n) \in Name
              /\ Len(SubSeq(name, m, n)) = n - m + 1
              /\ \A i \in 1..n - m + 1 : SubSeq(name, m, n)[i] = name[m + i - 1]
        BY <1>7, Slice
      <3> QED
        BY <3>1, <3>2 DEF middle
    <2> HIDE DEF middle
    <2>2. Len(middle) = Len(u \o s)
      BY <1>3, <1>4, <1>9, <2>1
    <2>3. ASSUME NEW i \in 1..Len(u \o s) PROVE middle[i] = (u \o s)[i]
      <3>1. /\ Len(name) - 1 - 2 + 1 = Len(u \o s)
            /\ 2 + i - 1 = i + 1 /\ i + 1 \in 1..Len(front)
        BY <1>3, <1>4, <1>6, <1>9
      <3> QED
        BY <1>6, <1>7, <2>1, <3>1
    <2>4. middle = u \o s
      BY <1>4, <2>1, <2>2, <2>3, Same
    <2> QED
      BY <2>4 DEF middle, Middle
  <1> QED
    BY <1>7, <1>8, <1>9, <1>10, <1>11

LEMMA ControlName ==
    ASSUME NEW u \in Name
    PROVE  /\ controlNamespace(u) \in Name
           /\ Len(controlNamespace(u)) = Len(u) + 2
           /\ Last(controlNamespace(u)) = "control"
  <1>1. <<"ws">> \in Name /\ Len(<<"ws">>) = 1 /\ <<"control">> \in Name
        /\ Len(<<"control">>) = 1 /\ <<"control">>[1] = "control"
    BY Single, Words
  <1>2. <<"ws">> \o u \in Name /\ Len(<<"ws">> \o u) = 1 + Len(u)
    BY <1>1, Joined
  <1> DEFINE front == <<"ws">> \o u
             name == front \o <<"control">>
  <1> HIDE DEF front
  <1>3. /\ name \in Name /\ Len(name) = Len(front) + 1
        /\ name[Len(front) + 1] = "control"
    BY <1>1, <1>2, Joined DEF front
  <1>4. name = controlNamespace(u)
    BY DEF controlNamespace, front
  <1>5. Len(u) \in Nat
    BY LenProperties DEF Name
  <1> HIDE DEF name
  <1> QED
    BY <1>2, <1>3, <1>4, <1>5 DEF Last, front

(* A control namespace is no environment: neither parser reads it. *)
LEMMA ControlMatchesNot == ASSUME NEW u \in Name PROVE ~Matches(controlNamespace(u))
  BY ControlName DEF Matches, Environment

LEMMA PhysicalMatches ==
    ASSUME NEW u \in Name, NEW s \in Name, u \o s # <<>>, NEW e \in Environment
    PROVE  Matches(physicalNamespace(u, s, e))
  <1>1. e \in Part
    BY Words
  <1>2. u \o s \in Name /\ Len(u \o s) = Len(u) + Len(s)
    BY Joined
  <1>3. Len(u \o s) \in Nat \ {0} /\ Len(u) \in Nat /\ Len(s) \in Nat
    BY <1>2, EmptySeq, LenProperties DEF Name
  <1>4. Len(physicalNamespace(u, s, e)) = Len(u) + Len(s) + 2
    BY <1>1, PhysicalName
  <1>5. Len(physicalNamespace(u, s, e)) >= 3
    BY <1>2, <1>3, <1>4
  <1> QED
    BY <1>1, <1>5, PhysicalName DEF Matches

-----------------------------------------------------------------------------
(* Whose a name is taken for. *)

(* The exit check of u takes an environment of v for u's exactly when u's name
   is the beginning of v's name and spec: always for v = u, and for a neighbour
   whose name begins with ours (parsePhysicalName, naming.ts). *)
THEOREM TakenFor ==
    ASSUME NEW u \in Name, NEW v \in Name, NEW s \in Name, NEW e \in Environment
    PROVE  parsePhysicalName(physicalNamespace(v, s, e), u) # {} <=> IsStrictPrefix(u, v \o s)
  <1>1. e \in Part
    BY Words
  <1>2. Middle(physicalNamespace(v, s, e)) = v \o s
    BY <1>1, PhysicalName
  <1>3. IsStrictPrefix(u, v \o s) => v \o s # <<>>
    <2>1. ASSUME v \o s = <<>>, IsStrictPrefix(u, <<>>) PROVE FALSE
      <3>1. Len(u) <= 0 /\ u # <<>>
        BY <2>1 DEF IsStrictPrefix, IsPrefix
      <3> QED
        BY <3>1, EmptySeq DEF Name
    <2> QED
      BY <2>1
  <1>4. IsStrictPrefix(u, v \o s) => Matches(physicalNamespace(v, s, e))
    BY <1>3, PhysicalMatches
  <1> QED
    BY <1>2, <1>4 DEF parsePhysicalName

(* Anchored on the username, a name of one's own gives back its spec and its
   environment, whatever hyphens are in either. *)
THEOREM OwnNamesParse ==
    ASSUME NEW u \in Name, NEW s \in Name, s # <<>>, NEW e \in Environment
    PROVE  parsePhysicalName(physicalNamespace(u, s, e), u) = {[user |-> u, spec |-> s, env |-> e]}
  <1> DEFINE name == physicalNamespace(u, s, e)
  <1>1. e \in Part
    BY Words
  <1>2. Middle(name) = u \o s /\ Last(name) = e
    BY <1>1, PhysicalName
  <1>3. IsStrictPrefix(u, u \o s) /\ SubSeq(u \o s, Len(u) + 1, Len(u \o s)) = s
    BY Begins
  <1>4. u \o s # <<>>
    BY ConcatEqualIffEmpty DEF Name
  <1>5. Matches(name)
    BY <1>4, PhysicalMatches
  <1> HIDE DEF name
  <1> QED
    BY <1>2, <1>3, <1>5 DEF parsePhysicalName, name

(* Without a username to anchor on, the split at the last hyphen finds the
   student as long as the spec's name has no hyphen. *)
THEOREM SplitFindsStudent ==
    ASSUME NEW v \in User, NEW x \in Part, NEW e \in Environment
    PROVE  splitPhysicalName(physicalNamespace(v, <<x>>, e)) = {[user |-> v, spec |-> <<x>>, env |-> e]}
  <1> DEFINE name == physicalNamespace(v, <<x>>, e)
             middle == v \o <<x>>
  <1>0. <<x>> \in Name /\ Len(<<x>>) = 1 /\ <<x>>[1] = x /\ e \in Part /\ v \in Name
    BY Single, Words DEF User
  <1>1. Len(v) \in Nat \ {0}
    BY EmptySeq DEF User, Name
  <1>2. /\ middle \in Name /\ Len(middle) = Len(v) + 1
        /\ \A i \in 1..Len(<<x>>) : middle[Len(v) + i] = <<x>>[i]
    BY <1>0, Joined
  <1>3. middle # <<>>
    BY <1>1, <1>2, EmptySeq DEF Name
  <1>4. Middle(name) = middle /\ Last(name) = e /\ Matches(name)
    BY <1>0, <1>3, PhysicalName, PhysicalMatches
  <1>5. SubSeq(middle, 1, Len(v)) = v
    BY <1>0, Begins
  <1>6. middle[Len(v) + 1] = x
    BY <1>0, <1>2
  <1> HIDE DEF middle, name
  <1>7. Front(middle) = v
    BY <1>1, <1>2, <1>5 DEF Front
  <1>8. Last(middle) = x
    BY <1>2, <1>6 DEF Last
  <1>9. Front(middle) # <<"">>
    BY <1>7 DEF User
  <1>10. Len(middle) >= 2
    BY <1>1, <1>2
  <1> QED
    BY <1>4, <1>7, <1>8, <1>9, <1>10 DEF splitPhysicalName, name

LEMMA FrontOfJoined ==
    ASSUME NEW v \in Name, NEW x \in Part
    PROVE  /\ Front(v \o <<x>>) = v
           /\ Len(v) = 0 => ~(Len(v \o <<x>>) >= 2)
  <1> DEFINE middle == v \o <<x>>
  <1>1. <<x>> \in Name /\ Len(<<x>>) = 1
    BY Single
  <1>2. middle \in Name /\ Len(middle) = Len(v) + 1 /\ SubSeq(middle, 1, Len(v)) = v
    BY <1>1, Joined, Begins
  <1>3. Len(v) \in Nat
    BY LenProperties DEF Name
  <1> HIDE DEF middle
  <1>4. Len(middle) - 1 = Len(v)
    BY <1>2, <1>3
  <1>5. Front(middle) = v
    BY <1>2, <1>4 DEF Front
  <1>6. Len(v) = 0 => ~(Len(middle) >= 2)
    BY <1>2
  <1> QED
    BY <1>5, <1>6 DEF middle

LEMMA NobodysNames ==
    ASSUME NEW v \in Nobody
    PROVE  /\ v \in Name /\ Len(v) \in {0, 1}
           /\ Len(v) = 0 => v = <<>>
           /\ Len(v) = 1 => v = <<"">>
           /\ v = <<>> => Len(v) = 0
  <1>0. "" \in Part
    BY DEF Part
  <1>1. <<>> \in Name /\ <<"">> \in Name /\ Len(<<>>) = 0 /\ Len(<<"">>) = 1
    BY <1>0, Single, EmptySeq DEF Name
  <1>2. 0 # 1
    OBVIOUS
  <1> QED
    BY <1>1, <1>2, Zenon DEF Nobody

LEMMA StrictlyBegins ==
    ASSUME NEW u \in Name, NEW w \in Name, IsStrictPrefix(u, w)
    PROVE  Len(u) < Len(w) /\ u = SubSeq(w, 1, Len(u))
  <1>1. Len(u) \in Nat /\ Len(w) \in Nat
    BY LenProperties DEF Name
  <1>2. Len(u) <= Len(w) /\ SubSeq(u, 1, Len(u)) = SubSeq(w, 1, Len(u)) /\ u # w
    BY DEF IsStrictPrefix, IsPrefix
  <1>3. SubSeq(u, 1, Len(u)) = u /\ SubSeq(w, 1, Len(w)) = w
    BY SubSeqFull DEF Name
  <1>4. Len(u) # Len(w)
    BY <1>2, <1>3
  <1>5. Len(u) < Len(w)
    BY <1>1, <1>2, <1>4
  <1> QED
    BY <1>2, <1>3, <1>5

(* No username is the beginning of a name with only a spec in it. *)
LEMMA NobodyBegins ==
    ASSUME NEW u \in User, NEW v \in Nobody, NEW x \in Part
    PROVE  ~IsStrictPrefix(u, v \o <<x>>)
  <1>0. v \in Name /\ u \in Name /\ <<x>> \in Name /\ Len(<<x>>) = 1
    BY NobodysNames, Single DEF User
  <1>1. Len(v) \in {0, 1} /\ (Len(v) = 1 => u # v)
    BY NobodysNames, Zenon DEF User
  <1>2. v \o <<x>> \in Name /\ Len(v \o <<x>>) = Len(v) + 1 /\ SubSeq(v \o <<x>>, 1, Len(v)) = v
    BY <1>0, Joined, Begins
  <1>3. Len(u) \in Nat \ {0}
    <2>1. u # <<>>
      BY Zenon DEF User
    <2> QED
      BY <1>0, <2>1, EmptySeq, LenProperties DEF Name
  <1>4. Len(u) < Len(v) + 1 => Len(u) = Len(v) /\ Len(v) = 1
    <2>1. \A m \in Nat \ {0}, n \in {0, 1} : m < n + 1 => m = n /\ n = 1
      OBVIOUS
    <2> QED
      BY <1>1, <1>3, <2>1, Zenon
  <1> QED
    BY <1>0, <1>1, <1>2, <1>4, StrictlyBegins

(* A name that leaves no username, or an empty one, is nobody's. *)
LEMMA SplitFindsNobody ==
    ASSUME NEW v \in Nobody, NEW x \in Part, NEW e \in Environment
    PROVE  splitPhysicalName(physicalNamespace(v, <<x>>, e)) = {}
  <1>1. <<x>> \in Name /\ e \in Part /\ v \in Name
    BY NobodysNames, Single, Words
  <1>2. Middle(physicalNamespace(v, <<x>>, e)) = v \o <<x>>
    BY <1>1, PhysicalName
  <1>3. Front(v \o <<x>>) = v /\ (v = <<>> => ~(Len(v \o <<x>>) >= 2))
    BY <1>1, NobodysNames, FrontOfJoined
  <1>4. v = <<>> \/ v = <<"">>
    BY Zenon DEF Nobody
  <1> QED
    BY <1>2, <1>3, <1>4, Zenon DEF splitPhysicalName

(* Different students, specs or environments have different names, as long as
   no spec's name has a hyphen; a control namespace is never an environment. *)
THEOREM NamesDiffer ==
    ASSUME NEW u \in User, NEW x \in Part, NEW e \in Environment,
           NEW v \in User, NEW y \in Part, NEW f \in Environment
    PROVE  /\ physicalNamespace(u, <<x>>, e) = physicalNamespace(v, <<y>>, f) => u = v /\ x = y /\ e = f
           /\ physicalNamespace(u, <<x>>, e) # controlNamespace(v)
  <1>1. /\ splitPhysicalName(physicalNamespace(u, <<x>>, e)) = {[user |-> u, spec |-> <<x>>, env |-> e]}
        /\ splitPhysicalName(physicalNamespace(v, <<y>>, f)) = {[user |-> v, spec |-> <<y>>, env |-> f]}
    BY SplitFindsStudent
  <1>2. splitPhysicalName(controlNamespace(v)) = {}
    BY ControlMatchesNot DEF splitPhysicalName, User
  <1>3. <<x>>[1] = x /\ <<y>>[1] = y
    BY Single
  <1>4. physicalNamespace(u, <<x>>, e) # controlNamespace(v)
    BY <1>1, <1>2
  <1>5. ASSUME physicalNamespace(u, <<x>>, e) = physicalNamespace(v, <<y>>, f)
        PROVE  u = v /\ x = y /\ e = f
    <2> DEFINE a == [user |-> u, spec |-> <<x>>, env |-> e]
               b == [user |-> v, spec |-> <<y>>, env |-> f]
    <2>1. a = b
      BY <1>1, <1>5
    <2>2. a.user = u /\ b.user = v /\ a.spec = <<x>> /\ b.spec = <<y>> /\ a.env = e /\ b.env = f
      OBVIOUS
    <2> HIDE DEF a, b
    <2>3. u = v /\ <<x>> = <<y>> /\ e = f
      BY <2>1, <2>2
    <2> QED
      BY <1>3, <2>3
  <1> QED
    BY <1>4, <1>5

(* Who is on the instructor's view: in an account of control namespaces and
   environments of specs without hyphens, exactly the students with an
   environment, each with the environments they have (readCohort, cohort.ts). *)
Students(inventory) ==
    {v \in User : \E ns \in inventory, x \in Part, e \in Environment :
        ns.name = physicalNamespace(v, <<x>>, e)}
Orderly(inventory) ==
    \A ns \in inventory : \E v \in User :
        ns.name = controlNamespace(v) \/ \E x \in Part, e \in Environment : ns.name = physicalNamespace(v, <<x>>, e)

THEOREM CohortIsStudents ==
    ASSUME NEW inventory, Orderly(inventory)
    PROVE  /\ {row.username : row \in readCohort(inventory)} = Students(inventory)
           /\ \A row \in readCohort(inventory) : row.environments =
                {e \in Environment : \E ns \in inventory, x \in Part :
                    ns.name = physicalNamespace(row.username, <<x>>, e)}
  <1> DEFINE parsed == UNION {splitPhysicalName(ns.name) : ns \in inventory}
             user(p) == {q \in parsed : q.user = p}
             Row(u) == [username |-> u, environments |-> {p.env : p \in user(u)},
                        namespaces |-> Cardinality(user(u))]
  <1>1. readCohort(inventory) = {Row(u) : u \in {p.user : p \in parsed}}
    BY Zenon DEF readCohort
  <1>2. ASSUME NEW p \in parsed
        PROVE  /\ p.user \in User /\ p.env \in Environment
               /\ \E ns \in inventory, x \in Part : ns.name = physicalNamespace(p.user, <<x>>, p.env)
    <2>1. PICK ns \in inventory : p \in splitPhysicalName(ns.name)
      OBVIOUS
    <2>2. PICK v \in User :
            ns.name = controlNamespace(v) \/ \E x \in Part, e \in Environment : ns.name = physicalNamespace(v, <<x>>, e)
      BY DEF Orderly
    <2>3. ns.name # controlNamespace(v)
      BY <2>1, ControlMatchesNot DEF splitPhysicalName, User
    <2>4. PICK x \in Part, e \in Environment : ns.name = physicalNamespace(v, <<x>>, e)
      BY <2>2, <2>3
    <2>5. p = [user |-> v, spec |-> <<x>>, env |-> e]
      BY <2>1, <2>4, SplitFindsStudent
    <2>6. p.user = v /\ p.env = e
      BY <2>5
    <2> QED
      BY <2>4, <2>6
  <1>3. ASSUME NEW ns \in inventory, NEW v \in User, NEW x \in Part, NEW e \in Environment,
               ns.name = physicalNamespace(v, <<x>>, e)
        PROVE  \E p \in parsed : p.user = v /\ p.env = e
    <2> DEFINE q == [user |-> v, spec |-> <<x>>, env |-> e]
    <2>1. q \in parsed
      BY <1>3, SplitFindsStudent
    <2>2. q.user = v /\ q.env = e
      OBVIOUS
    <2> QED
      BY <2>1, <2>2
  <1> HIDE DEF parsed
  <1>4. {p.user : p \in parsed} = Students(inventory)
    <2>1. ASSUME NEW p \in parsed PROVE p.user \in Students(inventory)
      BY <1>2 DEF Students
    <2>2. ASSUME NEW v \in Students(inventory) PROVE \E p \in parsed : p.user = v
      <3>1. v \in User
        BY DEF Students
      <3>2. PICK ns \in inventory, x \in Part, e \in Environment : ns.name = physicalNamespace(v, <<x>>, e)
        BY DEF Students
      <3> QED
        BY <1>3, <3>1, <3>2
    <2> QED
      BY <2>1, <2>2
  <1>5. \A u : Row(u).username = u /\ Row(u).environments = {p.env : p \in user(u)}
    OBVIOUS
  <1>6. ASSUME NEW u \in Students(inventory)
        PROVE  Row(u).environments =
                 {e \in Environment : \E ns \in inventory, x \in Part : ns.name = physicalNamespace(u, <<x>>, e)}
    <2>1. ASSUME NEW p \in user(u)
          PROVE  p.env \in Environment /\ \E ns \in inventory, x \in Part : ns.name = physicalNamespace(u, <<x>>, p.env)
      <3>1. p \in parsed /\ p.user = u
        OBVIOUS
      <3> QED
        BY <1>2, <3>1
    <2>2. ASSUME NEW e \in Environment, NEW ns \in inventory, NEW x \in Part, ns.name = physicalNamespace(u, <<x>>, e)
          PROVE  \E p \in user(u) : p.env = e
      BY <1>3, <2>2 DEF Students
    <2> DEFINE Has(e) == \E ns \in inventory, x \in Part : ns.name = physicalNamespace(u, <<x>>, e)
    <2> HIDE DEF user
    <2>3. \A p \in user(u) : p.env \in Environment /\ Has(p.env)
      BY <2>1
    <2>4. \A e \in Environment : Has(e) => \E p \in user(u) : p.env = e
      BY <2>2
    <2> HIDE DEF Has, Row
    <2>5. {p.env : p \in user(u)} = {e \in Environment : Has(e)}
      BY <2>3, <2>4
    <2> QED
      BY <1>5, <2>5 DEF Has
  <1> HIDE DEF Row, user
  <1>7. ASSUME NEW row \in readCohort(inventory)
        PROVE  row.username \in Students(inventory) /\ row = Row(row.username)
    BY <1>1, <1>4, <1>5
  <1>8. ASSUME NEW u \in Students(inventory) PROVE \E row \in readCohort(inventory) : row.username = u
    BY <1>1, <1>4, <1>5
  <1>9. {row.username : row \in readCohort(inventory)} = Students(inventory)
    BY <1>7, <1>8
  <1>10. ASSUME NEW row \in readCohort(inventory)
         PROVE  row.environments = {e \in Environment : \E ns \in inventory, x \in Part :
                    ns.name = physicalNamespace(row.username, <<x>>, e)}
    BY <1>6, <1>7
  <1> QED
    BY <1>9, <1>10
=============================================================================
