------------------------ MODULE RpcPreflightProofs ------------------------
(***************************************************************************)
(* Proofs about rpc-preflight (module RpcPreflight), for any networks,     *)
(* endpoints, lists, depths, samples and answers: what is exported, where  *)
(* the paid key goes, what a declared window promises, and how much an     *)
(* exported endpoint has answered.                                         *)
(***************************************************************************)
EXTENDS RpcPreflight, Induction, SequenceTheorems

-----------------------------------------------------------------------------
(* rpc-preflight: lists, pools and candidates *)

\* The first values of the recursion of Keep.
KeptUpTo(g, list, places, n) ==
  g = [i \in 0 .. n |->
         IF i = 0 THEN <<>>
         ELSE IF i \in places THEN Append(g[i - 1], list[i]) ELSE g[i - 1]]

\* Any list can be thinned out, by induction on how much of it has been read.
LEMMA KeepExists ==
  ASSUME NEW list, NEW places
  PROVE  \A n \in Nat : \E g : KeptUpTo(g, list, places, n)
<1> DEFINE T == {n \in Nat : \E g : KeptUpTo(g, list, places, n)}
<1>1. 0 \in T
  <2>1. KeptUpTo([i \in 0 .. 0 |-> <<>>], list, places, 0)
    BY DEF KeptUpTo
  <2> QED
    BY <2>1
<1>2. ASSUME NEW n \in Nat, n \in T PROVE n + 1 \in T
  <2>1. PICK g : KeptUpTo(g, list, places, n)
    BY <1>2
  <2> DEFINE h == [i \in 0 .. n + 1 |->
                     IF i = 0 THEN <<>>
                     ELSE IF i \in places THEN Append(g[i - 1], list[i]) ELSE g[i - 1]]
  <2>2. \A i \in 0 .. n : h[i] = g[i]
    <3> TAKE i \in 0 .. n
    <3>1. i \in 0 .. n + 1
      OBVIOUS
    <3>2. g[i] = IF i = 0 THEN <<>>
                 ELSE IF i \in places THEN Append(g[i - 1], list[i]) ELSE g[i - 1]
      BY <2>1 DEF KeptUpTo
    <3> QED
      BY <3>1, <3>2
  <2>3. \A i \in 1 .. n + 1 : h[i - 1] = g[i - 1]
    <3>1. \A i \in 1 .. n + 1 : i - 1 \in 0 .. n
      OBVIOUS
    <3> HIDE DEF h
    <3> QED
      BY <2>2, <3>1
  <2>4. h = [i \in 0 .. n + 1 |->
               IF i = 0 THEN <<>>
               ELSE IF i \in places THEN Append(h[i - 1], list[i]) ELSE h[i - 1]]
    <3>1. \A i \in 0 .. n + 1 : i = 0 \/ i \in 1 .. n + 1
      OBVIOUS
    <3> QED
      BY <2>3, <3>1
  <2> HIDE DEF h
  <2>6. KeptUpTo(h, list, places, n + 1)
    BY <2>4 DEF KeptUpTo
  <2> QED
    BY <2>6
<1> HIDE DEF T
<1>3. Nat \subseteq T
  BY <1>1, <1>2, SetInduction
<1> QED
  BY <1>3 DEF T

\* A list at some places has the entries at them and no others.
LEMMA KeepsPlaces ==
  ASSUME NEW S, NEW list \in Seq(S), NEW places
  PROVE  /\ Keep(list, places) \in Seq(S)
         /\ \A k \in DOMAIN Keep(list, places) :
              \E i \in DOMAIN list : i \in places /\ Keep(list, places)[k] = list[i]
         /\ \A i \in DOMAIN list : i \in places =>
              \E k \in DOMAIN Keep(list, places) : Keep(list, places)[k] = list[i]
<1>1. Len(list) \in Nat /\ DOMAIN list = 1 .. Len(list) /\ \A i \in 1 .. Len(list) : list[i] \in S
  BY LenProperties, ElementOfSeq
<1>2. PICK g : KeptUpTo(g, list, places, Len(list)) /\ Keep(list, places) = g[Len(list)]
  <2>1. \E g : KeptUpTo(g, list, places, Len(list))
    BY <1>1, KeepExists
  <2>2. PICK g : KeptUpTo(g, list, places, Len(list))
    BY <2>1
  <2> DEFINE f == CHOOSE f : KeptUpTo(f, list, places, Len(list))
  <2>3. KeptUpTo(f, list, places, Len(list))
    BY <2>2
  <2>4. Keep(list, places) = f[Len(list)]
    BY DEF Keep, KeptUpTo
  <2> HIDE DEF f
  <2> QED
    BY <2>3, <2>4
<1> DEFINE Right(n) ==
      /\ g[n] \in Seq(S)
      /\ \A k \in 1 .. Len(g[n]) : \E i \in 1 .. n : i \in places /\ g[n][k] = list[i]
      /\ \A i \in 1 .. n : i \in places => \E k \in 1 .. Len(g[n]) : g[n][k] = list[i]
    T == {n \in Nat : n <= Len(list) => Right(n)}
<1>3. 0 \in T
  <2>1. g[0] = <<>>
    BY <1>1, <1>2 DEF KeptUpTo
  <2>2. g[0] \in Seq(S) /\ Len(g[0]) = 0
    BY <2>1, EmptySeq
  <2>3. Right(0)
    BY <2>2
  <2> HIDE DEF Right
  <2> QED
    BY <2>3
<1>4. ASSUME NEW n \in Nat, n \in T PROVE n + 1 \in T
  <2> SUFFICES ASSUME n + 1 <= Len(list) PROVE Right(n + 1)
    OBVIOUS
  <2>1. Right(n)
    BY <1>1, <1>4
  <2>2. g[n + 1] = IF n + 1 \in places THEN Append(g[n], list[n + 1]) ELSE g[n]
    <3>1. n + 1 \in 0 .. Len(list) /\ n + 1 # 0 /\ (n + 1) - 1 = n
      BY <1>1
    <3> QED
      BY <1>2, <3>1 DEF KeptUpTo
  <2>3. list[n + 1] \in S
    BY <1>1
  <2>4. CASE n + 1 \in places
    <3> DEFINE s == g[n]
               t == g[n + 1]
    <3>1. s \in Seq(S) /\ Len(s) \in Nat
      BY <2>1, LenProperties
    <3>2. /\ t \in Seq(S) /\ Len(t) = Len(s) + 1
          /\ \A k \in 1 .. Len(s) : t[k] = s[k]
          /\ t[Len(s) + 1] = list[n + 1]
      BY <2>2, <2>3, <2>4, <3>1, AppendProperties
    <3>3. /\ \A k \in 1 .. Len(s) : \E i \in 1 .. n : i \in places /\ s[k] = list[i]
          /\ \A i \in 1 .. n : i \in places => \E k \in 1 .. Len(s) : s[k] = list[i]
      BY <2>1
    <3> HIDE DEF s, t
    <3>4. ASSUME NEW k \in 1 .. Len(t)
          PROVE  \E i \in 1 .. n + 1 : i \in places /\ t[k] = list[i]
      <4>1. CASE k \in 1 .. Len(s)
        <5>1. PICK i \in 1 .. n : i \in places /\ s[k] = list[i]
          BY <3>3, <4>1
        <5>2. i \in 1 .. n + 1
          BY <1>4, <5>1
        <5> QED
          BY <3>2, <4>1, <5>1, <5>2
      <4>2. CASE k = Len(s) + 1
        BY <2>4, <3>2, <4>2
      <4> QED
        BY <3>1, <3>2, <4>1, <4>2
    <3>5. ASSUME NEW i \in 1 .. n + 1, i \in places
          PROVE  \E k \in 1 .. Len(t) : t[k] = list[i]
      <4>1. CASE i \in 1 .. n
        <5>1. PICK k \in 1 .. Len(s) : s[k] = list[i]
          BY <3>3, <3>5, <4>1
        <5>2. k \in 1 .. Len(t) /\ t[k] = list[i]
          BY <3>1, <3>2, <5>1
        <5> QED
          BY <5>2
      <4>2. CASE i = n + 1
        <5>1. Len(s) + 1 \in 1 .. Len(t)
          BY <3>1, <3>2
        <5> QED
          BY <3>2, <4>2, <5>1
      <4> QED
        BY <4>1, <4>2
    <3> QED
      BY <3>2, <3>4, <3>5 DEF t
  <2>5. CASE n + 1 \notin places
    <3>1. g[n + 1] = g[n]
      BY <2>2, <2>5
    <3>2. \A i \in 1 .. n + 1 : i \in places => i \in 1 .. n
      BY <2>5
    <3>3. 1 .. n \subseteq 1 .. n + 1
      OBVIOUS
    <3> QED
      BY <2>1, <3>1, <3>2, <3>3
  <2> QED
    BY <2>4, <2>5
<1> HIDE DEF T
<1>5. Nat \subseteq T
  BY <1>3, <1>4, SetInduction
<1>6. Right(Len(list))
  <2>1. Len(list) \in T
    BY <1>1, <1>5
  <2> HIDE DEF Right
  <2> QED
    BY <1>1, <2>1 DEF T
<1>7. DOMAIN g[Len(list)] = 1 .. Len(g[Len(list)])
  BY <1>6, LenProperties
<1>8. /\ g[Len(list)] \in Seq(S)
      /\ \A k \in DOMAIN g[Len(list)] :
           \E i \in DOMAIN list : i \in places /\ g[Len(list)][k] = list[i]
      /\ \A i \in DOMAIN list : i \in places =>
           \E k \in DOMAIN g[Len(list)] : g[Len(list)][k] = list[i]
  BY ONLY <1>1, <1>6, <1>7
<1> QED
  BY <1>2, <1>8

\* The entries of two lists, one after the other.
LEMMA Joined ==
  ASSUME NEW S, NEW s \in Seq(S), NEW t \in Seq(S)
  PROVE  /\ s \o t \in Seq(S)
         /\ Len(s) \in Nat /\ Len(t) \in Nat /\ Len(s \o t) = Len(s) + Len(t)
         /\ DOMAIN (s \o t) = 1 .. Len(s) + Len(t)
         /\ \A i \in 1 .. Len(s) : (s \o t)[i] = s[i]
         /\ \A i \in 1 .. Len(t) : (s \o t)[Len(s) + i] = t[i]
<1>1. Len(s) \in Nat /\ Len(t) \in Nat
  BY LenProperties
<1>2. /\ s \o t \in Seq(S)
      /\ Len(s \o t) = Len(s) + Len(t)
      /\ \A i \in 1 .. Len(s) + Len(t) : (s \o t)[i] = IF i <= Len(s) THEN s[i] ELSE t[i - Len(s)]
  BY ConcatProperties
<1>3. DOMAIN (s \o t) = 1 .. Len(s) + Len(t)
  BY <1>2, LenProperties
<1>4. ASSUME NEW i \in 1 .. Len(t) PROVE (s \o t)[Len(s) + i] = t[i]
  <2>1. Len(s) + i \in 1 .. Len(s) + Len(t) /\ ~(Len(s) + i <= Len(s)) /\ (Len(s) + i) - Len(s) = i
    BY <1>1
  <2> QED
    BY <1>2, <2>1
<1> QED
  BY <1>1, <1>2, <1>3, <1>4

Candidate == [src : {"own", "secret", "variable", "default"}, url : Url]
InList(u, list) == \E i \in DOMAIN list : list[i] = u

\* A list of URLs of one source.
LEMMA FromList ==
  ASSUME NEW src \in {"own", "secret", "variable", "default"}, NEW list \in Seq(Url)
  PROVE  /\ From(src, list) \in Seq(Candidate)
         /\ Len(From(src, list)) = Len(list) /\ Len(list) \in Nat
         /\ DOMAIN list = 1 .. Len(list)
         /\ \A i \in 1 .. Len(list) : From(src, list)[i] = [src |-> src, url |-> list[i]]
         /\ \A i \in 1 .. Len(list) : list[i] \in Url
<1>1. Len(list) \in Nat /\ DOMAIN list = 1 .. Len(list) /\ \A i \in 1 .. Len(list) : list[i] \in Url
  BY LenProperties, ElementOfSeq
<1>2. From(src, list) = [i \in 1 .. Len(list) |-> [src |-> src, url |-> list[i]]]
  BY <1>1 DEF From
<1>3. From(src, list) \in [1 .. Len(list) -> Candidate]
  BY <1>1, <1>2 DEF Candidate
<1>4. From(src, list) \in Seq(Candidate)
  BY <1>1, <1>3, SeqDef
<1>5. Len(From(src, list)) = Len(list)
  BY <1>1, <1>3, <1>4, LenProperties
<1> QED
  BY <1>1, <1>2, <1>4, <1>5

\* The pool of a network has every URL once, under the first of the lists that
\* has it.
LEMMA PoolIsWhole ==
  ASSUME NEW secret \in Seq(Url), NEW vars \in Seq(Url), NEW defaults \in Seq(Url)
  PROVE  /\ Pool(secret, vars, defaults) \in Seq(Candidate)
         /\ \A k \in DOMAIN Pool(secret, vars, defaults) :
              /\ Pool(secret, vars, defaults)[k].src \in {"secret", "variable", "default"}
              /\ Pool(secret, vars, defaults)[k].src = "secret" <=>
                   InList(Pool(secret, vars, defaults)[k].url, secret)
         /\ secret # <<>> \/ vars # <<>> \/ defaults # <<>> => Pool(secret, vars, defaults) # <<>>
         /\ Pool(secret, vars, defaults) # <<>> => secret # <<>> \/ vars # <<>> \/ defaults # <<>>
<1> DEFINE A == From("secret", secret)
           B == From("variable", vars)
           C == From("default", defaults)
           all == A \o B \o C
           P == Pool(secret, vars, defaults)
<1>1. /\ A \in Seq(Candidate) /\ Len(A) = Len(secret) /\ Len(secret) \in Nat
      /\ DOMAIN secret = 1 .. Len(secret)
      /\ \A i \in 1 .. Len(secret) : A[i] = [src |-> "secret", url |-> secret[i]]
  BY FromList
<1>2. /\ B \in Seq(Candidate) /\ Len(B) = Len(vars) /\ Len(vars) \in Nat
      /\ \A i \in 1 .. Len(vars) : B[i] = [src |-> "variable", url |-> vars[i]]
  BY FromList
<1>3. /\ C \in Seq(Candidate) /\ Len(C) = Len(defaults) /\ Len(defaults) \in Nat
      /\ \A i \in 1 .. Len(defaults) : C[i] = [src |-> "default", url |-> defaults[i]]
  BY FromList
<1>4. P = Keep(all, FirstPlaces(all))
  BY DEF Pool
<1> HIDE DEF A, B, C, P
<1>5. /\ A \o B \in Seq(Candidate) /\ Len(A \o B) = Len(A) + Len(B)
      /\ \A i \in 1 .. Len(A) : (A \o B)[i] = A[i]
      /\ \A i \in 1 .. Len(B) : (A \o B)[Len(A) + i] = B[i]
  <2>1. A \in Seq(Candidate) /\ B \in Seq(Candidate)
    BY <1>1, <1>2
  <2> QED
    BY <2>1, Joined
<1>6. /\ all \in Seq(Candidate) /\ Len(all) = Len(A \o B) + Len(C)
      /\ DOMAIN all = 1 .. Len(A \o B) + Len(C)
      /\ \A i \in 1 .. Len(A \o B) : all[i] = (A \o B)[i]
      /\ \A i \in 1 .. Len(C) : all[Len(A \o B) + i] = C[i]
  <2> DEFINE D == A \o B
  <2>1. D \in Seq(Candidate) /\ C \in Seq(Candidate) /\ all = D \o C
    BY <1>3, <1>5
  <2> HIDE DEF D, all
  <2>2. /\ D \o C \in Seq(Candidate) /\ Len(D \o C) = Len(D) + Len(C)
        /\ DOMAIN (D \o C) = 1 .. Len(D) + Len(C)
        /\ \A i \in 1 .. Len(D) : (D \o C)[i] = D[i]
        /\ \A i \in 1 .. Len(C) : (D \o C)[Len(D) + i] = C[i]
    BY <2>1, Joined
  <2> QED
    BY <2>1, <2>2 DEF D
<1> HIDE DEF all
<1>7. /\ Len(all) = Len(secret) + Len(vars) + Len(defaults) /\ DOMAIN all = 1 .. Len(all)
      /\ Len(all) \in Nat /\ Len(A \o B) = Len(secret) + Len(vars)
  BY <1>1, <1>2, <1>3, <1>5, <1>6
<1>8. \A i \in 1 .. Len(all) :
        /\ i <= Len(secret) => all[i] = [src |-> "secret", url |-> secret[i]]
        /\ i > Len(secret) => all[i].src \in {"variable", "default"}
  <2> TAKE i \in 1 .. Len(all)
  <2>1. CASE i <= Len(secret)
    <3>1. i \in 1 .. Len(secret) /\ i \in 1 .. Len(A) /\ i \in 1 .. Len(A \o B)
      BY <1>1, <1>2, <1>7, <2>1
    <3>2. all[i] = A[i]
      BY <1>5, <1>6, <3>1
    <3> QED
      BY <1>1, <2>1, <3>1, <3>2
  <2>2. CASE i > Len(secret) /\ i <= Len(secret) + Len(vars)
    <3>1. PICK j \in 1 .. Len(vars) : i = Len(secret) + j
      <4>1. i - Len(secret) \in 1 .. Len(vars) /\ i = Len(secret) + (i - Len(secret))
        BY <1>1, <1>2, <1>7, <2>2
      <4> QED
        BY <4>1
    <3>2. i \in 1 .. Len(A \o B) /\ j \in 1 .. Len(B) /\ i = Len(A) + j
      BY <1>1, <1>2, <1>7, <2>2, <3>1
    <3>3. all[i] = B[j]
      BY <1>5, <1>6, <3>2
    <3> QED
      <4>1. B[j] = [src |-> "variable", url |-> vars[j]]
        BY <1>2, <3>1
      <4>2. all[i].src = "variable"
        BY <3>3, <4>1
      <4> QED
        BY <1>1, <1>7, <2>2, <4>2
  <2>3. CASE i > Len(secret) + Len(vars)
    <3>1. PICK j \in 1 .. Len(defaults) : i = Len(secret) + Len(vars) + j
      <4>1. /\ i - (Len(secret) + Len(vars)) \in 1 .. Len(defaults)
            /\ i = Len(secret) + Len(vars) + (i - (Len(secret) + Len(vars)))
        BY <1>1, <1>2, <1>3, <1>7, <2>3
      <4> QED
        BY <4>1
    <3>2. j \in 1 .. Len(C) /\ i = Len(A \o B) + j
      BY <1>3, <1>7, <3>1
    <3>3. all[i] = C[j]
      BY <1>6, <3>2
    <3> QED
      <4>1. C[j] = [src |-> "default", url |-> defaults[j]]
        BY <1>3, <3>1
      <4>2. all[i].src = "default"
        BY <3>3, <4>1
      <4> QED
        BY <1>1, <1>2, <1>7, <2>3, <4>2
  <2> QED
    BY <1>1, <1>2, <1>7, <2>1, <2>2, <2>3
<1>9. /\ P \in Seq(Candidate)
      /\ \A k \in DOMAIN P : \E i \in DOMAIN all : i \in FirstPlaces(all) /\ P[k] = all[i]
      /\ \A i \in DOMAIN all : i \in FirstPlaces(all) => \E k \in DOMAIN P : P[k] = all[i]
  <2> DEFINE F == FirstPlaces(all)
  <2>1. all \in Seq(Candidate) /\ P = Keep(all, F)
    BY <1>4, <1>6
  <2> HIDE DEF F
  <2>2. /\ P \in Seq(Candidate)
        /\ \A k \in DOMAIN P : \E i \in DOMAIN all : i \in F /\ P[k] = all[i]
        /\ \A i \in DOMAIN all : i \in F => \E k \in DOMAIN P : P[k] = all[i]
    BY <2>1, KeepsPlaces
  <2> QED
    BY <2>2 DEF F
<1>10. ASSUME NEW k \in DOMAIN P
       PROVE  /\ P[k].src \in {"secret", "variable", "default"}
              /\ P[k].src = "secret" <=> InList(P[k].url, secret)
  <2>1. PICK i \in DOMAIN all : i \in FirstPlaces(all) /\ P[k] = all[i]
    BY <1>9
  <2>2. CASE i <= Len(secret)
    <3>1. P[k] = [src |-> "secret", url |-> secret[i]] /\ i \in 1 .. Len(secret)
      BY <1>1, <1>7, <1>8, <2>1, <2>2
    <3> QED
      BY <1>1, <3>1 DEF InList
  <2>3. CASE i > Len(secret)
    <3>1. P[k].src \in {"variable", "default"}
      BY <1>7, <1>8, <2>1, <2>3
    <3>2. ASSUME NEW j \in 1 .. Len(secret) PROVE secret[j] # P[k].url
      <4>1. j \in 1 .. i - 1 /\ j \in 1 .. Len(all) /\ j <= Len(secret)
        BY <1>1, <1>7, <2>3
      <4>2. all[j].url # all[i].url
        BY <2>1, <4>1 DEF FirstPlaces
      <4>3. all[j] = [src |-> "secret", url |-> secret[j]]
        BY <1>8, <4>1
      <4> QED
        BY <2>1, <4>2, <4>3
    <3> QED
      BY <1>1, <3>1, <3>2 DEF InList
  <2> QED
    BY <1>1, <1>7, <2>2, <2>3
<1>11. ASSUME secret # <<>> \/ vars # <<>> \/ defaults # <<>> PROVE P # <<>>
  <2>1. Len(secret) > 0 \/ Len(vars) > 0 \/ Len(defaults) > 0
    BY <1>1, <1>2, <1>3, <1>11, EmptySeq
  <2>2. 1 \in DOMAIN all
    BY <1>1, <1>2, <1>3, <1>7, <2>1
  <2>3. 1 \in FirstPlaces(all)
    BY <2>2 DEF FirstPlaces
  <2>4. \E k \in DOMAIN P : TRUE
    BY <1>9, <2>2, <2>3
  <2> QED
    BY <2>4
<1>12. ASSUME P # <<>> PROVE secret # <<>> \/ vars # <<>> \/ defaults # <<>>
  <2>1. Len(P) \in Nat /\ Len(P) > 0 /\ DOMAIN P = 1 .. Len(P)
    BY <1>9, <1>12, LenProperties, EmptySeq
  <2>2. \E i \in DOMAIN all : TRUE
    <3>1. 1 \in DOMAIN P
      BY ONLY <2>1
    <3> QED
      BY <1>9, <3>1
  <2>3. Len(secret) + Len(vars) + Len(defaults) > 0
    BY <1>7, <2>2
  <2>4. Len(secret) > 0 \/ Len(vars) > 0 \/ Len(defaults) > 0
    BY <1>1, <1>2, <1>3, <2>3
  <2> QED
    BY <2>4
<1> QED
  BY <1>9, <1>10, <1>11, <1>12 DEF P

\* What InputsAssumption says of the configuration in use.
LEMMA InputTypes ==
  ASSUME input \in Inputs, NEW n \in Net
  PROVE  /\ input.mode \in {"select", "proxy"}
         /\ input.secret[n] \in Seq(Url) /\ input.vars[n] \in Seq(Url)
         /\ input.defaults[n] \in Seq(Url)
         /\ input.own[n] \in Url \union {NoUrl} /\ input.own[n] \notin SecretUrls(n)
         /\ Blocks(n) \in Seq(0 .. HeadBlock) /\ Len(Blocks(n)) \in Nat \ {0}
         /\ \A u : u \in SecretUrls(n) <=> InList(u, input.secret[n])
<1>1. /\ input.mode \in {"select", "proxy"}
      /\ input.secret[n] \in Seq(Url) /\ input.vars[n] \in Seq(Url)
      /\ input.defaults[n] \in Seq(Url)
      /\ input.own[n] \in Url \union {NoUrl}
      /\ \A i \in DOMAIN input.secret[n] : input.secret[n][i] # input.own[n]
      /\ input.pins[n] \in Seq(0 .. HeadBlock)
  BY InputsAssumption
<1>2. \A u : u \in SecretUrls(n) <=> InList(u, input.secret[n])
  BY DEF SecretUrls, InList
<1>3. input.own[n] \notin SecretUrls(n)
  BY <1>1, <1>2 DEF InList
<1>4. Blocks(n) \in Seq(0 .. HeadBlock) /\ Len(Blocks(n)) \in Nat \ {0}
  <2>1. CASE input.archive /\ input.pins[n] # <<>>
    <3>1. Blocks(n) = input.pins[n]
      BY <2>1 DEF Blocks
    <3> QED
      BY <1>1, <2>1, <3>1, EmptySeq
  <2>2. CASE ~(input.archive /\ input.pins[n] # <<>>)
    <3>1. Blocks(n) = <<0>> /\ 0 \in 0 .. HeadBlock
      BY <2>2, RpcAssumption DEF Blocks
    <3> QED
      BY <3>1
  <2> QED
    BY <2>1, <2>2
<1> QED
  BY <1>1, <1>2, <1>3, <1>4

\* Where the secret's entries begin among the candidates of a proxy.
Ahead(n) == Len(Own(n)) + Len(Publics(n))

\* The publics are the pool without the secret's URLs.
LEMMA PublicsAreNotSecret ==
  ASSUME input \in Inputs, NEW n \in Net
  PROVE  /\ Publics(n) \in Seq(Candidate)
         /\ \A k \in DOMAIN Publics(n) : /\ Publics(n)[k].src \in {"variable", "default"}
                                         /\ Publics(n)[k].url \notin SecretUrls(n)
         /\ input.secret[n] = <<>> /\ input.vars[n] \o input.defaults[n] # <<>> =>
              Publics(n) # <<>>
<1> DEFINE vars == input.vars[n]
           defaults == input.defaults[n]
           P == Pool(<<>>, vars, defaults)
           S == {i \in DOMAIN P : P[i].url \notin SecretUrls(n)}
<1>1. vars \in Seq(Url) /\ defaults \in Seq(Url) /\ <<>> \in Seq(Url)
  BY InputTypes, EmptySeq
<1> HIDE DEF vars, defaults
<1>2. /\ P \in Seq(Candidate)
      /\ \A k \in DOMAIN P : /\ P[k].src \in {"secret", "variable", "default"}
                             /\ P[k].src = "secret" <=> InList(P[k].url, <<>>)
      /\ vars # <<>> \/ defaults # <<>> => P # <<>>
  <2> DEFINE s == <<>>
  <2>1. s \in Seq(Url) /\ vars \in Seq(Url) /\ defaults \in Seq(Url)
    BY <1>1
  <2> HIDE DEF s
  <2>2. /\ Pool(s, vars, defaults) \in Seq(Candidate)
        /\ \A k \in DOMAIN Pool(s, vars, defaults) :
             /\ Pool(s, vars, defaults)[k].src \in {"secret", "variable", "default"}
             /\ Pool(s, vars, defaults)[k].src = "secret" <=>
                  InList(Pool(s, vars, defaults)[k].url, s)
    BY <2>1, PoolIsWhole
  <2>3. s # <<>> \/ vars # <<>> \/ defaults # <<>> => Pool(s, vars, defaults) # <<>>
    BY <2>1, PoolIsWhole
  <2> QED
    BY <2>2, <2>3 DEF s
<1>3. Publics(n) = Keep(P, S)
  BY DEF Publics, vars, defaults
<1> HIDE DEF P
<1>4. /\ Keep(P, S) \in Seq(Candidate)
      /\ \A k \in DOMAIN Keep(P, S) : \E i \in DOMAIN P : i \in S /\ Keep(P, S)[k] = P[i]
      /\ \A i \in DOMAIN P : i \in S => \E k \in DOMAIN Keep(P, S) : Keep(P, S)[k] = P[i]
  <2> HIDE DEF S
  <2> QED
    BY <1>2, KeepsPlaces
<1>5. \A u : ~InList(u, <<>>)
  BY DEF InList
<1>6. \A k \in DOMAIN P : P[k].src \in {"variable", "default"}
  BY <1>2, <1>5
<1>7. ASSUME NEW k \in DOMAIN Publics(n)
      PROVE  /\ Publics(n)[k].src \in {"variable", "default"}
             /\ Publics(n)[k].url \notin SecretUrls(n)
  <2>1. PICK i \in DOMAIN P : i \in S /\ Publics(n)[k] = P[i]
    BY <1>3, <1>4
  <2> QED
    BY <1>6, <2>1
<1>8. ASSUME input.secret[n] = <<>>, vars \o defaults # <<>> PROVE Publics(n) # <<>>
  <2>1. vars # <<>> \/ defaults # <<>>
    BY <1>1, <1>8, ConcatEqualIffEmpty
  <2>2. Len(P) \in Nat \ {0} /\ DOMAIN P = 1 .. Len(P)
    BY <1>2, <2>1, EmptySeq, LenProperties
  <2>3. 1 \in DOMAIN P
    BY <2>2
  <2>4. \A u : u \notin SecretUrls(n)
    BY <1>5, <1>8, InputTypes
  <2>5. 1 \in S
    BY <2>3, <2>4
  <2>6. \E k \in DOMAIN Publics(n) : TRUE
    BY <1>3, <1>4, <2>3, <2>5
  <2> QED
    BY <2>6
<1> QED
  BY <1>3, <1>4, <1>7, <1>8 DEF vars, defaults

\* The candidates of a network. Those from the secret are those that it lists;
\* the proxy has its own node in front of the publics, and the secret last.
LEMMA CandidatesOf ==
  ASSUME input \in Inputs, NEW n \in Net
  PROVE  /\ Candidates(n) \in Seq(Candidate)
         /\ \A i \in DOMAIN Candidates(n) :
              Candidates(n)[i].src = "secret" <=> Candidates(n)[i].url \in SecretUrls(n)
         /\ input.mode = "select" =>
              \A i \in DOMAIN Candidates(n) : Candidates(n)[i].src # "own"
         /\ Len(Own(n)) \in Nat /\ Ahead(n) \in Nat /\ Len(Own(n)) <= Ahead(n)
         /\ input.mode = "proxy" =>
              /\ Len(Candidates(n)) = Ahead(n) + Len(input.secret[n])
              /\ \A i \in DOMAIN Candidates(n) :
                   /\ Candidates(n)[i].src = "secret" <=> i > Ahead(n)
                   /\ Candidates(n)[i].src = "own" <=> i <= Len(Own(n))
<1> DEFINE A == Own(n)
           B == Publics(n)
           C == From("secret", input.secret[n])
           all == A \o B \o C
<1>1. /\ A \in Seq(Candidate) /\ Len(A) \in Nat
      /\ \A i \in 1 .. Len(A) : A[i].src = "own" /\ A[i].url \notin SecretUrls(n)
  <2>1. CASE input.own[n] = NoUrl
    <3>1. A = <<>>
      BY <2>1 DEF Own
    <3> QED
      BY <3>1
  <2>2. CASE input.own[n] # NoUrl
    <3> DEFINE c == [src |-> "own", url |-> input.own[n]]
    <3>1. A = <<c>>
      BY <2>2 DEF Own
    <3>2. c \in Candidate /\ c.src = "own" /\ c.url \notin SecretUrls(n)
      BY <2>2, InputTypes DEF Candidate
    <3> HIDE DEF c, A
    <3>3. Len(A) = 1 /\ A[1] = c /\ A \in Seq(Candidate)
      BY <3>1, <3>2
    <3> QED
      BY <3>2, <3>3
  <2> QED
    BY <2>1, <2>2
<1>2. /\ B \in Seq(Candidate) /\ Len(B) \in Nat
      /\ \A i \in 1 .. Len(B) : /\ B[i].src \in {"variable", "default"}
                                /\ B[i].url \notin SecretUrls(n)
  BY PublicsAreNotSecret, LenProperties
<1>3. /\ C \in Seq(Candidate) /\ Len(C) = Len(input.secret[n]) /\ Len(C) \in Nat
      /\ \A i \in 1 .. Len(C) : C[i].src = "secret" /\ C[i].url \in SecretUrls(n)
  <2>1. input.secret[n] \in Seq(Url)
    BY InputTypes
  <2>2. /\ C \in Seq(Candidate) /\ Len(C) = Len(input.secret[n]) /\ Len(C) \in Nat
        /\ DOMAIN input.secret[n] = 1 .. Len(input.secret[n])
        /\ \A i \in 1 .. Len(input.secret[n]) : C[i] = [src |-> "secret", url |-> input.secret[n][i]]
    BY <2>1, FromList
  <2>3. \A i \in 1 .. Len(input.secret[n]) : input.secret[n][i] \in SecretUrls(n)
    BY <2>2 DEF SecretUrls
  <2>4. ASSUME NEW i \in 1 .. Len(C) PROVE C[i].src = "secret" /\ C[i].url \in SecretUrls(n)
    <3>1. C[i] = [src |-> "secret", url |-> input.secret[n][i]] /\ i \in 1 .. Len(input.secret[n])
      BY <2>2
    <3>2. C[i].src = "secret" /\ C[i].url = input.secret[n][i]
      BY <3>1
    <3> QED
      BY <2>3, <3>1, <3>2
  <2> QED
    BY <2>2, <2>4
<1> HIDE DEF A, B, C
<1>4. /\ A \o B \in Seq(Candidate) /\ Len(A \o B) = Len(A) + Len(B)
      /\ \A i \in 1 .. Len(A) : (A \o B)[i] = A[i]
      /\ \A i \in 1 .. Len(B) : (A \o B)[Len(A) + i] = B[i]
  <2>1. A \in Seq(Candidate) /\ B \in Seq(Candidate)
    BY <1>1, <1>2
  <2> QED
    BY <2>1, Joined
<1>5. /\ all \in Seq(Candidate) /\ Len(all) = Len(A) + Len(B) + Len(C)
      /\ DOMAIN all = 1 .. Len(all)
      /\ \A i \in 1 .. Len(A) + Len(B) : all[i] = (A \o B)[i]
      /\ \A i \in 1 .. Len(C) : all[Len(A) + Len(B) + i] = C[i]
  <2> DEFINE D == A \o B
  <2>1. D \in Seq(Candidate) /\ C \in Seq(Candidate) /\ all = D \o C /\ Len(D) = Len(A) + Len(B)
    BY <1>3, <1>4
  <2> HIDE DEF D, all
  <2>0. D \in Seq(Candidate) /\ C \in Seq(Candidate)
    BY <2>1
  <2>2. /\ D \o C \in Seq(Candidate) /\ Len(D \o C) = Len(D) + Len(C)
        /\ DOMAIN (D \o C) = 1 .. Len(D) + Len(C)
        /\ \A i \in 1 .. Len(D) : (D \o C)[i] = D[i]
        /\ \A i \in 1 .. Len(C) : (D \o C)[Len(D) + i] = C[i]
    BY <2>0, Joined
  <2> QED
    BY <2>1, <2>2 DEF D
<1> HIDE DEF all
<1>6. Ahead(n) = Len(A) + Len(B)
  BY DEF Ahead, A, B
<1>7. \A i \in 1 .. Len(all) :
        /\ all[i].src = "secret" <=> all[i].url \in SecretUrls(n)
        /\ all[i].src = "secret" <=> i > Len(A) + Len(B)
        /\ all[i].src = "own" <=> i <= Len(A)
  <2> TAKE i \in 1 .. Len(all)
  <2>0. i \in Nat /\ i >= 1 /\ i <= Len(A) + Len(B) + Len(C)
    <3>1. Len(all) = Len(A) + Len(B) + Len(C) /\ Len(A) \in Nat /\ Len(B) \in Nat /\ Len(C) \in Nat
      BY <1>1, <1>2, <1>3, <1>5
    <3> QED
      BY <3>1
  <2>1. CASE i <= Len(A)
    <3>1. i \in 1 .. Len(A) /\ i \in 1 .. Len(A) + Len(B)
      BY <1>1, <1>2, <2>0, <2>1
    <3>2. all[i] = A[i]
      BY <1>4, <1>5, <3>1
    <3> QED
      BY <1>1, <1>2, <2>0, <2>1, <3>1, <3>2
  <2>2. CASE i > Len(A) /\ i <= Len(A) + Len(B)
    <3>1. PICK j \in 1 .. Len(B) : i = Len(A) + j
      <4>1. i - Len(A) \in 1 .. Len(B) /\ i = Len(A) + (i - Len(A))
        BY <1>1, <1>2, <2>0, <2>2
      <4> QED
        BY <4>1
    <3>2. i \in 1 .. Len(A) + Len(B)
      BY <1>1, <1>2, <2>0, <2>2
    <3>3. all[i] = B[j]
      BY <1>4, <1>5, <3>1, <3>2
    <3>4. B[j].src \in {"variable", "default"} /\ B[j].url \notin SecretUrls(n)
      BY <1>2, <3>1
    <3> QED
      BY <1>1, <1>2, <2>0, <2>2, <3>3, <3>4
  <2>3. CASE i > Len(A) + Len(B)
    <3>1. PICK j \in 1 .. Len(C) : i = Len(A) + Len(B) + j
      <4>1. i - (Len(A) + Len(B)) \in 1 .. Len(C) /\ i = Len(A) + Len(B) + (i - (Len(A) + Len(B)))
        <5>1. Len(A) \in Nat /\ Len(B) \in Nat /\ Len(C) \in Nat
          BY <1>1, <1>2, <1>3
        <5> QED
          BY <2>0, <2>3, <5>1
      <4> QED
        BY <4>1
    <3>2. all[i] = C[j]
      BY <1>5, <3>1
    <3>3. C[j].src = "secret" /\ C[j].url \in SecretUrls(n)
      BY <1>3, <3>1
    <3> QED
      BY <1>1, <1>2, <2>0, <2>3, <3>2, <3>3
  <2> QED
    BY <1>1, <1>2, <2>0, <2>1, <2>2, <2>3
<1>8. Len(Own(n)) \in Nat /\ Ahead(n) \in Nat /\ Len(Own(n)) <= Ahead(n)
  BY <1>1, <1>2, <1>6 DEF A
<1>9. CASE input.mode = "proxy"
  <2>1. Candidates(n) = all
    BY <1>9 DEF Candidates, all, A, B, C
  <2> QED
    BY <1>3, <1>5, <1>6, <1>7, <1>8, <1>9, <2>1 DEF A
<1>10. CASE input.mode = "select"
  <2> DEFINE s == input.secret[n]
             v == input.vars[n]
             d == input.defaults[n]
             P == Pool(s, v, d)
  <2>1. Candidates(n) = P
    BY <1>10 DEF Candidates
  <2>2. s \in Seq(Url) /\ v \in Seq(Url) /\ d \in Seq(Url) /\ \A u : u \in SecretUrls(n) <=> InList(u, s)
    BY InputTypes
  <2> HIDE DEF s, v, d
  <2>3. /\ P \in Seq(Candidate)
        /\ \A k \in DOMAIN P : /\ P[k].src \in {"secret", "variable", "default"}
                               /\ P[k].src = "secret" <=> InList(P[k].url, s)
    BY <2>2, PoolIsWhole
  <2> HIDE DEF P
  <2> QED
    BY <1>8, <1>10, <2>1, <2>2, <2>3
<1> QED
  BY <1>9, <1>10, InputTypes

\* A network with a list is configured, and selecting it has candidates; one
\* with candidates to select from is configured.
LEMMA ListedIsConfigured ==
  ASSUME input \in Inputs, NEW n \in Net
  PROVE  /\ input.secret[n] \o input.vars[n] \o input.defaults[n] # <<>> => Configured(n)
         /\ input.mode = "select" /\ Candidates(n) # <<>> => Configured(n)
<1> DEFINE s == input.secret[n]
           v == input.vars[n]
           d == input.defaults[n]
<1>1. s \in Seq(Url) /\ v \in Seq(Url) /\ d \in Seq(Url)
  BY InputTypes
<1>2. s = <<>> /\ v \o d # <<>> => Publics(n) # <<>>
  BY PublicsAreNotSecret
<1>3. s # <<>> \/ Publics(n) # <<>> => Configured(n)
  BY DEF Configured
<1>4. input.mode = "select" => Candidates(n) = Pool(s, v, d)
  BY DEF Candidates
<1> HIDE DEF s, v, d
<1>5. v # <<>> \/ d # <<>> => v \o d # <<>>
  BY <1>1, ConcatEqualIffEmpty
<1>6. s \o v \o d # <<>> => s # <<>> \/ v # <<>> \/ d # <<>>
  BY <1>1
<1>7. Pool(s, v, d) # <<>> => s # <<>> \/ v # <<>> \/ d # <<>>
  BY <1>1, PoolIsWhole
<1> QED
  BY <1>2, <1>3, <1>4, <1>5, <1>6, <1>7 DEF s, v, d

-----------------------------------------------------------------------------
(* rpc-preflight: the invariant *)

\* A backend of the endpoint keeps state that deep, and what a window promises.
Serves(u, d) == \E kept \in input.backs[u] : kept >= d
Fits(up) ==
  /\ up.window \notin {Unbounded, Shallowest} => Serves(up.url, Probed(up.window))
  /\ up.tier = "own" /\ up.window = Unbounded => Serves(up.url, HeadBlock - 1)

\* A list of upstreams: our own node first, the paid ones last, each of them
\* masked and none beyond its window.
InOrder(list) ==
  \A i, j \in DOMAIN list : i < j =>
    /\ list[i].tier = "paid" => list[j].tier = "paid"
    /\ list[j].tier = "own" => list[i].tier = "own"
GoodList(n, list) ==
  /\ InOrder(list)
  /\ \A i \in DOMAIN list : Fits(list[i]) /\ (list[i].url \in SecretUrls(n) => list[i].url \in masked)

\* How many candidates have been dealt with; the others are still to do.
Handled(n) == Len(Candidates(n)) - Len(todo)
TodoInv(n) ==
  /\ Handled(n) \in Nat
  /\ \A i \in DOMAIN todo : todo[i] = Candidates(n)[Handled(n) + i]

\* The upstreams so far: paid ones joined when only the secret was left, and
\* after the publics, those that may recover included.
PublicsJoined == transients = <<>> \/ \E i \in DOMAIN ups : ups[i].tier = "public"
UpsInv(n) ==
  /\ GoodList(n, ups)
  /\ (\E i \in DOMAIN ups : ups[i].tier = "paid") => Handled(n) > Ahead(n) /\ PublicsJoined
  /\ (\E i \in DOMAIN ups : ups[i].tier # "own") => Handled(n) > Len(Own(n))
  /\ input.mode = "select" => ups = <<>>
TransientsInv(n) ==
  /\ \A i \in DOMAIN transients : transients[i] \notin SecretUrls(n)
  /\ transients # <<>> => Handled(n) > Len(Own(n))
  /\ input.mode = "select" => transients = <<>>

\* The check in progress is one that its candidate is due, and it has passed
\* what comes before.
ProbeInv ==
  probe.stage # "idle" =>
    /\ todo # <<>>
    /\ probe.stage = "chain" /\ input.mode = "proxy" /\ Cand.src = "secret" =>
         Cand.url \in masked /\ PublicsJoined
    /\ probe.stage \in {"state", "burst"} => Cand.src # "own"
    /\ probe.stage \in {"head", "depth"} => input.mode = "proxy"
    /\ probe.stage = "burst" => input.mode = "select"
    /\ probe.stage = "depth" =>
         probe.n <= IF Cand.src = "own" THEN Len(OwnProbes) ELSE Len(StateDepths)
    /\ probe.stage # "chain" =>
         /\ input.mode = "proxy" => Cand.src # "secret"
         /\ Cand.url \notin input.wrong

\* The calls answered so far: in `turns` whole passes over the depths, and at
\* the first `rest` of them once more.
ReadsInv(n) ==
  /\ input.mode = "select" /\ probe.stage = "state" =>
       \E turns \in Nat : \E rest \in 0 .. Len(Blocks(n)) - 1 :
         /\ probe.n \div 2 = turns * Len(Blocks(n)) + rest
         /\ \A b \in 1 .. Len(Blocks(n)) :
              reads[Blocks(n)[b]] >= turns + (IF b <= rest THEN 1 ELSE 0)
  /\ probe.stage = "burst" =>
       \A b \in 1 .. Len(Blocks(n)) : reads[Blocks(n)[b]] >= Samples

\* A proxy has asked one thing, its chain id, of each entry of the secret dealt
\* with.
PaidInv(n) ==
  input.mode = "proxy" =>
    /\ paidCalls.other = 0
    /\ paidCalls.chainId = 0 \/ paidCalls.chainId + Ahead(n) <= Handled(n)

Work(n) == /\ TodoInv(n) /\ UpsInv(n) /\ TransientsInv(n)
           /\ ProbeInv /\ ReadsInv(n) /\ PaidInv(n)
NoWork == todo = <<>> /\ ups = <<>> /\ transients = <<>> /\ probe = Idle
WorkInv == /\ left # <<>> => Work(Cur)
           /\ left = <<>> => NoWork

\* What the networks dealt with have come to.
NetsInv ==
  /\ \A n \in Net : GoodList(n, nets[n])
  /\ \A n \in Net : nets[n] # <<>> => n \in Demanded
  /\ input.mode = "select" => \A n \in Net : nets[n] = <<>>
Settled(n) ==
  \/ ~Configured(n)
  \/ n \in nofit
  \/ input.mode = "select" /\ env[n] # NoUrl
  \/ input.mode = "proxy" /\ nets[n] # <<>>
EnvInv ==
  /\ \A i \in DOMAIN left : left[i] \in Demanded
  /\ \A n \in Net : env[n] # NoUrl => n \in Demanded
  /\ \A n \in Net : env[n] \in SecretUrls(n) => env[n] \in masked
  /\ result = "scanning" => left = <<>> /\ nofit = {}
  /\ input.mode = "proxy" /\ (nofit # {} \/ result \in {"scanning", "running"}) =>
       \A n \in Net : env[n] = NoUrl
  /\ result = "running" \/ nofit # {} =>
       \A n \in Net : n \in Demanded => (\E i \in DOMAIN left : left[i] = n) \/ Settled(n)
  /\ result = "clean" =>
       \A n \in Net : n \in Demanded /\ Configured(n) => env[n] # NoUrl

RpcIInv == RpcTypeOK /\ input \in Inputs /\ WorkInv /\ NetsInv /\ EnvInv

\* What is read of the configuration stands while it does.
LEMMA InputStands ==
  ASSUME input' = input
  PROVE  /\ \A n : Candidates(n)' = Candidates(n)
         /\ \A n : SecretUrls(n)' = SecretUrls(n)
         /\ \A n : Blocks(n)' = Blocks(n)
         /\ \A n : Ahead(n)' = Ahead(n)
         /\ \A n : Own(n)' = Own(n)
         /\ \A n : Configured(n)' = Configured(n)
         /\ Demanded' = Demanded
         /\ \A u, d : Serves(u, d)' = Serves(u, d)
         /\ \A up : Fits(up)' = Fits(up)
<1>1. \A n : SecretUrls(n)' = SecretUrls(n)
  BY DEF SecretUrls
<1>2. \A n : Publics(n)' = Publics(n)
  BY DEF Publics, SecretUrls
<1>3. \A n : Own(n)' = Own(n)
  BY DEF Own
<1>4. \A n : Candidates(n)' = Candidates(n)
  BY <1>2, <1>3 DEF Candidates
<1>5. \A n : Ahead(n)' = Ahead(n)
  BY <1>2, <1>3 DEF Ahead
<1>6. \A n : Configured(n)' = Configured(n)
  BY <1>2 DEF Configured
<1>7. \A n : Blocks(n)' = Blocks(n)
  BY DEF Blocks
<1>8. Demanded' = Demanded
  BY DEF Demanded
<1>9. \A u, d : Serves(u, d)' = Serves(u, d)
  BY DEF Serves
<1>10. \A up : Fits(up)' = Fits(up)
  BY <1>9 DEF Fits
<1> QED
  BY <1>1, <1>3, <1>4, <1>5, <1>6, <1>7, <1>8, <1>9, <1>10

\* Masks only accumulate, and a good list stays one.
LEMMA GoodStays ==
  ASSUME input' = input, masked \subseteq masked', NEW n, NEW list, GoodList(n, list)
  PROVE  GoodList(n, list)'
  BY InputStands DEF GoodList

\* What the networks dealt with have come to stands while no other is.
LEMMA OutputStands ==
  ASSUME input' = input, left' = left, UNCHANGED <<nets, env, nofit, result>>,
         masked \subseteq masked', NetsInv, EnvInv
  PROVE  NetsInv' /\ EnvInv'
<1>1. NetsInv'
  BY InputStands, GoodStays DEF NetsInv
<1>2. \A n : Settled(n)' = Settled(n)
  BY InputStands DEF Settled
<1>3. EnvInv'
  BY <1>2, InputStands DEF EnvInv
<1> QED
  BY <1>1, <1>3

\* The candidate in turn.
LEMMA CandidateInTurn ==
  ASSUME RpcIInv, left # <<>>, todo # <<>>
  PROVE  /\ Cur \in Net /\ Cand \in Candidate
         /\ Handled(Cur) \in Nat /\ Len(Own(Cur)) \in Nat /\ Ahead(Cur) \in Nat
         /\ Len(Own(Cur)) <= Ahead(Cur)
         /\ Cand.src = "secret" <=> Cand.url \in SecretUrls(Cur)
         /\ input.mode \in {"select", "proxy"}
         /\ input.mode = "select" => Cand.src # "own"
         /\ input.mode = "proxy" =>
              /\ Cand.src = "secret" <=> Handled(Cur) + 1 > Ahead(Cur)
              /\ Cand.src = "own" <=> Handled(Cur) + 1 <= Len(Own(Cur))
<1>1. Cur \in Net
  BY HeadTailProperties DEF RpcIInv, RpcTypeOK, Cur
<1>2. todo \in Seq(Candidate)
  BY DEF RpcIInv, RpcTypeOK, Candidate
<1>3. Len(todo) \in Nat \ {0} /\ DOMAIN todo = 1 .. Len(todo) /\ Cand = todo[1] /\ Cand \in Candidate
  BY <1>2, EmptySeq, LenProperties, HeadTailProperties DEF Cand
<1>4. /\ Handled(Cur) \in Nat
      /\ Cand = Candidates(Cur)[Handled(Cur) + 1]
  BY <1>3 DEF RpcIInv, WorkInv, Work, TodoInv
<1>5. input \in Inputs
  BY DEF RpcIInv
<1>6. Candidates(Cur) \in Seq(Candidate)
  BY <1>1, <1>5, CandidatesOf
<1>7. Len(Candidates(Cur)) \in Nat /\ DOMAIN Candidates(Cur) = 1 .. Len(Candidates(Cur))
  BY <1>6, LenProperties
<1>8. Handled(Cur) + 1 \in DOMAIN Candidates(Cur)
  BY <1>3, <1>4, <1>7 DEF Handled
<1> DEFINE C == Candidates(Cur)
<1>9. /\ \A i \in DOMAIN C : C[i].src = "secret" <=> C[i].url \in SecretUrls(Cur)
      /\ input.mode = "select" => \A i \in DOMAIN C : C[i].src # "own"
      /\ Len(Own(Cur)) \in Nat /\ Ahead(Cur) \in Nat /\ Len(Own(Cur)) <= Ahead(Cur)
      /\ input.mode = "proxy" =>
           \A i \in DOMAIN C : /\ C[i].src = "secret" <=> i > Ahead(Cur)
                               /\ C[i].src = "own" <=> i <= Len(Own(Cur))
  BY <1>1, <1>5, CandidatesOf
<1>10. input.mode \in {"select", "proxy"}
  BY <1>5, InputsAssumption
<1> HIDE DEF C
<1> QED
  BY <1>1, <1>3, <1>4, <1>8, <1>9, <1>10 DEF C

\* The candidate in turn is dealt with.
LEMMA NextInTurn ==
  ASSUME RpcIInv, left # <<>>, todo # <<>>, todo' = Tail(todo), left' = left, input' = input
  PROVE  /\ todo' \in Seq(Candidate)
         /\ TodoInv(Cur)'
         /\ Handled(Cur)' = Handled(Cur) + 1
<1>1. todo \in Seq(Candidate)
  BY DEF RpcIInv, RpcTypeOK, Candidate
<1>2. /\ todo' \in Seq(Candidate) /\ Len(todo') = Len(todo) - 1 /\ Len(todo) \in Nat \ {0}
      /\ \A i \in 1 .. Len(todo') : todo'[i] = todo[i + 1]
      /\ DOMAIN todo = 1 .. Len(todo)
  BY <1>1, HeadTailProperties, EmptySeq, LenProperties
<1>3. DOMAIN todo' = 1 .. Len(todo')
  BY <1>2, LenProperties
<1>4. Cur' = Cur /\ Candidates(Cur)' = Candidates(Cur)
  BY InputStands DEF Cur
<1>5. Cur \in Net /\ input \in Inputs
  BY CandidateInTurn DEF RpcIInv
<1>6. Candidates(Cur) \in Seq(Candidate)
  BY <1>5, CandidatesOf
<1>7. Len(Candidates(Cur)) \in Nat
  BY <1>6, LenProperties
<1>8. Handled(Cur)' = Handled(Cur) + 1
  BY <1>2, <1>4, <1>7 DEF Handled
<1>9. Handled(Cur) \in Nat /\ \A i \in DOMAIN todo : todo[i] = Candidates(Cur)[Handled(Cur) + i]
  BY DEF RpcIInv, WorkInv, Work, TodoInv
<1>10. ASSUME NEW i \in DOMAIN todo' PROVE todo'[i] = Candidates(Cur)'[Handled(Cur)' + i]
  <2>1. i \in 1 .. Len(todo') /\ i + 1 \in DOMAIN todo /\ Handled(Cur) + (i + 1) = Handled(Cur) + 1 + i
    BY <1>2, <1>3, <1>9
  <2> QED
    BY <1>2, <1>4, <1>8, <1>9, <2>1
<1>11. TodoInv(Cur)'
  BY <1>8, <1>9, <1>10 DEF TodoInv
<1> QED
  BY <1>2, <1>8, <1>11

\* What the candidate in turn finds: the lists so far, each of its type.
LEMMA WorkTypes ==
  ASSUME RpcIInv
  PROVE  /\ ups \in Seq([url : Url, tier : Tier, window : Nat])
         /\ DOMAIN ups = 1 .. Len(ups) /\ Len(ups) \in Nat
         /\ transients \in Seq(Url)
         /\ DOMAIN transients = 1 .. Len(transients) /\ Len(transients) \in Nat
         /\ paidCalls \in [chainId : Nat, other : Nat]
  BY LenProperties DEF RpcIInv, RpcTypeOK

\* The requests a paid entry may be sent: its chain id is asked, or none is.
PaidGrows ==
  \/ paidCalls' = paidCalls
  \/ paidCalls' = [paidCalls EXCEPT !.chainId = @ + 1] /\ Cand.src = "secret"

\* What is sent past the chain id goes to an endpoint the secret does not list.
LEMMA OthersSpared ==
  ASSUME RpcIInv, NEW stage \in {"state", "burst", "head", "depth"}, At(stage),
         NEW n, Sends("other", n)
  PROVE  paidCalls' = paidCalls
<1>1. left # <<>> /\ todo # <<>> /\ probe.stage = stage
  BY DEF At
<1>2. input.mode = "proxy" => Cand.src # "secret"
  BY <1>1 DEF RpcIInv, WorkInv, Work, ProbeInv
<1>3. Cand.src = "secret" <=> Cand.url \in SecretUrls(Cur)
  BY <1>1, CandidateInTurn
<1> QED
  BY <1>2, <1>3 DEF Sends

\* A candidate passed over keeps the invariant.
LEMMA RejectKeeps ==
  ASSUME RpcIInv, left # <<>>, todo # <<>>, NEW reason, Reject(reason), input' = input,
         reads' \in [0 .. HeadBlock -> Nat],
         PaidGrows
  PROVE  RpcIInv'
<1>1. /\ Cur \in Net /\ Cand \in Candidate
      /\ Handled(Cur) \in Nat /\ Len(Own(Cur)) \in Nat /\ Ahead(Cur) \in Nat
      /\ Len(Own(Cur)) <= Ahead(Cur)
      /\ Cand.src = "secret" <=> Cand.url \in SecretUrls(Cur)
      /\ input.mode \in {"select", "proxy"}
      /\ input.mode = "proxy" =>
           /\ Cand.src = "secret" <=> Handled(Cur) + 1 > Ahead(Cur)
           /\ Cand.src = "own" <=> Handled(Cur) + 1 <= Len(Own(Cur))
  BY CandidateInTurn
<1>2. todo' \in Seq(Candidate) /\ TodoInv(Cur)' /\ Handled(Cur)' = Handled(Cur) + 1
  BY NextInTurn DEF Reject
<1>3. /\ Cur' = Cur /\ left' = left /\ ups' = ups /\ probe' = Idle
      /\ UNCHANGED <<nets, env, masked, nofit, result>>
      /\ transients' = IF input.mode = "proxy" /\ Cand.src \in {"variable", "default"} /\ Transient(reason)
                       THEN Append(transients, Cand.url) ELSE transients
  BY DEF Reject, output, Cur
<1>4. NetsInv' /\ EnvInv'
  BY <1>3, OutputStands DEF RpcIInv
<1>5. /\ SecretUrls(Cur)' = SecretUrls(Cur) /\ Ahead(Cur)' = Ahead(Cur) /\ Own(Cur)' = Own(Cur)
  BY <1>3, InputStands
<1>6. UpsInv(Cur) /\ TransientsInv(Cur) /\ PaidInv(Cur)
  BY DEF RpcIInv, WorkInv, Work
<1>7. ASSUME transients' = transients PROVE UpsInv(Cur)' /\ TransientsInv(Cur)'
  <2>1. PublicsJoined' <=> PublicsJoined
    BY <1>3, <1>7 DEF PublicsJoined
  <2>2. GoodList(Cur, ups)'
    BY <1>3, <1>6, GoodStays DEF UpsInv
  <2>3. UpsInv(Cur)'
    BY <1>1, <1>2, <1>3, <1>5, <1>6, <2>1, <2>2 DEF UpsInv
  <2>4. TransientsInv(Cur)'
    BY <1>1, <1>2, <1>3, <1>5, <1>6, <1>7 DEF TransientsInv
  <2> QED
    BY <2>3, <2>4
<1>8. ASSUME transients' # transients PROVE UpsInv(Cur)' /\ TransientsInv(Cur)'
  <2>1. /\ input.mode = "proxy" /\ Cand.src \in {"variable", "default"}
        /\ transients' = Append(transients, Cand.url)
    BY <1>3, <1>8
  <2>2. ~(\E i \in DOMAIN ups : ups[i].tier = "paid")
    BY <1>1, <1>6, <2>1 DEF UpsInv
  <2>3. GoodList(Cur, ups)'
    BY <1>3, <1>6, GoodStays DEF UpsInv
  <2>4. UpsInv(Cur)'
    BY <1>1, <1>2, <1>3, <1>5, <1>6, <2>1, <2>2, <2>3 DEF UpsInv
  <2>5. \A i \in DOMAIN transients' : transients'[i] \in {transients[j] : j \in DOMAIN transients} \union {Cand.url}
    BY <2>1, WorkTypes
  <2>6. TransientsInv(Cur)'
    BY <1>1, <1>2, <1>3, <1>5, <1>6, <2>1, <2>5 DEF TransientsInv
  <2> QED
    BY <2>4, <2>6
<1>9. PaidInv(Cur)' /\ paidCalls' \in [chainId : Nat, other : Nat]
  BY <1>1, <1>2, <1>5, <1>6, WorkTypes DEF PaidInv, PaidGrows
<1>10. ProbeInv' /\ ReadsInv(Cur)'
  BY <1>3 DEF ProbeInv, ReadsInv, Idle
<1>11. WorkInv'
  BY <1>2, <1>3, <1>7, <1>8, <1>9, <1>10 DEF WorkInv, Work
<1>12. transients' \in Seq(Url)
  BY <1>1, <1>3, WorkTypes DEF Candidate
<1>13. RpcTypeOK'
  BY <1>2, <1>3, <1>9, <1>12 DEF RpcIInv, RpcTypeOK, Candidate, Idle
<1> QED
  BY <1>4, <1>11, <1>13 DEF RpcIInv

\* The places of a list with one more entry.
LEMMA OneMore ==
  ASSUME NEW S, NEW list \in Seq(S), NEW e \in S
  PROVE  /\ Append(list, e) \in Seq(S)
         /\ Len(list) \in Nat
         /\ DOMAIN list = 1 .. Len(list)
         /\ DOMAIN Append(list, e) = 1 .. Len(list) + 1
         /\ \A i \in DOMAIN list : i \in DOMAIN Append(list, e) /\ Append(list, e)[i] = list[i]
         /\ Append(list, e)[Len(list) + 1] = e
         /\ \A i \in DOMAIN Append(list, e) : i \in DOMAIN list \/ i = Len(list) + 1
<1>1. Len(list) \in Nat /\ DOMAIN list = 1 .. Len(list)
  BY LenProperties
<1>2. /\ Append(list, e) \in Seq(S) /\ Len(Append(list, e)) = Len(list) + 1
      /\ \A i \in 1 .. Len(list) : Append(list, e)[i] = list[i]
      /\ Append(list, e)[Len(list) + 1] = e
  BY <1>1, AppendProperties
<1>3. DOMAIN Append(list, e) = 1 .. Len(list) + 1
  BY <1>2, LenProperties
<1> QED
  BY <1>1, <1>2, <1>3

\* A candidate that joins keeps the invariant: it comes where its tier belongs.
LEMMA JoinKeeps ==
  ASSUME RpcIInv, left # <<>>, todo # <<>>, NEW w \in Nat, Join(w), input' = input,
         input.mode = "proxy",
         Fits(Upstream(Cand.url, TierOf(Cand.src), w)),
         Cand.src = "secret" => Cand.url \in masked /\ PublicsJoined,
         reads' \in [0 .. HeadBlock -> Nat],
         PaidGrows
  PROVE  RpcIInv'
<1> DEFINE new == Upstream(Cand.url, TierOf(Cand.src), w)
           H == Handled(Cur)
           Entry == [url : Url, tier : Tier, window : Nat]
<1>1. /\ Cur \in Net /\ Cand \in Candidate
      /\ H \in Nat /\ Len(Own(Cur)) \in Nat /\ Ahead(Cur) \in Nat
      /\ Len(Own(Cur)) <= Ahead(Cur)
      /\ Cand.src = "secret" <=> Cand.url \in SecretUrls(Cur)
      /\ Cand.src = "secret" <=> H + 1 > Ahead(Cur)
      /\ Cand.src = "own" <=> H + 1 <= Len(Own(Cur))
  BY CandidateInTurn
<1>2. todo' \in Seq(Candidate) /\ TodoInv(Cur)' /\ Handled(Cur)' = H + 1
  BY NextInTurn DEF Join
<1>3. /\ Cur' = Cur /\ left' = left /\ ups' = Append(ups, new) /\ probe' = Idle
      /\ UNCHANGED <<nets, env, masked, nofit, result>>
      /\ transients' = transients
  BY DEF Join, output, Cur
<1>4. NetsInv' /\ EnvInv'
  BY <1>3, OutputStands DEF RpcIInv
<1>5. /\ SecretUrls(Cur)' = SecretUrls(Cur) /\ Ahead(Cur)' = Ahead(Cur) /\ Own(Cur)' = Own(Cur)
  BY <1>3, InputStands
<1>6. UpsInv(Cur) /\ TransientsInv(Cur) /\ PaidInv(Cur)
  BY DEF RpcIInv, WorkInv, Work
<1>7. /\ new \in Entry /\ new.url = Cand.url
      /\ new.tier = "own" <=> Cand.src = "own"
      /\ new.tier = "paid" <=> Cand.src = "secret"
  BY <1>1 DEF Candidate, Upstream, TierOf, Tier
<1>8. Fits(new)
  OBVIOUS
<1>9. ups \in Seq(Entry)
  BY WorkTypes
<1> HIDE DEF new, H
<1>10. /\ ups' \in Seq(Entry)
       /\ DOMAIN ups = 1 .. Len(ups) /\ Len(ups) \in Nat
       /\ \A i \in DOMAIN ups : i \in DOMAIN ups' /\ ups'[i] = ups[i]
       /\ Len(ups) + 1 \in DOMAIN ups' /\ ups'[Len(ups) + 1] = new
       /\ \A i \in DOMAIN ups' : i \in DOMAIN ups \/ i = Len(ups) + 1
  <2> DEFINE all == Append(ups, new)
  <2>1. /\ all \in Seq(Entry) /\ Len(ups) \in Nat /\ DOMAIN ups = 1 .. Len(ups)
        /\ DOMAIN all = 1 .. Len(ups) + 1
        /\ \A i \in DOMAIN ups : i \in DOMAIN all /\ all[i] = ups[i]
        /\ all[Len(ups) + 1] = new
        /\ \A i \in DOMAIN all : i \in DOMAIN ups \/ i = Len(ups) + 1
    <3> HIDE DEF Entry
    <3> QED
      BY <1>7, <1>9, OneMore
  <2> HIDE DEF all
  <2>2. ups' = all
    BY <1>3 DEF all
  <2> QED
    BY <2>1, <2>2
<1>11. /\ InOrder(ups)
       /\ \A i \in DOMAIN ups : Fits(ups[i]) /\ (ups[i].url \in SecretUrls(Cur) => ups[i].url \in masked)
       /\ (\E i \in DOMAIN ups : ups[i].tier = "paid") => H > Ahead(Cur) /\ PublicsJoined
       /\ (\E i \in DOMAIN ups : ups[i].tier # "own") => H > Len(Own(Cur))
  BY <1>6 DEF UpsInv, GoodList, H
<1>12. InOrder(ups')
  <2> SUFFICES ASSUME NEW i \in DOMAIN ups', NEW j \in DOMAIN ups', i < j
               PROVE  /\ ups'[i].tier = "paid" => ups'[j].tier = "paid"
                      /\ ups'[j].tier = "own" => ups'[i].tier = "own"
    BY DEF InOrder
  <2>1. i \in DOMAIN ups /\ ups'[i] = ups[i]
    <3>1. i \in DOMAIN ups \/ i = Len(ups) + 1
      BY <1>10
    <3>2. j \in DOMAIN ups \/ j = Len(ups) + 1
      BY <1>10
    <3>3. DOMAIN ups = 1 .. Len(ups) /\ Len(ups) \in Nat
      BY <1>10
    <3>4. i \in DOMAIN ups
      BY <3>1, <3>2, <3>3
    <3> QED
      BY <1>10, <3>4
  <2>2. CASE j \in DOMAIN ups
    <3>1. ups'[j] = ups[j]
      BY <1>10, <2>2
    <3>2. /\ ups[i].tier = "paid" => ups[j].tier = "paid"
          /\ ups[j].tier = "own" => ups[i].tier = "own"
      BY <1>11, <2>1, <2>2 DEF InOrder
    <3> QED
      BY <2>1, <3>1, <3>2
  <2>3. CASE j = Len(ups) + 1
    <3>1. ups'[j] = new
      BY <1>10, <2>3
    <3>2. ups[i].tier = "paid" => new.tier = "paid"
      BY <1>1, <1>7, <1>11, <2>1
    <3>3. new.tier = "own" => ups[i].tier = "own"
      BY <1>1, <1>7, <1>11, <2>1
    <3> QED
      BY <2>1, <3>1, <3>2, <3>3
  <2> QED
    BY <1>10, <2>2, <2>3
<1>13. ASSUME NEW i \in DOMAIN ups'
       PROVE  Fits(ups'[i]) /\ (ups'[i].url \in SecretUrls(Cur) => ups'[i].url \in masked)
  BY <1>1, <1>7, <1>8, <1>10, <1>11
<1>14. GoodList(Cur, ups)'
  <2>1. InOrder(ups)'
    BY <1>12 DEF InOrder
  <2>2. \A up : Fits(up)' = Fits(up)
    BY InputStands
  <2>3. (\A i \in DOMAIN ups : Fits(ups[i]))'
    BY <1>13, <2>2
  <2>4. (\A i \in DOMAIN ups : ups[i].url \in SecretUrls(Cur) => ups[i].url \in masked)'
    BY <1>3, <1>5, <1>13
  <2> QED
    BY <2>1, <2>3, <2>4 DEF GoodList
<1>15. PublicsJoined => PublicsJoined'
  BY <1>3, <1>10 DEF PublicsJoined
<1>16. (\E i \in DOMAIN ups' : ups'[i].tier = "paid") => H + 1 > Ahead(Cur) /\ PublicsJoined'
  <2> SUFFICES ASSUME NEW i \in DOMAIN ups', ups'[i].tier = "paid"
               PROVE  H + 1 > Ahead(Cur) /\ PublicsJoined'
    OBVIOUS
  <2>1. CASE i \in DOMAIN ups
    <3>1. ups[i].tier = "paid"
      BY <1>10, <2>1
    <3>2. H > Ahead(Cur) /\ PublicsJoined
      BY <1>11, <2>1, <3>1
    <3> QED
      BY <1>1, <1>15, <3>2
  <2>2. CASE i = Len(ups) + 1
    BY <1>1, <1>7, <1>10, <1>15, <2>2
  <2> QED
    BY <1>10, <2>1, <2>2
<1>17. (\E i \in DOMAIN ups' : ups'[i].tier # "own") => H + 1 > Len(Own(Cur))
  <2> SUFFICES ASSUME NEW i \in DOMAIN ups', ups'[i].tier # "own"
               PROVE  H + 1 > Len(Own(Cur))
    OBVIOUS
  <2>1. CASE i \in DOMAIN ups
    <3>1. ups[i].tier # "own"
      BY <1>10, <2>1
    <3>2. H > Len(Own(Cur))
      BY <1>11, <2>1, <3>1
    <3> QED
      BY <1>1, <3>2
  <2>2. CASE i = Len(ups) + 1
    BY <1>1, <1>7, <1>10, <2>2
  <2> QED
    BY <1>10, <2>1, <2>2
<1>18. UpsInv(Cur)'
  BY <1>2, <1>3, <1>5, <1>14, <1>16, <1>17 DEF UpsInv
<1>19. TransientsInv(Cur)'
  BY <1>1, <1>2, <1>3, <1>5, <1>6 DEF TransientsInv, H
<1>20. PaidInv(Cur)' /\ paidCalls' \in [chainId : Nat, other : Nat]
  BY <1>1, <1>2, <1>5, <1>6, WorkTypes DEF PaidInv, PaidGrows, H
<1>21. ProbeInv' /\ ReadsInv(Cur)'
  BY <1>3 DEF ProbeInv, ReadsInv, Idle
<1>22. WorkInv'
  BY <1>2, <1>3, <1>18, <1>19, <1>20, <1>21 DEF WorkInv, Work
<1>23. RpcTypeOK'
  BY <1>2, <1>3, <1>10, <1>20 DEF RpcIInv, RpcTypeOK, Candidate, Idle
<1> QED
  BY <1>4, <1>22, <1>23 DEF RpcIInv

\* The work on a network stands while nothing is kept or passed over.
LEMMA WorkStays ==
  ASSUME RpcIInv, UNCHANGED <<input, progress>>, masked \subseteq masked',
         paidCalls' = paidCalls,
         left = <<>> => probe' = probe,
         left # <<>> => ProbeInv' /\ ReadsInv(Cur)'
  PROVE  WorkInv'
<1>1. /\ Cur' = Cur /\ left' = left /\ todo' = todo /\ ups' = ups /\ transients' = transients
      /\ input' = input
  BY DEF progress, Cur
<1>2. CASE left = <<>>
  BY <1>1, <1>2 DEF RpcIInv, WorkInv, NoWork, Idle
<1>3. CASE left # <<>>
  <2>1. /\ SecretUrls(Cur)' = SecretUrls(Cur) /\ Ahead(Cur)' = Ahead(Cur) /\ Own(Cur)' = Own(Cur)
        /\ Candidates(Cur)' = Candidates(Cur)
    BY <1>1, InputStands
  <2>2. TodoInv(Cur) /\ UpsInv(Cur) /\ TransientsInv(Cur) /\ PaidInv(Cur)
    BY <1>3 DEF RpcIInv, WorkInv, Work
  <2>3. Handled(Cur)' = Handled(Cur)
    BY <1>1, <2>1 DEF Handled
  <2>4. TodoInv(Cur)'
    BY <1>1, <2>1, <2>2, <2>3 DEF TodoInv
  <2>5. PublicsJoined' <=> PublicsJoined
    BY <1>1 DEF PublicsJoined
  <2>6. GoodList(Cur, ups)'
    BY <1>1, <2>2, GoodStays DEF UpsInv
  <2>7. UpsInv(Cur)'
    BY <1>1, <2>1, <2>2, <2>3, <2>5, <2>6 DEF UpsInv
  <2>8. TransientsInv(Cur)'
    BY <1>1, <2>1, <2>2, <2>3 DEF TransientsInv
  <2>9. PaidInv(Cur)'
    BY <1>1, <2>1, <2>2, <2>3 DEF PaidInv
  <2> QED
    BY <1>1, <1>3, <2>4, <2>7, <2>8, <2>9 DEF WorkInv, Work
<1> QED
  BY <1>2, <1>3

\* A check that goes on keeps the invariant when it may be at the new stage.
LEMMA StageKeeps ==
  ASSUME RpcIInv, left # <<>>,
         UNCHANGED <<input, progress, nets, env, nofit, result>>, masked \subseteq masked', masked' \subseteq Url,
         probe' \in [stage : {"idle", "chain", "state", "burst", "head", "depth"}, n : Nat],
         reads' \in [0 .. HeadBlock -> Nat],
         paidCalls' = paidCalls,
         ProbeInv', ReadsInv(Cur)'
  PROVE  RpcIInv'
<1>1. /\ left' = left /\ todo' = todo /\ ups' = ups /\ transients' = transients
      /\ input' = input
      /\ UNCHANGED <<nets, env, nofit, result>>
  BY DEF progress
<1>2. NetsInv' /\ EnvInv'
  BY <1>1, OutputStands DEF RpcIInv
<1>3. WorkInv'
  BY WorkStays
<1>4. RpcTypeOK'
  BY <1>1 DEF RpcIInv, RpcTypeOK
<1> QED
  BY <1>1, <1>2, <1>3, <1>4 DEF RpcIInv

\* The work on a list of networks begins with nothing kept.
LEMMA TakeUpStarts ==
  ASSUME input \in Inputs, NEW list \in Seq(Net), TakeUp(list)
  PROVE  /\ WorkInv' /\ input' = input /\ left' = list
         /\ todo' \in Seq(Candidate) /\ ups' = <<>> /\ transients' = <<>> /\ probe' = Idle
         /\ reads' \in [0 .. HeadBlock -> Nat] /\ paidCalls' = NoCalls
<1>1. /\ left' = list /\ ups' = <<>> /\ transients' = <<>> /\ probe' = Idle
      /\ todo' = IF list = <<>> THEN <<>> ELSE Candidates(Head(list))
      /\ reads' = Unread /\ paidCalls' = NoCalls /\ input' = input
  BY DEF TakeUp
<1>2. reads' \in [0 .. HeadBlock -> Nat]
  BY <1>1 DEF Unread
<1>3. CASE list = <<>>
  BY <1>1, <1>2, <1>3, EmptySeq DEF WorkInv, NoWork, Idle
<1>4. CASE list # <<>>
  <2>1. Cur' = Head(list) /\ Head(list) \in Net /\ left' # <<>>
    BY <1>1, <1>4, HeadTailProperties DEF Cur
  <2>2. Candidates(Head(list)) \in Seq(Candidate) /\ Len(Candidates(Head(list))) \in Nat
    BY <2>1, CandidatesOf, LenProperties
  <2>3. Candidates(Cur)' = todo'
    BY <1>1, <1>4, <2>1, InputStands
  <2>4. todo' \in Seq(Candidate) /\ Len(todo') \in Nat /\ Handled(Cur)' = 0
    BY <1>1, <1>4, <2>2, <2>3 DEF Handled
  <2>5. TodoInv(Cur)'
    <3>1. DOMAIN todo' = 1 .. Len(todo')
      BY <2>4, LenProperties
    <3> QED
      BY <2>3, <2>4, <3>1 DEF TodoInv
  <2>6. UpsInv(Cur)' /\ TransientsInv(Cur)' /\ PaidInv(Cur)'
    BY <1>1 DEF UpsInv, GoodList, InOrder, TransientsInv, PaidInv, NoCalls
  <2>7. ProbeInv' /\ ReadsInv(Cur)'
    BY <1>1 DEF ProbeInv, ReadsInv, Idle
  <2> QED
    BY <1>1, <1>2, <2>1, <2>4, <2>5, <2>6, <2>7 DEF WorkInv, Work
<1> QED
  BY <1>3, <1>4

-----------------------------------------------------------------------------
(* rpc-preflight: the steps *)

\* What is known of the check in progress.
LEMMA CheckInTurn ==
  ASSUME RpcIInv, NEW stage, At(stage)
  PROVE  /\ left # <<>> /\ todo # <<>> /\ probe.stage = stage /\ result = "running"
         /\ ProbeInv /\ ReadsInv(Cur)
         /\ probe \in [stage : {"idle", "chain", "state", "burst", "head", "depth"}, n : Nat]
         /\ reads \in [0 .. HeadBlock -> Nat] /\ masked \subseteq Url
  BY DEF At, RpcIInv, RpcTypeOK, WorkInv, Work

\* Without an upstream of a lower tier there is only our own node.
LEMMA TransientsKeep ==
  ASSUME RpcIInv, KeepTransients
  PROVE  RpcIInv'
<1> DEFINE Entry == [url : Url, tier : Tier, window : Nat]
           more == [i \in DOMAIN transients |-> Upstream(transients[i], "public", Unbounded)]
<1>1. /\ left # <<>> /\ probe = Idle /\ ups' = ups \o more /\ transients' = <<>>
      /\ UNCHANGED <<input, left, todo, probe, nets, env, masked, nofit, result, reads, paidCalls>>
      /\ transients # <<>> /\ \A i \in DOMAIN ups : ups[i].tier # "public"
      /\ input.mode = "proxy"
  BY DEF KeepTransients, FallbackDue, output
<1>2. /\ TodoInv(Cur) /\ UpsInv(Cur) /\ TransientsInv(Cur) /\ PaidInv(Cur)
      /\ ProbeInv /\ ReadsInv(Cur)
  BY <1>1 DEF RpcIInv, WorkInv, Work
<1>3. /\ ups \in Seq(Entry) /\ DOMAIN ups = 1 .. Len(ups) /\ Len(ups) \in Nat
      /\ transients \in Seq(Url) /\ DOMAIN transients = 1 .. Len(transients)
      /\ Len(transients) \in Nat
      /\ \A i \in DOMAIN transients : transients[i] \in Url
  BY WorkTypes, ElementOfSeq
<1>4. Len(transients) > 0
  BY <1>1, <1>3, EmptySeq
<1>5. \A i \in DOMAIN transients : Upstream(transients[i], "public", Unbounded) \in Entry
  BY <1>3 DEF Upstream, Tier, Unbounded
<1>6. /\ more \in Seq(Entry) /\ Len(more) = Len(transients)
      /\ \A i \in 1 .. Len(transients) : more[i] = Upstream(transients[i], "public", Unbounded)
  <2>1. more \in [1 .. Len(transients) -> Entry]
    BY <1>3, <1>5
  <2>2. more \in Seq(Entry)
    BY <1>3, <2>1, SeqDef
  <2>3. Len(more) = Len(transients)
    BY <1>3, <2>1, <2>2, LenProperties
  <2> QED
    BY <1>3, <2>2, <2>3
<1> HIDE DEF more, Entry
<1>7. /\ ups \o more \in Seq(Entry)
      /\ DOMAIN (ups \o more) = 1 .. Len(ups) + Len(more)
      /\ \A i \in 1 .. Len(ups) : (ups \o more)[i] = ups[i]
      /\ \A i \in 1 .. Len(more) : (ups \o more)[Len(ups) + i] = more[i]
  <2>1. ups \in Seq(Entry) /\ more \in Seq(Entry)
    BY <1>3, <1>6
  <2> QED
    BY <2>1, Joined
<1>8. \A i \in DOMAIN ups : ups[i].tier = "own"
  <2> SUFFICES ASSUME NEW i \in DOMAIN ups PROVE ups[i].tier = "own"
    OBVIOUS
  <2>0. ups[i] \in Entry
    <3>1. ups \in Seq(Entry) /\ i \in 1 .. Len(ups)
      BY <1>3
    <3> QED
      BY <3>1, ElementOfSeq
  <2>1. ups[i].tier \in {"own", "paid"}
    BY <1>1, <2>0 DEF Entry, Tier
  <2>2. ~(\E k \in DOMAIN ups : ups[k].tier = "paid")
    BY <1>1, <1>2 DEF UpsInv, PublicsJoined
  <2> QED
    BY <2>1, <2>2
<1>9. \A i \in DOMAIN ups' : \/ i \in DOMAIN ups /\ ups'[i] = ups[i]
                             \/ i > Len(ups) /\ \E k \in DOMAIN transients :
                                  ups'[i] = Upstream(transients[k], "public", Unbounded)
  <2> SUFFICES ASSUME NEW i \in DOMAIN ups', i \notin DOMAIN ups
               PROVE  i > Len(ups) /\ \E k \in DOMAIN transients :
                        ups'[i] = Upstream(transients[k], "public", Unbounded)
    BY <1>1, <1>3, <1>7
  <2>1. i > Len(ups) /\ i - Len(ups) \in 1 .. Len(more) /\ i = Len(ups) + (i - Len(ups))
    BY <1>1, <1>3, <1>6, <1>7
  <2>2. ups'[i] = more[i - Len(ups)] /\ i - Len(ups) \in DOMAIN transients
    BY <1>1, <1>3, <1>6, <1>7, <2>1
  <2> QED
    BY <1>3, <1>6, <2>1, <2>2
<1>10. \A t : /\ Upstream(t, "public", Unbounded).tier = "public"
              /\ Upstream(t, "public", Unbounded).url = t
              /\ Fits(Upstream(t, "public", Unbounded))
  BY DEF Upstream, Fits
<1>11. /\ InOrder(ups)
       /\ \A i \in DOMAIN ups : Fits(ups[i]) /\ (ups[i].url \in SecretUrls(Cur) => ups[i].url \in masked)
       /\ \A i \in DOMAIN transients : transients[i] \notin SecretUrls(Cur)
       /\ Handled(Cur) > Len(Own(Cur))
  BY <1>1, <1>2 DEF UpsInv, GoodList, TransientsInv
<1>12. /\ Cur' = Cur /\ SecretUrls(Cur)' = SecretUrls(Cur) /\ Own(Cur)' = Own(Cur)
       /\ Ahead(Cur)' = Ahead(Cur) /\ Candidates(Cur)' = Candidates(Cur)
       /\ Blocks(Cur)' = Blocks(Cur) /\ \A up : Fits(up)' = Fits(up)
  BY <1>1, InputStands DEF Cur
<1>13. Handled(Cur)' = Handled(Cur)
  BY <1>1, <1>12 DEF Handled
<1>14. InOrder(ups)'
  <2> SUFFICES ASSUME NEW i \in DOMAIN ups', NEW j \in DOMAIN ups', i < j
               PROVE  /\ ups'[i].tier = "paid" => ups'[j].tier = "paid"
                      /\ ups'[j].tier = "own" => ups'[i].tier = "own"
    BY DEF InOrder
  <2>1. i \in Nat /\ j \in Nat
    BY <1>1, <1>7
  <2>2. ups'[i].tier # "paid"
    BY <1>8, <1>9, <1>10
  <2>3. ASSUME ups'[j].tier = "own" PROVE ups'[i].tier = "own"
    <3>1. j \in DOMAIN ups
      BY <1>9, <1>10, <2>3
    <3>2. i \in DOMAIN ups
      BY <1>3, <1>9, <2>1, <3>1
    <3>3. ups'[i] = ups[i]
      BY <1>3, <1>9, <2>1, <3>2
    <3> QED
      BY <1>8, <3>2, <3>3
  <2> QED
    BY <2>2, <2>3
<1>15. \A i \in DOMAIN ups' : Fits(ups'[i]) /\ (ups'[i].url \in SecretUrls(Cur) => ups'[i].url \in masked)
  BY <1>9, <1>10, <1>11
<1>16. GoodList(Cur, ups)'
  <2>1. (\A i \in DOMAIN ups : Fits(ups[i]))'
    BY <1>12, <1>15
  <2>2. (\A i \in DOMAIN ups : ups[i].url \in SecretUrls(Cur) => ups[i].url \in masked)'
    BY <1>1, <1>12, <1>15
  <2> QED
    BY <1>14, <2>1, <2>2 DEF GoodList
<1>17. \A i \in DOMAIN ups' : ups'[i].tier # "paid"
  BY <1>8, <1>9, <1>10
<1>18. UpsInv(Cur)'
  BY <1>1, <1>11, <1>12, <1>13, <1>16, <1>17 DEF UpsInv
<1>19. TodoInv(Cur)'
  BY <1>1, <1>2, <1>12, <1>13 DEF TodoInv
<1>20. TransientsInv(Cur)' /\ ProbeInv' /\ ReadsInv(Cur)'
  BY <1>1 DEF TransientsInv, ProbeInv, ReadsInv, Idle
<1>21. PaidInv(Cur)'
  BY <1>1, <1>2, <1>12, <1>13 DEF PaidInv
<1>22. WorkInv'
  BY <1>1, <1>18, <1>19, <1>20, <1>21 DEF WorkInv, Work
<1>23. RpcTypeOK'
  BY <1>1, <1>7, EmptySeq DEF RpcIInv, RpcTypeOK, Entry
<1>24. NetsInv' /\ EnvInv'
  BY <1>1, OutputStands DEF RpcIInv
<1> QED
  BY <1>1, <1>22, <1>23, <1>24 DEF RpcIInv

\* A check starts with its endpoint masked, and with the publics joined when it
\* is a paid one.
LEMMA StartKeeps ==
  ASSUME RpcIInv, StartProbe
  PROVE  RpcIInv'
<1>1. /\ left # <<>> /\ todo # <<>> /\ masked \subseteq Url
      /\ ProbeInv /\ Cand \in Candidate
  BY CheckInTurn, CandidateInTurn DEF StartProbe
<1>2. /\ UNCHANGED <<input, progress, nets, env, nofit, result, paidCalls>>
      /\ probe' = [stage |-> "chain", n |-> 0]
      /\ masked' = IF input.mode = "proxy" /\ Cand.src = "secret"
                   THEN masked \union {Cand.url} ELSE masked
      /\ reads' = Unread /\ ~FallbackDue
  BY DEF StartProbe, Stage
<1>3. /\ Cand' = Cand /\ input' = input /\ todo' = todo /\ (PublicsJoined' <=> PublicsJoined)
  BY <1>2 DEF progress, Cand, PublicsJoined
<1>4. Cand.src = "secret" /\ input.mode = "proxy" => PublicsJoined
  BY <1>1, <1>2 DEF FallbackDue, PublicsDone, PublicsJoined
<1>5. ProbeInv'
  BY <1>1, <1>2, <1>3, <1>4 DEF ProbeInv
<1>6. ReadsInv(Cur)'
  BY <1>2 DEF ReadsInv
<1>7. reads' \in [0 .. HeadBlock -> Nat]
  BY <1>2 DEF Unread
<1>8. masked \subseteq masked' /\ masked' \subseteq Url
  BY <1>1, <1>2 DEF Candidate
<1> QED
  BY <1>1, <1>2, <1>5, <1>6, <1>7, <1>8, StageKeeps

\* An upstream with no window that is not our own node fits.
LEMMA UnboundedFits ==
  ASSUME NEW u, NEW src, src # "own"
  PROVE  Fits(Upstream(u, TierOf(src), Unbounded)) /\ Unbounded \in Nat
  BY DEF Fits, Upstream, TierOf, Unbounded

\* The chain is asked for.
LEMMA ChainKeeps ==
  ASSUME RpcIInv, AskChain
  PROVE  RpcIInv'
<1>1. /\ left # <<>> /\ todo # <<>> /\ probe.stage = "chain"
      /\ ProbeInv /\ reads \in [0 .. HeadBlock -> Nat] /\ masked \subseteq Url
  BY CheckInTurn DEF AskChain
<1>2. /\ Cur \in Net /\ Cand \in Candidate
      /\ Cand.src = "secret" <=> Cand.url \in SecretUrls(Cur)
      /\ input.mode \in {"select", "proxy"}
  BY <1>1, CandidateInTurn
<1>3. /\ input' = input /\ reads' = reads
      /\ paidCalls' = IF input.mode = "proxy" /\ Cand.url \in SecretUrls(Cur)
                      THEN [paidCalls EXCEPT !.chainId = @ + 1] ELSE paidCalls
  BY DEF AskChain, Sends
<1>4. PaidGrows
  BY <1>2, <1>3 DEF PaidGrows
<1>5. reads' \in [0 .. HeadBlock -> Nat]
  BY <1>1, <1>3
<1>6. PICK r \in Responses :
        CASE input.mode = "proxy" /\ Cand.src = "secret" /\ ChainReason(r) # "wrongChain" ->
               Join(Unbounded)
          [] input.mode = "proxy" /\ Cand.src = "own" /\ ChainReason(r) = "ok" ->
               Stage("head") /\ UNCHANGED <<progress, output>>
          [] Cand.src # "own" /\ ~(input.mode = "proxy" /\ Cand.src = "secret") /\ ChainReason(r) = "ok" ->
               Stage("state") /\ UNCHANGED <<progress, output>>
          [] OTHER -> Reject(ChainReason(r))
  BY DEF AskChain, Spared
<1>7. CASE input.mode = "proxy" /\ Cand.src = "secret" /\ ChainReason(r) # "wrongChain"
  <2>1. Join(Unbounded)
    BY <1>6, <1>7
  <2>2. Fits(Upstream(Cand.url, TierOf(Cand.src), Unbounded)) /\ Unbounded \in Nat
    BY <1>7, UnboundedFits
  <2>3. Cand.url \in masked /\ PublicsJoined
    BY <1>1, <1>7 DEF ProbeInv
  <2> QED
    BY <1>1, <1>3, <1>4, <1>5, <1>7, <2>1, <2>2, <2>3, JoinKeeps
<1>8. ASSUME NEW stage \in {"head", "state"}, Stage(stage), UNCHANGED <<progress, output>>,
             ChainReason(r) = "ok", input.mode = "proxy" => Cand.src # "secret",
             stage = "head" => input.mode = "proxy", stage = "state" => Cand.src # "own"
      PROVE  RpcIInv'
  <2>1. /\ probe' = [stage |-> stage, n |-> 0] /\ Cand' = Cand /\ todo' = todo
        /\ UNCHANGED <<nets, env, masked, nofit, result>>
    BY <1>8 DEF Stage, output, progress, Cand
  <2>2. Cand.url \notin input.wrong
    <3>1. ChainReason(r) = "ok" => Cand.url \notin input.wrong
      BY DEF ChainReason
    <3> QED
      BY <1>8, <3>1
  <2>3. ProbeInv'
    BY <1>1, <1>3, <1>8, <2>1, <2>2 DEF ProbeInv
  <2>4. ReadsInv(Cur)'
    <3>1. Cur' = Cur /\ Blocks(Cur)' = Blocks(Cur)
      BY <1>3, <1>8, InputStands DEF progress, Cur
    <3>2. Blocks(Cur) \in Seq(0 .. HeadBlock) /\ Len(Blocks(Cur)) \in Nat \ {0}
      BY <1>2, InputTypes DEF RpcIInv
    <3>3. \A b \in 1 .. Len(Blocks(Cur)) : reads[Blocks(Cur)[b]] \in Nat
      BY <1>1, <3>2, ElementOfSeq
    <3>4. /\ 0 \in 0 .. Len(Blocks(Cur)) - 1
          /\ 0 \div 2 = 0 * Len(Blocks(Cur)) + 0
          /\ \A b \in 1 .. Len(Blocks(Cur)) : reads[Blocks(Cur)[b]] >= 0 + (IF b <= 0 THEN 1 ELSE 0)
      BY <3>2, <3>3
    <3>5. \E turns \in Nat : \E rest \in 0 .. Len(Blocks(Cur)) - 1 :
            /\ 0 \div 2 = turns * Len(Blocks(Cur)) + rest
            /\ \A b \in 1 .. Len(Blocks(Cur)) :
                 reads[Blocks(Cur)[b]] >= turns + (IF b <= rest THEN 1 ELSE 0)
      BY <3>4
    <3>6. probe'.n = 0 /\ probe'.stage # "burst"
      BY <1>8, <2>1
    <3> QED
      BY <1>3, <3>1, <3>5, <3>6 DEF ReadsInv
  <2>5. probe' \in [stage : {"idle", "chain", "state", "burst", "head", "depth"}, n : Nat]
    BY <2>1
  <2>6. paidCalls' = paidCalls
    BY <1>2, <1>3, <1>8
  <2> QED
    BY <1>1, <1>3, <1>5, <1>8, <2>1, <2>3, <2>4, <2>5, <2>6, StageKeeps
<1>9. CASE input.mode = "proxy" /\ Cand.src = "own" /\ ChainReason(r) = "ok"
  <2>1. Stage("head") /\ UNCHANGED <<progress, output>>
    BY <1>6, <1>9
  <2> QED
    BY <1>8, <1>9, <2>1
<1>10. CASE Cand.src # "own" /\ ~(input.mode = "proxy" /\ Cand.src = "secret") /\ ChainReason(r) = "ok"
  <2>1. Stage("state") /\ UNCHANGED <<progress, output>>
    BY <1>6, <1>10
  <2> QED
    BY <1>8, <1>10, <2>1
<1>11. CASE Reject(ChainReason(r))
  BY <1>1, <1>3, <1>4, <1>5, <1>11, RejectKeeps
<1> QED
  BY <1>6, <1>7, <1>9, <1>10, <1>11

\* A longer list takes more.
LEMMA Multiples ==
  ASSUME NEW a \in Nat, NEW b \in Nat, a < b, NEW L \in Nat
  PROVE  a * L + L <= b * L
<1>1. PICK c \in Nat : b = a + 1 + c
  <2>1. b - (a + 1) \in Nat /\ b = a + 1 + (b - (a + 1))
    OBVIOUS
  <2> QED
    BY <2>1
<1>2. c * L \in Nat
  OBVIOUS
<1>3. (a + 1 + c) * L = a * L + L + c * L
  OBVIOUS
<1>4. a * L \in Nat
  OBVIOUS
<1> QED
  BY <1>1, <1>2, <1>3, <1>4

\* There is one way to count in turns of L.
LEMMA OneCount ==
  ASSUME NEW L \in Nat, NEW a \in Nat, NEW b \in Nat,
         NEW p \in 0 .. L - 1, NEW q \in 0 .. L - 1, a * L + p = b * L + q
  PROVE  a = b /\ p = q
<1>1. a * L \in Nat /\ b * L \in Nat
  OBVIOUS
<1>2. ~(a < b)
  <2>1. SUFFICES ASSUME a < b PROVE FALSE
    OBVIOUS
  <2>2. a * L + L <= b * L
    BY <2>1, Multiples
  <2> QED
    BY <1>1, <2>2
<1>3. ~(b < a)
  <2>1. SUFFICES ASSUME b < a PROVE FALSE
    OBVIOUS
  <2>2. b * L + L <= a * L
    BY <2>1, Multiples
  <2> QED
    BY <1>1, <2>2
<1>4. a = b
  BY <1>2, <1>3
<1> QED
  BY <1>1, <1>4

\* The depth in turn after a number of turns and a rest of reads.
LEMMA RestOf ==
  ASSUME NEW L \in Nat \ {0}, NEW t \in Nat, NEW r \in 0 .. L - 1
  PROVE  (t * L + r) % L = r
<1> DEFINE x == t * L + r
           d == x \div L
           m == x % L
<1>1. t * L \in Nat
  OBVIOUS
<1>2. x \in Nat
  BY <1>1
<1> HIDE DEF x
<1>3. d \in Nat /\ m \in 0 .. L - 1 /\ x = d * L + m
  BY <1>2
<1> HIDE DEF d, m
<1>4. t * L + r = d * L + m
  BY <1>3 DEF x
<1>5. r = m
  BY <1>3, <1>4, OneCount
<1> QED
  BY <1>5 DEF m, x

\* A call that was read as a success was an answer.
LEMMA SuccessIsAnswer ==
  ASSUME NEW r \in Responses, Finish(r) = "ok", r.result = "word"
  PROVE  IsAnswer(r)
<1>1. /\ r.curl \in BOOLEAN /\ r.status \in Nat /\ r.json \in BOOLEAN
      /\ r.error \in {"none", "object", "string", "flat"}
  BY ResponsesAssumption
<1>2. Classify(r.code, r.needles) # "ok" /\ HttpReason(r.status) # "ok"
  BY DEF Classify, HttpReason
<1>3. r.curl /\ r.json /\ ~HasError(r) /\ ~(r.status >= 400)
  BY <1>1, <1>2 DEF Finish
<1> QED
  BY <1>1, <1>3 DEF IsAnswer, HasError

\* A call among the state reads that passes was answered at the depth in turn,
\* and counts.
LEMMA ReadsCount ==
  ASSUME RpcIInv, At("state"), input' = input, left' = left,
         NEW r \in Responses, StateReason(probe.n, r) = "ok",
         probe' = [probe EXCEPT !.n = @ + 1],
         reads' = IF IsAnswer(r) /\ probe.n % 2 = 1
                  THEN [reads EXCEPT ![StateDepth(Cur, probe.n)] = @ + 1] ELSE reads
  PROVE  ReadsInv(Cur)'
<1> DEFINE B == Blocks(Cur)
           L == Len(B)
           k == probe.n
<1>1. /\ probe \in [stage : {"idle", "chain", "state", "burst", "head", "depth"}, n : Nat]
      /\ reads \in [0 .. HeadBlock -> Nat] /\ probe.stage = "state" /\ left # <<>> /\ todo # <<>>
      /\ ReadsInv(Cur)
  BY CheckInTurn
<1>2. Cur \in Net
  BY <1>1, CandidateInTurn
<1>3. B \in Seq(0 .. HeadBlock) /\ L \in Nat \ {0}
  BY <1>2, InputTypes DEF RpcIInv
<1>4. \A b \in 1 .. L : B[b] \in 0 .. HeadBlock /\ reads[B[b]] \in Nat
  BY <1>1, <1>3, ElementOfSeq
<1>5. Cur' = Cur /\ Blocks(Cur)' = B /\ input' = input
  BY InputStands DEF Cur
<1>6. k \in Nat /\ probe'.n = k + 1 /\ probe'.stage = "state"
  BY <1>1
<1> SUFFICES ASSUME input.mode = "select"
             PROVE  \E turns \in Nat : \E rest \in 0 .. L - 1 :
                      /\ (k + 1) \div 2 = turns * L + rest
                      /\ \A b \in 1 .. L : reads'[B[b]] >= turns + (IF b <= rest THEN 1 ELSE 0)
  BY <1>5, <1>6 DEF ReadsInv
<1>7. PICK turns \in Nat, rest \in 0 .. L - 1 :
        /\ k \div 2 = turns * L + rest
        /\ \A b \in 1 .. L : reads[B[b]] >= turns + (IF b <= rest THEN 1 ELSE 0)
  BY <1>1 DEF ReadsInv
<1> HIDE DEF B, L, k
<1>8. CASE k % 2 = 0
  <2>1. (k + 1) \div 2 = k \div 2
    BY <1>6, <1>8
  <2>2. reads' = reads
    BY <1>8 DEF k
  <2>3. /\ (k + 1) \div 2 = turns * L + rest
        /\ \A b \in 1 .. L : reads'[B[b]] >= turns + (IF b <= rest THEN 1 ELSE 0)
    BY <1>7, <2>1, <2>2
  <2> QED
    BY <2>3
<1>9. CASE k % 2 = 1
  <2>1. (k + 1) \div 2 = k \div 2 + 1
    BY <1>6, <1>9
  <2>2. IsAnswer(r)
    <3>1. CheckCall(r) = "ok"
      BY <1>9 DEF StateReason, k
    <3>2. Finish(r) = "ok" /\ r.result = "word"
      BY <3>1 DEF CheckCall
    <3> QED
      BY <3>2, SuccessIsAnswer
  <2>3. (turns * L + rest) % L = rest
    BY <1>3, RestOf
  <2>4. StateDepth(Cur, probe.n) = B[rest + 1] /\ rest + 1 \in 1 .. L
    <3>1. StateDepth(Cur, probe.n) = B[((k \div 2) % L) + 1]
      BY DEF StateDepth, B, L, k
    <3>2. (k \div 2) % L = rest
      BY <1>7, <2>3
    <3> QED
      BY <1>3, <3>1, <3>2
  <2>5. reads' = [reads EXCEPT ![B[rest + 1]] = @ + 1]
    BY <1>9, <2>2, <2>4 DEF k
  <2>6. \A b \in 1 .. L : reads'[B[b]] >= reads[B[b]] /\ reads'[B[b]] \in Nat
    <3> TAKE b \in 1 .. L
    <3>1. B[b] \in 0 .. HeadBlock /\ reads[B[b]] \in Nat
      BY <1>4
    <3>2. CASE B[b] = B[rest + 1]
      <4>1. reads'[B[b]] = reads[B[b]] + 1
        BY <1>1, <2>5, <3>1, <3>2
      <4> QED
        BY <3>1, <4>1
    <3>3. CASE B[b] # B[rest + 1]
      <4>1. reads'[B[b]] = reads[B[b]]
        BY <1>1, <2>5, <3>1, <3>3
      <4> QED
        BY <3>1, <4>1
    <3> QED
      BY <3>2, <3>3
  <2>7. reads'[B[rest + 1]] = reads[B[rest + 1]] + 1
    <3>1. B[rest + 1] \in 0 .. HeadBlock
      BY <1>4, <2>4
    <3> QED
      BY <1>1, <2>5, <3>1
  <2>8. \A b \in 1 .. rest + 1 : reads'[B[b]] >= turns + 1
    <3> SUFFICES ASSUME NEW b \in 1 .. rest + 1 PROVE reads'[B[b]] >= turns + 1
      OBVIOUS
    <3>1. b \in 1 .. L
      BY <1>3, <2>4
    <3>2. reads[B[b]] >= turns + (IF b <= rest THEN 1 ELSE 0)
      BY <1>7, <3>1
    <3>3. CASE b <= rest
      BY <1>4, <2>6, <3>1, <3>2, <3>3
    <3>4. CASE b = rest + 1
      BY <1>4, <2>7, <3>1, <3>2, <3>4
    <3> QED
      BY <3>3, <3>4
  <2>9. turns * L \in Nat
    BY <1>3
  <2>10. CASE rest + 1 = L
    <3>1. (k + 1) \div 2 = (turns + 1) * L + 0
      <4>1. (turns + 1) * L = turns * L + L
        BY <1>3
      <4> QED
        BY <1>3, <1>7, <2>1, <2>9, <2>10, <4>1
    <3>2. turns + 1 \in Nat /\ 0 \in 0 .. L - 1
      BY <1>3
    <3>3. \A b \in 1 .. L : reads'[B[b]] >= (turns + 1) + (IF b <= 0 THEN 1 ELSE 0)
      BY <2>8, <2>10
    <3> QED
      BY <3>1, <3>2, <3>3
  <2>11. CASE rest + 1 # L
    <3>1. (k + 1) \div 2 = turns * L + (rest + 1)
      BY <1>3, <1>7, <2>1, <2>9
    <3>2. rest + 1 \in 0 .. L - 1
      BY <1>3, <2>11
    <3>3. \A b \in 1 .. L : reads'[B[b]] >= turns + (IF b <= rest + 1 THEN 1 ELSE 0)
      <4> SUFFICES ASSUME NEW b \in 1 .. L
                   PROVE  reads'[B[b]] >= turns + (IF b <= rest + 1 THEN 1 ELSE 0)
        OBVIOUS
      <4>1. CASE b <= rest + 1
        BY <2>8, <4>1
      <4>2. CASE ~(b <= rest + 1)
        <5>1. ~(b <= rest)
          BY <4>2
        <5>2. reads[B[b]] >= turns
          BY <1>7, <5>1
        <5> QED
          BY <1>4, <2>6, <4>2, <5>2
      <4> QED
        BY <4>1, <4>2
    <3> QED
      BY <3>1, <3>2, <3>3
  <2> QED
    BY <2>10, <2>11
<1>10. k % 2 \in {0, 1}
  BY <1>6
<1> QED
  BY <1>8, <1>9, <1>10

\* State is read.
LEMMA StateKeeps ==
  ASSUME RpcIInv, AskState
  PROVE  RpcIInv'
<1>1. /\ left # <<>> /\ todo # <<>> /\ probe.stage = "state" /\ ProbeInv
      /\ probe \in [stage : {"idle", "chain", "state", "burst", "head", "depth"}, n : Nat]
      /\ reads \in [0 .. HeadBlock -> Nat] /\ masked \subseteq Url
      /\ At("state")
  BY CheckInTurn DEF AskState
<1>2. PICK r \in Responses :
        /\ IF StateReason(probe.n, r) = "ok"
           THEN probe' = [probe EXCEPT !.n = @ + 1] /\ UNCHANGED <<progress, output>>
           ELSE Reject(StateReason(probe.n, r))
        /\ reads' = IF IsAnswer(r) /\ probe.n % 2 = 1
                    THEN [reads EXCEPT ![StateDepth(Cur, probe.n)] = @ + 1] ELSE reads
  BY DEF AskState
<1>3. input' = input /\ paidCalls' = paidCalls
  BY <1>1, OthersSpared DEF AskState
<1>4. reads' \in [0 .. HeadBlock -> Nat]
  <2>1. ASSUME NEW d \in 0 .. HeadBlock
        PROVE  [reads EXCEPT ![StateDepth(Cur, probe.n)] = @ + 1][d] \in Nat
    BY <1>1
  <2>2. [reads EXCEPT ![StateDepth(Cur, probe.n)] = @ + 1] \in [0 .. HeadBlock -> Nat]
    BY <1>1, <2>1
  <2> QED
    BY <1>1, <1>2, <2>2
<1>5. CASE StateReason(probe.n, r) = "ok"
  <2>1. /\ probe' = [probe EXCEPT !.n = @ + 1] /\ UNCHANGED <<progress, output>>
        /\ Cand' = Cand /\ todo' = todo /\ left' = left
        /\ UNCHANGED <<nets, env, masked, nofit, result>>
    BY <1>2, <1>5 DEF progress, output, Cand
  <2>2. probe' \in [stage : {"idle", "chain", "state", "burst", "head", "depth"}, n : Nat]
    BY <1>1, <2>1
  <2>3. probe'.stage = "state"
    BY <1>1, <2>1
  <2>4. ProbeInv'
    BY <1>1, <1>3, <2>1, <2>3 DEF ProbeInv
  <2>5. ReadsInv(Cur)'
    BY <1>1, <1>2, <1>3, <1>5, <2>1, ReadsCount
  <2> QED
    BY <1>1, <1>3, <1>4, <2>1, <2>2, <2>4, <2>5, StageKeeps
<1>6. CASE StateReason(probe.n, r) # "ok"
  BY <1>1, <1>2, <1>3, <1>4, <1>6, RejectKeeps DEF PaidGrows
<1> QED
  BY <1>5, <1>6

\* After the last read of the last pass there has been a pass per sample.
LEMMA PassesAreSamples ==
  ASSUME RpcIInv, At("state"), probe.n = StateReads(Cur), input.mode = "select"
  PROVE  \A b \in 1 .. Len(Blocks(Cur)) : reads[Blocks(Cur)[b]] >= Samples
<1> DEFINE B == Blocks(Cur)
           L == Len(B)
<1>1. /\ ReadsInv(Cur) /\ probe.stage = "state" /\ left # <<>> /\ todo # <<>>
      /\ reads \in [0 .. HeadBlock -> Nat]
  BY CheckInTurn
<1>2. Cur \in Net
  BY <1>1, CandidateInTurn
<1>3. B \in Seq(0 .. HeadBlock) /\ L \in Nat \ {0}
  BY <1>2, InputTypes DEF RpcIInv
<1>4. \A b \in 1 .. L : reads[B[b]] \in Nat
  BY <1>1, <1>3, ElementOfSeq
<1>5. PICK turns \in Nat, rest \in 0 .. L - 1 :
        /\ probe.n \div 2 = turns * L + rest
        /\ \A b \in 1 .. L : reads[B[b]] >= turns + (IF b <= rest THEN 1 ELSE 0)
  BY <1>1 DEF ReadsInv
<1>6. probe.n = 2 * Samples * L
  BY DEF StateReads, Passes
<1> HIDE DEF B, L
<1>7. Samples \in Nat
  BY RpcAssumption
<1>8. probe.n \div 2 = Samples * L
  <2>1. Samples * L \in Nat
    BY <1>3, <1>7
  <2>2. 2 * Samples * L = 2 * (Samples * L)
    BY <1>3, <1>7
  <2>3. \A m \in Nat : (2 * m) \div 2 = m
    OBVIOUS
  <2> QED
    BY <1>6, <2>1, <2>2, <2>3
<1>9. Samples * L + 0 = turns * L + rest
  BY <1>3, <1>5, <1>7, <1>8
<1>10. 0 \in 0 .. L - 1
  BY <1>3
<1>11. Samples = turns
  BY <1>3, <1>7, <1>9, <1>10, OneCount
<1> QED
  <2>1. ASSUME NEW b \in 1 .. L PROVE reads[B[b]] >= Samples
    BY <1>4, <1>5, <1>11
  <2> QED
    BY <2>1 DEF B, L

\* A check that goes on to a stage of its own, or to the next request of it.
LEMMA GoesOn ==
  ASSUME RpcIInv, NEW stage \in {"state", "burst", "head", "depth"}, At(stage),
         UNCHANGED <<input, progress, output, reads, paidCalls>>,
         NEW next \in {"burst", "head", "depth"},
         NEW k \in Nat, probe' = [stage |-> next, n |-> k],
         next = "burst" => input.mode = "select" /\ Cand.src # "own",
         next = "burst" => \A b \in 1 .. Len(Blocks(Cur)) : reads[Blocks(Cur)[b]] >= Samples,
         next # "burst" => input.mode = "proxy",
         next = "depth" => k <= IF Cand.src = "own" THEN Len(OwnProbes) ELSE Len(StateDepths)
  PROVE  RpcIInv'
<1>1. /\ left # <<>> /\ todo # <<>> /\ probe.stage = stage /\ ProbeInv
      /\ reads \in [0 .. HeadBlock -> Nat] /\ masked \subseteq Url
  BY CheckInTurn
<1>2. /\ Cand' = Cand /\ todo' = todo /\ left' = left /\ input' = input /\ reads' = reads
      /\ UNCHANGED <<nets, env, masked, nofit, result, paidCalls>>
      /\ Cur' = Cur /\ Blocks(Cur)' = Blocks(Cur)
  BY InputStands DEF progress, output, Cand, Cur
<1>3. probe'.stage = next /\ probe'.n = k
  OBVIOUS
<1>4. ProbeInv'
  BY <1>1, <1>2, <1>3 DEF ProbeInv, OwnProbes
<1>5. ReadsInv(Cur)'
  BY <1>2, <1>3 DEF ReadsInv
<1> QED
  BY <1>1, <1>2, <1>4, <1>5, StageKeeps

\* What a candidate past the chain check is, and that one of the publics joins
\* without a window.
LEMMA PastTheChain ==
  ASSUME RpcIInv, NEW stage \in {"state", "burst", "head", "depth"}, At(stage)
  PROVE  /\ left # <<>> /\ todo # <<>> /\ probe.stage = stage
         /\ probe.n \in Nat /\ reads \in [0 .. HeadBlock -> Nat]
         /\ input.mode = "proxy" => Cand.src # "secret"
         /\ Cand.url \notin input.wrong
         /\ stage \in {"head", "depth"} => input.mode = "proxy"
         /\ stage = "burst" => input.mode = "select"
         /\ stage \in {"state", "burst"} => Cand.src # "own"
         /\ stage = "depth" =>
              probe.n <= IF Cand.src = "own" THEN Len(OwnProbes) ELSE Len(StateDepths)
         /\ input.mode \in {"select", "proxy"}
<1>1. /\ left # <<>> /\ todo # <<>> /\ probe.stage = stage /\ ProbeInv
      /\ reads \in [0 .. HeadBlock -> Nat] /\ probe.n \in Nat
  BY CheckInTurn
<1>2. input.mode \in {"select", "proxy"}
  BY <1>1, CandidateInTurn
<1> QED
  BY <1>1, <1>2 DEF ProbeInv

\* The depths that are looked at: one list for our own node, another for the
\* publics.
LEMMA ProbeDepths ==
  /\ Len(OwnProbes) \in Nat /\ DOMAIN OwnProbes = 1 .. Len(OwnProbes)
  /\ OwnProbes[1] = HeadBlock - 1
  /\ \A i \in 2 .. Len(OwnProbes) : OwnProbes[i] \in Nat \ {0} /\ OwnProbes[i] < HeadBlock
  /\ Len(StateDepths) \in Nat /\ \A i \in 1 .. Len(StateDepths) : StateDepths[i] \in Nat \ {0}
<1> DEFINE S == {i \in DOMAIN OwnDepths : OwnDepths[i] < HeadBlock}
           one == <<HeadBlock - 1>>
           more == Keep(OwnDepths, S)
<1>1. /\ OwnDepths \in Seq(Nat \ {0}) /\ StateDepths \in Seq(Nat \ {0})
      /\ HeadBlock \in Nat \ {0}
  BY RpcAssumption
<1>2. Len(StateDepths) \in Nat /\ \A i \in 1 .. Len(StateDepths) : StateDepths[i] \in Nat \ {0}
  BY <1>1, LenProperties, ElementOfSeq
<1>3. /\ more \in Seq(Nat \ {0})
      /\ \A k \in DOMAIN more : \E i \in DOMAIN OwnDepths : i \in S /\ more[k] = OwnDepths[i]
  <2> HIDE DEF S
  <2> QED
    BY <1>1, KeepsPlaces
<1>4. /\ Len(more) \in Nat /\ DOMAIN more = 1 .. Len(more)
      /\ \A k \in 1 .. Len(more) : more[k] \in Nat \ {0}
  BY <1>3, LenProperties, ElementOfSeq
<1>5. \A k \in DOMAIN more : more[k] \in Nat \ {0} /\ more[k] < HeadBlock
  BY <1>3, <1>4
<1>6. one \in Seq(Nat) /\ Len(one) = 1 /\ one[1] = HeadBlock - 1
  BY <1>1
<1>7. OwnProbes = one \o more
  BY DEF OwnProbes
<1> HIDE DEF one, more
<1>8. more \in Seq(Nat)
  BY <1>3, <1>4, SeqMonotonic
<1>9. /\ DOMAIN (one \o more) = 1 .. Len(one) + Len(more)
      /\ Len(one \o more) = Len(one) + Len(more)
      /\ \A i \in 1 .. Len(one) : (one \o more)[i] = one[i]
      /\ \A i \in 1 .. Len(more) : (one \o more)[Len(one) + i] = more[i]
  <2>1. one \in Seq(Nat) /\ more \in Seq(Nat)
    BY <1>6, <1>8
  <2> QED
    BY <2>1, Joined
<1>10. ASSUME NEW i \in 2 .. Len(OwnProbes)
       PROVE  OwnProbes[i] \in Nat \ {0} /\ OwnProbes[i] < HeadBlock
  <2>1. i - 1 \in 1 .. Len(more) /\ i = Len(one) + (i - 1)
    BY <1>4, <1>6, <1>7, <1>9
  <2>2. OwnProbes[i] = more[i - 1]
    BY <1>7, <1>9, <2>1
  <2> QED
    BY <1>4, <1>5, <2>1, <2>2
<1> QED
  BY <1>2, <1>4, <1>6, <1>7, <1>9, <1>10

\* The reads are done with.
LEMMA PassedKeeps ==
  ASSUME RpcIInv, StatePassed
  PROVE  RpcIInv'
<1>1. At("state") /\ UNCHANGED <<input, reads, paidCalls>> /\ probe.n = StateReads(Cur)
  BY DEF StatePassed
<1>2. /\ left # <<>> /\ todo # <<>> /\ reads \in [0 .. HeadBlock -> Nat]
      /\ input.mode = "proxy" => Cand.src # "secret"
      /\ Cand.src # "own" /\ input.mode \in {"select", "proxy"}
  BY <1>1, PastTheChain
<1>3. CASE input.mode = "select"
  <2>1. probe' = [stage |-> "burst", n |-> 0] /\ UNCHANGED <<input, progress, output, reads, paidCalls>>
    BY <1>1, <1>3 DEF StatePassed, Stage
  <2>2. \A b \in 1 .. Len(Blocks(Cur)) : reads[Blocks(Cur)[b]] >= Samples
    BY <1>1, <1>3, PassesAreSamples
  <2> QED
    BY <1>1, <1>2, <1>3, <2>1, <2>2, GoesOn
<1>4. CASE input.mode = "proxy"
  <2>1. \/ Stage("head") /\ UNCHANGED <<progress, output>>
        \/ Join(Unbounded)
    BY <1>4 DEF StatePassed
  <2>2. CASE Stage("head") /\ UNCHANGED <<progress, output>>
    <3>1. probe' = [stage |-> "head", n |-> 0] /\ UNCHANGED <<input, progress, output, reads, paidCalls>>
      BY <1>1, <2>2 DEF Stage
    <3> QED
      BY <1>1, <1>4, <3>1, GoesOn
  <2>3. CASE Join(Unbounded)
    <3>1. Fits(Upstream(Cand.url, TierOf(Cand.src), Unbounded)) /\ Unbounded \in Nat
      BY <1>2, UnboundedFits
    <3> QED
      BY <1>1, <1>2, <1>4, <2>3, <3>1, JoinKeeps DEF PaidGrows
  <2> QED
    BY <2>1, <2>2, <2>3
<1> QED
  BY <1>2, <1>3, <1>4

\* A load round.
LEMMA BurstKeeps ==
  ASSUME RpcIInv, Burst
  PROVE  RpcIInv'
<1>1. At("burst") /\ UNCHANGED <<input, reads, paidCalls>>
  BY OthersSpared DEF Burst
<1>2. /\ left # <<>> /\ todo # <<>> /\ reads \in [0 .. HeadBlock -> Nat] /\ probe.n \in Nat
      /\ input.mode = "select" /\ Cand.src # "own" /\ probe.stage = "burst" /\ ReadsInv(Cur)
      /\ probe \in [stage : {"idle", "chain", "state", "burst", "head", "depth"}, n : Nat]
  BY <1>1, PastTheChain, CheckInTurn
<1>3. \/ Reject("quota")
      \/ probe' = [probe EXCEPT !.n = @ + 1] /\ UNCHANGED <<progress, output>>
  BY DEF Burst
<1>4. CASE Reject("quota")
  BY <1>1, <1>2, <1>4, RejectKeeps DEF PaidGrows
<1>5. CASE probe' = [probe EXCEPT !.n = @ + 1] /\ UNCHANGED <<progress, output>>
  <2> DEFINE k == probe.n + 1
  <2>1. probe' = [stage |-> "burst", n |-> k] /\ k \in Nat
    BY <1>2, <1>5
  <2>2. \A b \in 1 .. Len(Blocks(Cur)) : reads[Blocks(Cur)[b]] >= Samples
    BY <1>2 DEF ReadsInv
  <2>3. UNCHANGED <<input, progress, output, reads, paidCalls>>
    BY <1>1, <1>5
  <2> HIDE DEF k
  <2> QED
    BY <1>1, <1>2, <2>1, <2>2, <2>3, GoesOn
<1> QED
  BY <1>3, <1>4, <1>5

\* The head is asked for.
LEMMA HeadKeeps ==
  ASSUME RpcIInv, AskHead
  PROVE  RpcIInv'
<1>1. At("head") /\ UNCHANGED <<input, reads, paidCalls>>
  BY OthersSpared DEF AskHead
<1>2. /\ left # <<>> /\ todo # <<>> /\ reads \in [0 .. HeadBlock -> Nat]
      /\ input.mode = "proxy" /\ Cand.src # "secret"
  BY <1>1, PastTheChain
<1>3. \/ Stage("depth") /\ UNCHANGED <<progress, output>>
      \/ Reject("badResponse")
      \/ Cand.src # "own" /\ Join(Unbounded)
  BY DEF AskHead
<1>4. CASE Stage("depth") /\ UNCHANGED <<progress, output>>
  <2>1. probe' = [stage |-> "depth", n |-> 0] /\ UNCHANGED <<input, progress, output, reads, paidCalls>>
    BY <1>1, <1>4 DEF Stage
  <2>2. 0 <= IF Cand.src = "own" THEN Len(OwnProbes) ELSE Len(StateDepths)
    BY ProbeDepths
  <2> QED
    BY <1>1, <1>2, <2>1, <2>2, GoesOn
<1>5. CASE Reject("badResponse")
  BY <1>1, <1>2, <1>5, RejectKeeps DEF PaidGrows
<1>6. CASE Cand.src # "own" /\ Join(Unbounded)
  <2>1. Fits(Upstream(Cand.url, TierOf(Cand.src), Unbounded)) /\ Unbounded \in Nat
    BY <1>6, UnboundedFits
  <2> QED
    BY <1>1, <1>2, <1>6, <2>1, JoinKeeps DEF PaidGrows
<1> QED
  BY <1>3, <1>4, <1>5, <1>6

\* What our own node is declared to hold it has answered for.
LEMMA OwnDepthKeeps ==
  ASSUME RpcIInv, AskOwnDepth
  PROVE  RpcIInv'
<1> DEFINE k == probe.n + 1
<1>1. At("depth") /\ UNCHANGED <<input, reads, paidCalls>> /\ Cand.src = "own"
  <2>1. At("depth") /\ UNCHANGED <<input, reads>> /\ Cand.src = "own"
    BY DEF AskOwnDepth
  <2>2. \E n \in Nat : Sends("other", n)
    BY DEF AskOwnDepth
  <2> QED
    BY <2>1, <2>2, OthersSpared
<1>2. /\ left # <<>> /\ todo # <<>> /\ reads \in [0 .. HeadBlock -> Nat] /\ probe.n \in Nat
      /\ input.mode = "proxy" /\ Cand.src # "secret" /\ probe.n <= Len(OwnProbes)
      /\ probe.stage = "depth"
      /\ probe \in [stage : {"idle", "chain", "state", "burst", "head", "depth"}, n : Nat]
  BY <1>1, PastTheChain, CheckInTurn
<1>3. CASE probe.n = Len(OwnProbes)
  <2>1. Reject("notArchive")
    BY <1>3 DEF AskOwnDepth
  <2> QED
    BY <1>1, <1>2, <2>1, RejectKeeps DEF PaidGrows
<1>4. CASE probe.n # Len(OwnProbes)
  <2>1. PICK r \in OwnResponses :
          /\ MayAnswer(Cand.url, OwnProbes[k], r)
          /\ IF CheckHex(r) = "ok"
             THEN Join(IF probe.n = 0 THEN Unbounded ELSE OwnProbes[k])
             ELSE probe' = [probe EXCEPT !.n = @ + 1] /\ UNCHANGED <<progress, output>>
    BY <1>4 DEF AskOwnDepth
  <2>2. /\ Len(OwnProbes) \in Nat /\ k \in 1 .. Len(OwnProbes)
        /\ OwnProbes[1] = HeadBlock - 1
        /\ k > 1 => OwnProbes[k] \in Nat \ {0} /\ OwnProbes[k] < HeadBlock
    BY <1>2, <1>4, ProbeDepths
  <2>3. CASE CheckHex(r) = "ok"
    <3> DEFINE w == IF probe.n = 0 THEN Unbounded ELSE OwnProbes[k]
    <3>1. Join(w)
      BY <2>1, <2>3
    <3>2. IsAnswer(r)
      <4>1. r \in Responses /\ Finish(r) = "ok" /\ r.result = "word"
        BY <2>1, <2>3 DEF OwnResponses, CheckHex
      <4> QED
        BY <4>1, SuccessIsAnswer
    <3>3. Serves(Cand.url, OwnProbes[k])
      BY <2>1, <3>2 DEF MayAnswer, Serves
    <3>4. CASE probe.n = 0
      <4>1. w = Unbounded /\ w \in Nat /\ k = 1
        BY <3>4 DEF Unbounded
      <4>2. Serves(Cand.url, HeadBlock - 1)
        BY <2>2, <3>3, <4>1
      <4>3. Fits(Upstream(Cand.url, TierOf(Cand.src), w))
        BY <4>1, <4>2 DEF Fits, Upstream
      <4> HIDE DEF w
      <4> QED
        BY <1>1, <1>2, <3>1, <4>1, <4>3, JoinKeeps DEF PaidGrows
    <3>5. CASE probe.n # 0
      <4>1. w = OwnProbes[k] /\ k > 1
        BY <1>2, <3>5
      <4>2. w \in Nat /\ w # Unbounded /\ Probed(w) = w
        BY <2>2, <4>1 DEF Unbounded, Probed
      <4>3. Fits(Upstream(Cand.url, TierOf(Cand.src), w))
        BY <3>3, <4>1, <4>2 DEF Fits, Upstream
      <4> HIDE DEF w
      <4> QED
        BY <1>1, <1>2, <3>1, <4>2, <4>3, JoinKeeps DEF PaidGrows
    <3> QED
      BY <3>4, <3>5
  <2>4. CASE CheckHex(r) # "ok"
    <3>1. probe' = [stage |-> "depth", n |-> k] /\ k \in Nat
      BY <1>2, <2>1, <2>4
    <3>2. UNCHANGED <<input, progress, output, reads, paidCalls>>
      BY <1>1, <2>1, <2>4
    <3>3. k <= IF Cand.src = "own" THEN Len(OwnProbes) ELSE Len(StateDepths)
      BY <1>1, <2>2
    <3> HIDE DEF k
    <3> QED
      BY <1>1, <1>2, <3>1, <3>2, <3>3, GoesOn
  <2> QED
    BY <2>3, <2>4
<1> QED
  BY <1>3, <1>4

\* A declared window is a depth that was answered for.
LEMMA PublicDepthKeeps ==
  ASSUME RpcIInv, AskPublicDepth
  PROVE  RpcIInv'
<1> DEFINE k == probe.n + 1
<1>1. At("depth") /\ UNCHANGED <<input, reads, paidCalls>> /\ Cand.src # "own"
  <2>1. At("depth") /\ UNCHANGED <<input, reads>> /\ Cand.src # "own"
    BY DEF AskPublicDepth
  <2>2. \E n \in Nat : Sends("other", n)
    BY DEF AskPublicDepth
  <2> QED
    BY <2>1, <2>2, OthersSpared
<1>2. /\ left # <<>> /\ todo # <<>> /\ reads \in [0 .. HeadBlock -> Nat] /\ probe.n \in Nat
      /\ input.mode = "proxy" /\ Cand.src # "secret" /\ probe.n <= Len(StateDepths)
      /\ probe.stage = "depth"
      /\ probe \in [stage : {"idle", "chain", "state", "burst", "head", "depth"}, n : Nat]
  BY <1>1, PastTheChain, CheckInTurn
<1>3. CASE probe.n = Len(StateDepths)
  <2>1. Join(Shallowest)
    BY <1>3 DEF AskPublicDepth
  <2>2. Fits(Upstream(Cand.url, TierOf(Cand.src), Shallowest)) /\ Shallowest \in Nat
    BY DEF Fits, Upstream, Shallowest, Unbounded
  <2> QED
    BY <1>1, <1>2, <2>1, <2>2, JoinKeeps DEF PaidGrows
<1>4. CASE probe.n # Len(StateDepths)
  <2> DEFINE d == StateDepths[k]
  <2>1. PICK r \in Responses :
          /\ MayAnswer(Cand.url, Probed(d), r)
          /\ IF Refused(r)
             THEN probe' = [probe EXCEPT !.n = @ + 1] /\ UNCHANGED <<progress, output>>
             ELSE Join(IF Finish(r) = "ok" /\ probe.n > 0 THEN d ELSE Unbounded)
    BY <1>4 DEF AskPublicDepth
  <2>2. Len(StateDepths) \in Nat /\ k \in 1 .. Len(StateDepths) /\ d \in Nat \ {0}
    BY <1>2, <1>4, ProbeDepths
  <2>3. CASE ~Refused(r) /\ Finish(r) = "ok" /\ probe.n > 0
    <3>1. Join(d)
      BY <2>1, <2>3
    <3>2. IsAnswer(r)
      <4>1. r.result = "word"
        BY <2>3 DEF Refused
      <4> QED
        BY <2>3, <4>1, SuccessIsAnswer
    <3>3. Serves(Cand.url, Probed(d))
      BY <2>1, <3>2 DEF MayAnswer, Serves
    <3>4. d \in Nat /\ d # Unbounded
      BY <2>2 DEF Unbounded
    <3> HIDE DEF d
    <3>5. Fits(Upstream(Cand.url, TierOf(Cand.src), d))
      BY <3>3, <3>4 DEF Fits, Upstream
    <3> QED
      BY <1>1, <1>2, <3>1, <3>4, <3>5, JoinKeeps DEF PaidGrows
  <2>4. CASE ~Refused(r) /\ ~(Finish(r) = "ok" /\ probe.n > 0)
    <3>1. Join(Unbounded)
      BY <2>1, <2>4
    <3>2. Fits(Upstream(Cand.url, TierOf(Cand.src), Unbounded)) /\ Unbounded \in Nat
      BY <1>1, UnboundedFits
    <3> QED
      BY <1>1, <1>2, <3>1, <3>2, JoinKeeps DEF PaidGrows
  <2>5. CASE Refused(r)
    <3>1. probe' = [stage |-> "depth", n |-> k] /\ k \in Nat
      BY <1>2, <2>1, <2>5
    <3>2. UNCHANGED <<input, progress, output, reads, paidCalls>>
      BY <1>1, <2>1, <2>5
    <3>3. k <= IF Cand.src = "own" THEN Len(OwnProbes) ELSE Len(StateDepths)
      BY <1>1, <2>2
    <3> HIDE DEF k
    <3> QED
      BY <1>1, <1>2, <3>1, <3>2, <3>3, GoesOn
  <2> QED
    BY <2>3, <2>4, <2>5
<1> QED
  BY <1>3, <1>4

\* The networks to probe are those of the table that the repository mentions.
LEMMA ScanKeeps ==
  ASSUME RpcIInv, ScanRepo
  PROVE  RpcIInv'
<1> DEFINE D == {i \in DOMAIN NetOrder : NetOrder[i] \in Demanded}
           list == Keep(NetOrder, D)
<1>1. /\ result = "scanning" /\ UNCHANGED <<nets, env, masked, nofit>>
      /\ \/ TakeUp(list) /\ result' = "running"
         \/ result' = "failed" /\ UNCHANGED <<input, progress, probe, reads, paidCalls>>
  BY DEF ScanRepo
<1>2. left = <<>> /\ nofit = {} /\ EnvInv /\ NetsInv /\ input \in Inputs /\ RpcTypeOK
  BY <1>1 DEF RpcIInv, EnvInv
<1>3. CASE TakeUp(list) /\ result' = "running"
  <2>1. NetOrder \in Seq(Net) /\ \A n \in Net : \E i \in DOMAIN NetOrder : NetOrder[i] = n
    BY RpcAssumption
  <2>2. /\ list \in Seq(Net)
        /\ \A k \in DOMAIN list : \E i \in DOMAIN NetOrder : i \in D /\ list[k] = NetOrder[i]
        /\ \A i \in DOMAIN NetOrder : i \in D => \E k \in DOMAIN list : list[k] = NetOrder[i]
    <3> HIDE DEF D
    <3> QED
      BY <2>1, KeepsPlaces
  <2>3. \A k \in DOMAIN list : list[k] \in Demanded
    BY <2>2
  <2>4. \A n \in Net : n \in Demanded => \E k \in DOMAIN list : list[k] = n
    BY <2>1, <2>2
  <2> HIDE DEF list, D
  <2>5. /\ WorkInv' /\ input' = input /\ left' = list
        /\ todo' \in Seq(Candidate) /\ ups' = <<>> /\ transients' = <<>> /\ probe' = Idle
        /\ reads' \in [0 .. HeadBlock -> Nat] /\ paidCalls' = NoCalls
    BY <1>2, <1>3, <2>2, TakeUpStarts
  <2>6. NetsInv'
    BY <1>1, <1>2, <2>5, InputStands, GoodStays DEF NetsInv
  <2>7. Demanded' = Demanded /\ \A n : SecretUrls(n)' = SecretUrls(n)
    BY <2>5, InputStands
  <2>8. EnvInv'
    BY <1>1, <1>2, <1>3, <2>3, <2>4, <2>5, <2>7 DEF EnvInv
  <2>9. RpcTypeOK'
    BY <1>1, <1>2, <1>3, <2>2, <2>5, EmptySeq DEF RpcTypeOK, Candidate, Idle, NoCalls
  <2> QED
    BY <1>2, <2>5, <2>6, <2>8, <2>9 DEF RpcIInv
<1>4. CASE result' = "failed" /\ UNCHANGED <<input, progress, probe, reads, paidCalls>>
  <2>1. UNCHANGED <<input, left, todo, ups, transients, probe, reads, paidCalls>>
    BY <1>4 DEF progress
  <2>2. NetsInv'
    BY <1>1, <1>2, <2>1, InputStands, GoodStays DEF NetsInv
  <2>3. Demanded' = Demanded /\ \A n : SecretUrls(n)' = SecretUrls(n)
    BY <2>1, InputStands
  <2>4. EnvInv'
    BY <1>1, <1>2, <1>4, <2>1, <2>3 DEF EnvInv
  <2>5. WorkInv'
    BY <1>2, <2>1 DEF RpcIInv, WorkInv, NoWork, Idle
  <2>6. RpcTypeOK'
    BY <1>1, <1>2, <1>4, <2>1 DEF RpcTypeOK
  <2> QED
    BY <1>2, <2>1, <2>2, <2>4, <2>5, <2>6 DEF RpcIInv
<1> QED
  BY <1>1, <1>3, <1>4

\* The rest of the networks, when the first of them is done with.
LEMMA RestOfNetworks ==
  ASSUME RpcIInv, left # <<>>
  PROVE  /\ Tail(left) \in Seq(Net)
         /\ Cur \in Net /\ Cur \in Demanded
         /\ \A k \in DOMAIN Tail(left) : Tail(left)[k] \in Demanded
         /\ \A n \in Net : (\E i \in DOMAIN left : left[i] = n) =>
              n = Cur \/ \E k \in DOMAIN Tail(left) : Tail(left)[k] = n
<1>1. left \in Seq(Net) /\ \A i \in DOMAIN left : left[i] \in Demanded
  BY DEF RpcIInv, RpcTypeOK, EnvInv
<1>2. /\ Len(left) \in Nat \ {0} /\ DOMAIN left = 1 .. Len(left)
      /\ Tail(left) \in Seq(Net) /\ Len(Tail(left)) = Len(left) - 1
      /\ \A i \in 1 .. Len(Tail(left)) : Tail(left)[i] = left[i + 1]
      /\ Cur = left[1] /\ Cur \in Net
  BY <1>1, HeadTailProperties, EmptySeq, LenProperties DEF Cur
<1>3. DOMAIN Tail(left) = 1 .. Len(Tail(left))
  BY <1>2, LenProperties
<1>4. Cur \in Demanded
  BY <1>1, <1>2
<1>5. ASSUME NEW k \in DOMAIN Tail(left) PROVE Tail(left)[k] \in Demanded
  BY <1>1, <1>2, <1>3
<1>6. ASSUME NEW i \in DOMAIN left, left[i] # Cur
      PROVE  \E k \in DOMAIN Tail(left) : Tail(left)[k] = left[i]
  <2>1. i - 1 \in DOMAIN Tail(left) /\ (i - 1) + 1 = i
    BY <1>2, <1>3, <1>6
  <2> QED
    BY <1>2, <1>3, <2>1
<1> QED
  BY <1>2, <1>4, <1>5, <1>6

\* A list that is good now is good after a step that masks no less.
LEMMA GoodSame ==
  ASSUME input' = input, masked \subseteq masked', NEW n,
         InOrder(nets[n])',
         \A i \in DOMAIN nets'[n] : Fits(nets'[n][i]),
         \A i \in DOMAIN nets'[n] : nets'[n][i].url \in SecretUrls(n) => nets'[n][i].url \in masked
  PROVE  GoodList(n, nets[n])'
<1>1. \A up : Fits(up)' = Fits(up)
  BY InputStands
<1>2. SecretUrls(n)' = SecretUrls(n)
  BY InputStands
<1>3. (\A i \in DOMAIN nets[n] : Fits(nets[n][i]))'
  BY <1>1
<1>4. (\A i \in DOMAIN nets[n] : nets[n][i].url \in SecretUrls(n) => nets[n][i].url \in masked)'
  BY <1>2
<1> QED
  BY <1>3, <1>4 DEF GoodList

\* A network with no usable endpoint is on record, or was not configured.
LEMMA DoneKeeps ==
  ASSUME RpcIInv, NetDone
  PROVE  RpcIInv'
<1>1. /\ result = "running" /\ left # <<>> /\ TakeUp(Tail(left))
      /\ UNCHANGED <<env, masked, result>>
      /\ \/ ups # <<>> /\ nets' = [nets EXCEPT ![Cur] = ups] /\ nofit' = nofit
         \/ /\ ups = <<>> /\ nets' = nets
            /\ nofit' = IF Configured(Cur) THEN nofit \union {Cur} ELSE nofit
  BY DEF NetDone
<1>2. RpcTypeOK /\ EnvInv /\ NetsInv /\ input \in Inputs /\ UpsInv(Cur)
  BY <1>1 DEF RpcIInv, WorkInv, Work
<1>3. /\ Tail(left) \in Seq(Net) /\ Cur \in Net /\ Cur \in Demanded
      /\ \A k \in DOMAIN Tail(left) : Tail(left)[k] \in Demanded
      /\ \A n \in Net : (\E i \in DOMAIN left : left[i] = n) =>
           n = Cur \/ \E k \in DOMAIN Tail(left) : Tail(left)[k] = n
  BY <1>1, RestOfNetworks
<1>4. /\ WorkInv' /\ input' = input /\ left' = Tail(left)
      /\ todo' \in Seq(Candidate) /\ ups' = <<>> /\ transients' = <<>> /\ probe' = Idle
      /\ reads' \in [0 .. HeadBlock -> Nat] /\ paidCalls' = NoCalls
  BY <1>1, <1>2, <1>3, TakeUpStarts
<1>5. input.mode \in {"select", "proxy"}
  BY <1>2, InputsAssumption
<1>6. /\ nets' \in [Net -> Seq([url : Url, tier : Tier, window : Nat])]
      /\ \A n \in Net : nets'[n] = nets[n] \/ (n = Cur /\ nets'[n] = ups)
      /\ \A n \in Net : nets[n] # <<>> => nets'[n] # <<>>
      /\ ups # <<>> => nets'[Cur] # <<>>
  <2>1. /\ nets \in [Net -> Seq([url : Url, tier : Tier, window : Nat])]
        /\ ups \in Seq([url : Url, tier : Tier, window : Nat])
    BY <1>2 DEF RpcTypeOK
  <2>2. nets' = nets \/ (ups # <<>> /\ nets' = [nets EXCEPT ![Cur] = ups])
    BY <1>1
  <2>3. ups # <<>> => nets' = [nets EXCEPT ![Cur] = ups]
    BY <1>1
  <2>4. Cur \in Net
    BY <1>3
  <2> HIDE DEF Tier
  <2> QED
    BY ONLY <2>1, <2>2, <2>3, <2>4
<1>7. /\ nofit \subseteq nofit' /\ nofit' \subseteq Net
      /\ ups = <<>> /\ Configured(Cur) => Cur \in nofit'
  BY <1>1, <1>2, <1>3 DEF RpcTypeOK
<1>8. /\ Demanded' = Demanded /\ \A n : SecretUrls(n)' = SecretUrls(n)
      /\ \A n : Configured(n)' = Configured(n)
  BY <1>4, InputStands
<1>9. NetsInv'
  <2>1. ASSUME NEW n \in Net PROVE GoodList(n, nets[n])'
    <3>1. CASE nets'[n] = nets[n]
      <4> DEFINE list == nets[n]
      <4>1. GoodList(n, list)
        BY <1>2 DEF NetsInv
      <4>2. InOrder(list) /\ \A i \in DOMAIN list : Fits(list[i]) /\ (list[i].url \in SecretUrls(n) => list[i].url \in masked)
        BY <4>1 DEF GoodList
      <4>3. /\ InOrder(nets'[n])
            /\ \A i \in DOMAIN nets'[n] : Fits(nets'[n][i])
            /\ \A i \in DOMAIN nets'[n] : nets'[n][i].url \in SecretUrls(n) => nets'[n][i].url \in masked
        BY <3>1, <4>2
      <4>5. InOrder(nets[n])'
        BY <4>3 DEF InOrder
      <4> QED
        BY <1>1, <1>4, <4>3, <4>5, GoodSame
    <3>2. CASE n = Cur /\ nets'[n] = ups
      <4>1. /\ InOrder(ups) /\ \A i \in DOMAIN ups : Fits(ups[i])
            /\ \A i \in DOMAIN ups : ups[i].url \in SecretUrls(n) => ups[i].url \in masked
        BY <1>2, <3>2 DEF UpsInv, GoodList
      <4>3. /\ InOrder(nets'[n])
            /\ \A i \in DOMAIN nets'[n] : Fits(nets'[n][i])
            /\ \A i \in DOMAIN nets'[n] : nets'[n][i].url \in SecretUrls(n) => nets'[n][i].url \in masked
        BY <3>2, <4>1
      <4>5. InOrder(nets[n])'
        BY <4>3 DEF InOrder
      <4> QED
        BY <1>1, <1>4, <4>3, <4>5, GoodSame
    <3> QED
      BY <1>6, <3>1, <3>2
  <2>2. \A n \in Net : nets'[n] # <<>> => n \in Demanded
    BY <1>2, <1>3, <1>6 DEF NetsInv
  <2>3. input.mode = "select" => \A n \in Net : nets'[n] = <<>>
    BY <1>2, <1>6 DEF NetsInv, UpsInv
  <2> QED
    BY <1>4, <1>8, <2>1, <2>2, <2>3 DEF NetsInv
<1>10. \A n \in Net : Settled(n) => Settled(n)'
  BY <1>1, <1>4, <1>6, <1>7, <1>8 DEF Settled
<1>11. \A n \in Net : n = Cur => Settled(n)'
  <2>1. ups # <<>> => input.mode = "proxy"
    BY <1>2, <1>5 DEF UpsInv
  <2>2. \/ ~Configured(Cur)
        \/ Cur \in nofit'
        \/ input.mode = "proxy" /\ nets'[Cur] # <<>>
    BY <1>6, <1>7, <2>1
  <2> QED
    BY <1>4, <1>8, <2>2 DEF Settled
<1>12. \A n \in Net : n \in Demanded => (\E k \in DOMAIN Tail(left) : Tail(left)[k] = n) \/ Settled(n)'
  <2> SUFFICES ASSUME NEW n \in Net, n \in Demanded
               PROVE  (\E k \in DOMAIN Tail(left) : Tail(left)[k] = n) \/ Settled(n)'
    OBVIOUS
  <2>1. (\E i \in DOMAIN left : left[i] = n) \/ Settled(n)
    BY <1>1, <1>2 DEF EnvInv
  <2> QED
    BY <1>3, <1>10, <1>11, <2>1
<1>13. EnvInv'
  BY <1>1, <1>2, <1>3, <1>4, <1>8, <1>12 DEF EnvInv
<1>14. RpcTypeOK'
  BY <1>1, <1>2, <1>3, <1>4, <1>6, <1>7, EmptySeq DEF RpcTypeOK, Candidate, Idle, NoCalls
<1> QED
  BY <1>2, <1>4, <1>9, <1>13, <1>14 DEF RpcIInv

\* The URL selected is on record as masked when the secret lists it.
LEMMA SelectKeeps ==
  ASSUME RpcIInv, BurstPassed
  PROVE  RpcIInv'
<1>1. /\ At("burst") /\ UNCHANGED <<nets, nofit>>
      /\ masked' = IF Cand.src = "secret" THEN masked \union {Cand.url} ELSE masked
      /\ \/ /\ env' = [env EXCEPT ![Cur] = Cand.url]
            /\ TakeUp(Tail(left)) /\ result' = result
         \/ /\ result' = "failed"
            /\ UNCHANGED <<input, progress, probe, reads, paidCalls, env>>
  BY DEF BurstPassed, Select
<1>2. /\ left # <<>> /\ todo # <<>> /\ input.mode = "select" /\ result = "running"
      /\ ProbeInv /\ ReadsInv(Cur)
  BY <1>1, PastTheChain, CheckInTurn
<1>3. /\ Cur \in Net /\ Cand \in Candidate
      /\ Cand.src = "secret" <=> Cand.url \in SecretUrls(Cur)
  BY <1>2, CandidateInTurn
<1>4. RpcTypeOK /\ EnvInv /\ NetsInv /\ input \in Inputs
  BY DEF RpcIInv
<1>5. masked \subseteq masked' /\ masked' \subseteq Url
  BY <1>1, <1>3, <1>4 DEF Candidate, RpcTypeOK
<1>6. CASE /\ env' = [env EXCEPT ![Cur] = Cand.url]
           /\ TakeUp(Tail(left)) /\ result' = result
  <2>1. /\ Tail(left) \in Seq(Net) /\ Cur \in Demanded
        /\ \A k \in DOMAIN Tail(left) : Tail(left)[k] \in Demanded
        /\ \A n \in Net : (\E i \in DOMAIN left : left[i] = n) =>
             n = Cur \/ \E k \in DOMAIN Tail(left) : Tail(left)[k] = n
    BY <1>2, RestOfNetworks
  <2>2. /\ WorkInv' /\ input' = input /\ left' = Tail(left)
        /\ todo' \in Seq(Candidate) /\ ups' = <<>> /\ transients' = <<>> /\ probe' = Idle
        /\ reads' \in [0 .. HeadBlock -> Nat] /\ paidCalls' = NoCalls
    BY <1>4, <1>6, <2>1, TakeUpStarts
  <2>3. /\ Demanded' = Demanded /\ \A n : SecretUrls(n)' = SecretUrls(n)
        /\ \A n : Configured(n)' = Configured(n)
    BY <2>2, InputStands
  <2>4. NetsInv'
    BY <1>1, <1>4, <1>5, <2>2, InputStands, GoodStays DEF NetsInv
  <2>5. /\ env' \in [Net -> Url \union {NoUrl, Local}]
        /\ \A n \in Net : (n = Cur /\ env'[n] = Cand.url) \/ (n # Cur /\ env'[n] = env[n])
        /\ Cand.url # NoUrl
    BY <1>3, <1>4, <1>6, RpcAssumption DEF RpcTypeOK, Candidate
  <2>6. \A n \in Net : env'[n] # NoUrl => n \in Demanded
    BY <1>4, <2>1, <2>5 DEF EnvInv
  <2>7. \A n \in Net : env'[n] \in SecretUrls(n) => env'[n] \in masked'
    BY <1>1, <1>3, <1>4, <1>5, <2>5 DEF EnvInv
  <2>8. \A n \in Net : Settled(n) \/ n = Cur => Settled(n)'
    BY <1>1, <1>2, <2>2, <2>3, <2>5 DEF Settled
  <2>9. \A n \in Net : n \in Demanded => (\E k \in DOMAIN Tail(left) : Tail(left)[k] = n) \/ Settled(n)'
    <3> SUFFICES ASSUME NEW n \in Net, n \in Demanded
                 PROVE  (\E k \in DOMAIN Tail(left) : Tail(left)[k] = n) \/ Settled(n)'
      OBVIOUS
    <3>1. (\E i \in DOMAIN left : left[i] = n) \/ Settled(n)
      BY <1>2, <1>4 DEF EnvInv
    <3> QED
      BY <2>1, <2>8, <3>1
  <2>10. EnvInv'
    BY <1>2, <1>6, <2>1, <2>2, <2>3, <2>6, <2>7, <2>9 DEF EnvInv
  <2>11. RpcTypeOK'
    BY <1>1, <1>4, <1>5, <1>6, <2>1, <2>2, <2>5, EmptySeq DEF RpcTypeOK, Candidate, Idle, NoCalls
  <2> QED
    BY <1>4, <2>2, <2>4, <2>10, <2>11 DEF RpcIInv
<1>7. CASE /\ result' = "failed"
           /\ UNCHANGED <<input, progress, probe, reads, paidCalls, env>>
  <2>1. /\ UNCHANGED <<input, left, todo, ups, transients, probe, reads, paidCalls, env>>
        /\ Cand' = Cand /\ Cur' = Cur /\ (PublicsJoined' <=> PublicsJoined)
    BY <1>7 DEF progress, Cand, Cur, PublicsJoined
  <2>2. NetsInv'
    BY <1>1, <1>4, <1>5, <2>1, InputStands, GoodStays DEF NetsInv
  <2>3. /\ Demanded' = Demanded
        /\ \A n : /\ SecretUrls(n)' = SecretUrls(n) /\ Configured(n)' = Configured(n)
                 /\ Blocks(n)' = Blocks(n)
    BY <2>1, InputStands
  <2>4. \A n \in Net : Settled(n) => Settled(n)'
    BY <1>1, <2>1, <2>3 DEF Settled
  <2>5. EnvInv'
    BY <1>1, <1>2, <1>4, <1>5, <1>7, <2>1, <2>3, <2>4 DEF EnvInv
  <2>6. ProbeInv'
    BY <1>2, <1>5, <2>1 DEF ProbeInv, OwnProbes
  <2>7. ReadsInv(Cur)'
    <3>1. Blocks(Cur)' = Blocks(Cur) /\ reads' = reads /\ probe' = probe /\ input' = input
      BY <2>1, <2>3
    <3> QED
      BY <1>2, <3>1 DEF ReadsInv
  <2>8. WorkInv'
    BY <1>2, <1>5, <1>7, <2>1, <2>6, <2>7, WorkStays
  <2>9. RpcTypeOK'
    BY <1>1, <1>4, <1>5, <1>7, <2>1 DEF RpcTypeOK
  <2> QED
    BY <1>4, <2>1, <2>2, <2>5, <2>8, <2>9 DEF RpcIInv
<1> QED
  BY <1>1, <1>6, <1>7

\* The networks the proxy serves are those with an upstream.
LEMMA ServedAre ==
  ASSUME RpcTypeOK
  PROVE  /\ Served \in Seq(Net) /\ Len(Served) \in Nat /\ DOMAIN Served = 1 .. Len(Served)
         /\ \A i \in DOMAIN Served : nets[Served[i]] # <<>>
         /\ \A n \in Net : nets[n] # <<>> => \E i \in DOMAIN Served : Served[i] = n
<1> DEFINE D == {i \in DOMAIN NetOrder : nets[NetOrder[i]] # <<>>}
<1>1. NetOrder \in Seq(Net) /\ \A n \in Net : \E i \in DOMAIN NetOrder : NetOrder[i] = n
  BY RpcAssumption
<1>2. Served = Keep(NetOrder, D)
  BY DEF Served
<1>3. /\ Keep(NetOrder, D) \in Seq(Net)
      /\ \A k \in DOMAIN Keep(NetOrder, D) :
           \E i \in DOMAIN NetOrder : i \in D /\ Keep(NetOrder, D)[k] = NetOrder[i]
      /\ \A i \in DOMAIN NetOrder : i \in D =>
           \E k \in DOMAIN Keep(NetOrder, D) : Keep(NetOrder, D)[k] = NetOrder[i]
  <2> HIDE DEF D
  <2> QED
    BY <1>1, KeepsPlaces
<1>4. Len(Served) \in Nat /\ DOMAIN Served = 1 .. Len(Served) /\ Served \in Seq(Net)
  BY <1>2, <1>3, LenProperties
<1>5. \A i \in DOMAIN Served : nets[Served[i]] # <<>>
  BY <1>2, <1>3
<1>6. ASSUME NEW n \in Net, nets[n] # <<>>
      PROVE  \E i \in DOMAIN Served : Served[i] = n
  <2>1. PICK i \in DOMAIN NetOrder : NetOrder[i] = n
    BY <1>1
  <2>2. i \in D
    BY <1>6, <2>1
  <2>3. \E k \in DOMAIN Keep(NetOrder, D) : Keep(NetOrder, D)[k] = NetOrder[i]
    BY <1>3, <2>2
  <2> QED
    BY <1>2, <2>1, <2>3
<1> QED
  BY <1>4, <1>5, <1>6

\* The end exports what has an upstream, and nothing when a network has none.
LEMMA EndKeeps ==
  ASSUME RpcIInv, Finished
  PROVE  RpcIInv'
<1>1. /\ result = "running" /\ left = <<>>
      /\ UNCHANGED <<input, left, todo, ups, transients, probe, nets, masked, nofit, reads, paidCalls>>
  BY DEF Finished, progress
<1>2. RpcTypeOK /\ EnvInv /\ NetsInv /\ WorkInv /\ input \in Inputs
  BY DEF RpcIInv
<1>3. NetsInv'
  BY <1>1, <1>2, InputStands, GoodStays DEF NetsInv
<1>4. WorkInv'
  BY <1>1, <1>2 DEF WorkInv, NoWork, Idle
<1>5. /\ Demanded' = Demanded /\ \A n : SecretUrls(n)' = SecretUrls(n)
      /\ \A n : Configured(n)' = Configured(n)
  BY <1>1, InputStands
<1>6. CASE nofit # {}
  <2>1. result' = "failed" /\ env' = env
    BY <1>6 DEF Finished
  <2>2. \A n \in Net : Settled(n) => Settled(n)'
    BY <1>1, <1>5, <2>1 DEF Settled
  <2>3. EnvInv'
    BY <1>1, <1>2, <1>5, <2>1, <2>2 DEF EnvInv
  <2>4. RpcTypeOK'
    BY <1>1, <1>2, <2>1 DEF RpcTypeOK
  <2> QED
    BY <1>1, <1>2, <1>3, <1>4, <2>3, <2>4 DEF RpcIInv
<1>7. CASE nofit = {}
  <2>1. PICK k \in 0 .. Len(Served) :
          /\ env' = [n \in Net |-> IF \E i \in 1 .. k : Served[i] = n THEN Local ELSE env[n]]
          /\ result' = IF k = Len(Served) THEN "clean" ELSE "failed"
    BY <1>7 DEF Finished
  <2>2. /\ Len(Served) \in Nat /\ DOMAIN Served = 1 .. Len(Served)
        /\ \A i \in DOMAIN Served : nets[Served[i]] # <<>>
        /\ \A n \in Net : nets[n] # <<>> => \E i \in DOMAIN Served : Served[i] = n
    BY <1>2, ServedAre
  <2>3. \A n \in Net : \/ env'[n] = env[n]
                       \/ env'[n] = Local /\ nets[n] # <<>>
    <3> TAKE n \in Net
    <3>1. env'[n] = IF \E i \in 1 .. k : Served[i] = n THEN Local ELSE env[n]
      BY <2>1
    <3>2. ASSUME NEW i \in 1 .. k, Served[i] = n PROVE nets[n] # <<>>
      <4>1. i \in DOMAIN Served
        BY <2>2
      <4> QED
        BY <2>2, <3>2, <4>1
    <3> QED
      BY <3>1, <3>2
  <2>4. \A n \in Net : SecretUrls(n) \subseteq Url
    <3> TAKE n \in Net
    <3>1. input.secret[n] \in Seq(Url)
      BY <1>2, InputTypes
    <3> QED
      BY <3>1, ElementOfSeq, LenProperties DEF SecretUrls
  <2>5. \A n \in Net : env'[n] # NoUrl => n \in Demanded
    BY <1>2, <2>3 DEF EnvInv, NetsInv
  <2>6. \A n \in Net : env'[n] \in SecretUrls(n) => env'[n] \in masked
    BY <1>2, <2>3, <2>4, RpcAssumption DEF EnvInv
  <2>7. result' = "clean" => \A n \in Net : n \in Demanded /\ Configured(n) => env'[n] # NoUrl
    <3> SUFFICES ASSUME result' = "clean", NEW n \in Net, n \in Demanded, Configured(n)
                 PROVE  env'[n] # NoUrl
      OBVIOUS
    <3>1. Settled(n)
      BY <1>1, <1>2 DEF EnvInv
    <3>2. CASE input.mode = "select" /\ env[n] # NoUrl
      BY <2>3, <3>2, RpcAssumption
    <3>3. CASE input.mode = "proxy" /\ nets[n] # <<>>
      <4>1. k = Len(Served)
        BY <2>1
      <4>2. \E i \in 1 .. k : Served[i] = n
        BY <2>2, <3>3, <4>1
      <4>3. env'[n] = Local
        BY <2>1, <4>2
      <4> QED
        BY <4>3, RpcAssumption
    <3> QED
      BY <1>7, <3>1, <3>2, <3>3 DEF Settled
  <2>8. result' \in {"clean", "failed"}
    BY <2>1
  <2>9. EnvInv'
    BY <1>1, <1>2, <1>5, <1>7, <2>5, <2>6, <2>7, <2>8 DEF EnvInv
  <2>10. env' \in [Net -> Url \union {NoUrl, Local}]
    BY <1>2, <2>1 DEF RpcTypeOK
  <2>11. RpcTypeOK'
    BY <1>1, <1>2, <2>8, <2>10 DEF RpcTypeOK
  <2> QED
    BY <1>1, <1>2, <1>3, <1>4, <2>9, <2>11 DEF RpcIInv
<1> QED
  BY <1>6, <1>7

\* The invariant holds at the start and at every step.
LEMMA RpcStarts ==
  ASSUME RpcInit
  PROVE  RpcIInv
<1>1. /\ input \in Inputs /\ left = <<>> /\ todo = <<>> /\ ups = <<>> /\ transients = <<>>
      /\ probe = Idle /\ nets = [n \in Net |-> <<>>] /\ env = [n \in Net |-> NoUrl]
      /\ masked = {} /\ nofit = {} /\ result = "scanning" /\ reads = Unread /\ paidCalls = NoCalls
  BY DEF RpcInit
<1>2. RpcTypeOK
  <2>1. nets \in [Net -> Seq([url : Url, tier : Tier, window : Nat])]
    BY <1>1, EmptySeq
  <2>2. /\ left \in Seq(Net) /\ todo \in Seq(Candidate) /\ transients \in Seq(Url)
        /\ ups \in Seq([url : Url, tier : Tier, window : Nat])
    BY <1>1, EmptySeq
  <2>3. reads \in [0 .. HeadBlock -> Nat]
    BY <1>1 DEF Unread
  <2> QED
    BY <1>1, <2>1, <2>2, <2>3 DEF RpcTypeOK, Candidate, Idle, NoCalls
<1>3. WorkInv
  BY <1>1 DEF WorkInv, NoWork
<1>4. NetsInv
  BY <1>1 DEF NetsInv, GoodList, InOrder
<1>5. \A n \in Net : env[n] \notin SecretUrls(n)
  <2> TAKE n \in Net
  <2>1. input.secret[n] \in Seq(Url)
    BY <1>1, InputTypes
  <2>2. SecretUrls(n) \subseteq Url
    BY <2>1, ElementOfSeq, LenProperties DEF SecretUrls
  <2> QED
    BY <1>1, <2>2, RpcAssumption
<1>6. EnvInv
  BY <1>1, <1>5 DEF EnvInv
<1> QED
  BY <1>1, <1>2, <1>3, <1>4, <1>6 DEF RpcIInv

LEMMA RpcInvariance == RpcSpec => []RpcIInv
<1>1. RpcInit => RpcIInv
  BY RpcStarts
<1>2. RpcIInv /\ [RpcNext]_rpcVars => RpcIInv'
  <2> SUFFICES ASSUME RpcIInv, [RpcNext]_rpcVars PROVE RpcIInv'
    OBVIOUS
  <2>1. CASE ScanRepo
    BY <2>1, ScanKeeps
  <2>2. CASE KeepTransients
    BY <2>2, TransientsKeep
  <2>3. CASE StartProbe
    BY <2>3, StartKeeps
  <2>4. CASE AskChain
    BY <2>4, ChainKeeps
  <2>5. CASE AskState
    BY <2>5, StateKeeps
  <2>6. CASE StatePassed
    BY <2>6, PassedKeeps
  <2>7. CASE Burst
    BY <2>7, BurstKeeps
  <2>8. CASE BurstPassed
    BY <2>8, SelectKeeps
  <2>9. CASE AskHead
    BY <2>9, HeadKeeps
  <2>10. CASE AskOwnDepth
    BY <2>10, OwnDepthKeeps
  <2>11. CASE AskPublicDepth
    BY <2>11, PublicDepthKeeps
  <2>12. CASE NetDone
    BY <2>12, DoneKeeps
  <2>13. CASE Finished
    BY <2>13, EndKeeps
  <2>14. CASE UNCHANGED rpcVars
    <3>1. /\ UNCHANGED <<input, left, todo, ups, transients, probe, nets, env, masked, nofit,
                         result, reads, paidCalls>>
          /\ UNCHANGED <<input, progress>>
      BY <2>14 DEF rpcVars, progress, output
    <3>2. WorkInv'
      <4>1. ASSUME left # <<>> PROVE ProbeInv' /\ ReadsInv(Cur)'
        <5>1. ProbeInv /\ ReadsInv(Cur)
          BY <4>1 DEF RpcIInv, WorkInv, Work
        <5>2. /\ Cand' = Cand /\ Cur' = Cur /\ (PublicsJoined' <=> PublicsJoined)
              /\ Blocks(Cur)' = Blocks(Cur)
          BY <3>1, InputStands DEF Cand, Cur, PublicsJoined
        <5>3. ProbeInv'
          BY <3>1, <5>1, <5>2 DEF ProbeInv, OwnProbes
        <5>4. ReadsInv(Cur)'
          BY <3>1, <5>1, <5>2 DEF ReadsInv
        <5> QED
          BY <5>3, <5>4
      <4> QED
        BY <3>1, <4>1, WorkStays
    <3>3. NetsInv' /\ EnvInv'
      BY <3>1, OutputStands DEF RpcIInv
    <3>4. RpcTypeOK'
      BY <3>1 DEF RpcIInv, RpcTypeOK
    <3> QED
      BY <3>1, <3>2, <3>3, <3>4 DEF RpcIInv
  <2> QED
    BY <2>1, <2>2, <2>3, <2>4, <2>5, <2>6, <2>7, <2>8, <2>9, <2>10, <2>11, <2>12, <2>13,
       <2>14 DEF RpcNext
<1> QED
  BY <1>1, <1>2, PTL DEF RpcSpec

\* A clean end leaves no network unexported that the repository mentions and
\* that has a list; a network without an endpoint costs no other its export when
\* selecting, and all of them theirs when a proxy is to serve them.
THEOREM ExportsMatch == RpcSpec => []ExportsMatchDemand
<1>1. RpcIInv => ExportsMatchDemand
  <2> SUFFICES ASSUME RpcIInv, result \in {"clean", "failed"} PROVE ExportsMatchDemand
    BY DEF ExportsMatchDemand
  <2>1. EnvInv /\ input \in Inputs /\ nofit \subseteq Net
    BY DEF RpcIInv, RpcTypeOK
  <2>2. \A n \in Net :
          /\ input.secret[n] \o input.vars[n] \o input.defaults[n] # <<>> => Configured(n)
          /\ input.mode = "select" /\ Candidates(n) # <<>> => Configured(n)
    BY <2>1, ListedIsConfigured
  <2>3. ASSUME NEW n \in Demanded PROVE n \in Net
    BY <2>1, InputsAssumption DEF Demanded
  <2>4. \A n \in Net : env[n] # NoUrl => n \in Demanded
    BY <2>1 DEF EnvInv
  <2>5. ASSUME result = "clean", NEW n \in Demanded,
               input.secret[n] \o input.vars[n] \o input.defaults[n] # <<>>
        PROVE  env[n] # NoUrl
    BY <2>1, <2>2, <2>3, <2>5 DEF EnvInv
  <2>6. ASSUME input.mode = "select", nofit # {}, left = <<>>,
               NEW n \in Demanded \ nofit, Candidates(n) # <<>>
        PROVE  env[n] # NoUrl
    <3>1. n \in Net /\ Configured(n)
      BY <2>2, <2>3, <2>6
    <3>2. Settled(n)
      BY <2>1, <2>6, <3>1 DEF EnvInv
    <3> QED
      BY <2>6, <3>1, <3>2 DEF Settled
  <2>7. input.mode = "proxy" /\ nofit # {} => \A n \in Net : env[n] = NoUrl
    BY <2>1 DEF EnvInv
  <2> QED
    BY <2>4, <2>5, <2>6, <2>7 DEF ExportsMatchDemand
<1> QED
  BY <1>1, RpcInvariance, PTL

\* A URL of the secret list is masked before it is exported or served, is asked
\* for nothing but its chain by the proxy, and comes after every other upstream.
THEOREM PaidKeysAreGuarded == RpcSpec => []PaidKeyIsGuarded
<1>1. RpcIInv => PaidKeyIsGuarded
  <2> SUFFICES ASSUME RpcIInv PROVE PaidKeyIsGuarded
    OBVIOUS
  <2>1. EnvInv /\ NetsInv /\ RpcTypeOK /\ input \in Inputs
    BY DEF RpcIInv
  <2>2. \A n \in Net :
          /\ env[n] \in SecretUrls(n) => env[n] \in masked
          /\ \A i \in DOMAIN nets[n] : nets[n][i].url \in SecretUrls(n) => nets[n][i].url \in masked
    BY <2>1 DEF EnvInv, NetsInv, GoodList
  <2>3. \A n \in Net : \A i, j \in DOMAIN nets[n] :
          i < j => /\ nets[n][i].tier = "paid" => nets[n][j].tier = "paid"
                   /\ nets[n][j].tier = "own" => nets[n][i].tier = "own"
    BY <2>1 DEF NetsInv, GoodList, InOrder
  <2>4. ASSUME input.mode = "proxy", left # <<>>
        PROVE  /\ paidCalls.chainId > 0 =>
                    paidCalls.chainId + Len(todo) <= Len(input.secret[Cur])
               /\ paidCalls.other = 0
    <3>1. Cur \in Net
      BY <2>1, <2>4, HeadTailProperties DEF RpcTypeOK, Cur
    <3>2. PaidInv(Cur) /\ TodoInv(Cur)
      BY <2>4 DEF RpcIInv, WorkInv, Work
    <3>3. Len(Candidates(Cur)) = Ahead(Cur) + Len(input.secret[Cur]) /\ Ahead(Cur) \in Nat
      BY <2>1, <2>4, <3>1, CandidatesOf
    <3>4. input.secret[Cur] \in Seq(Url)
      BY <2>1, <3>1, InputTypes
    <3>5. Len(todo) \in Nat /\ paidCalls.chainId \in Nat /\ Len(input.secret[Cur]) \in Nat
      BY <2>1, <3>4, LenProperties DEF RpcTypeOK
    <3>6. /\ paidCalls.other = 0
          /\ paidCalls.chainId = 0 \/ paidCalls.chainId + Ahead(Cur) <= Handled(Cur)
      BY <2>4, <3>2 DEF PaidInv
    <3> QED
      BY <3>3, <3>5, <3>6 DEF Handled
  <2> QED
    BY <2>2, <2>3, <2>4 DEF PaidKeyIsGuarded
<1> QED
  BY <1>1, RpcInvariance, PTL

\* A declared window is no deeper than a backend of the upstream serves.
THEOREM WindowsAreServed == RpcSpec => []WindowIsServed
<1>1. RpcIInv => WindowIsServed
  BY DEF RpcIInv, NetsInv, GoodList, Fits, Serves, WindowIsServed
<1> QED
  BY <1>1, RpcInvariance, PTL

\* An endpoint is exported after as many answers as samples at every depth.
THEOREM SelectedHaveAnswered == RpcSpec => SelectedAnsweredAll
<1> DEFINE Answered(n) ==
      env'[n] # env[n] /\ env'[n] # Local =>
        /\ env'[n] \notin input.wrong
        /\ IF input.archive /\ input.pins[n] # <<>>
           THEN \A i \in DOMAIN input.pins[n] : reads[input.pins[n][i]] >= Samples
           ELSE reads[0] >= Samples
<1>1. RpcIInv /\ [RpcNext]_rpcVars => \A n \in Net : Answered(n)
  <2> SUFFICES ASSUME RpcIInv, [RpcNext]_rpcVars, NEW n \in Net, env'[n] # env[n], env'[n] # Local
               PROVE  /\ env'[n] \notin input.wrong
                      /\ IF input.archive /\ input.pins[n] # <<>>
                         THEN \A i \in DOMAIN input.pins[n] : reads[input.pins[n][i]] >= Samples
                         ELSE reads[0] >= Samples
    OBVIOUS
  <2>1. BurstPassed \/ Finished
    BY DEF RpcNext, rpcVars, output, ScanRepo, KeepTransients, StartProbe, AskChain, AskState,
           StatePassed, Burst, AskHead, AskOwnDepth, AskPublicDepth, NetDone, Reject, Join
  <2>2. CASE Finished
    BY <2>2 DEF Finished
  <2>3. CASE BurstPassed
    <3>1. /\ At("burst")
          /\ env' = [env EXCEPT ![Cur] = Cand.url] \/ env' = env
      BY <2>3 DEF BurstPassed, Select
    <3>2. /\ probe.stage = "burst" /\ left # <<>> /\ todo # <<>>
          /\ Cand.url \notin input.wrong /\ ReadsInv(Cur)
      BY <3>1, PastTheChain, CheckInTurn
    <3>3. n = Cur /\ env'[n] = Cand.url
      BY <3>1 DEF RpcIInv, RpcTypeOK
    <3>4. \A b \in 1 .. Len(Blocks(n)) : reads[Blocks(n)[b]] >= Samples
      BY <3>2, <3>3 DEF ReadsInv
    <3>5. Blocks(n) \in Seq(0 .. HeadBlock) /\ Len(Blocks(n)) \in Nat \ {0}
      BY InputTypes DEF RpcIInv
    <3>6. CASE input.archive /\ input.pins[n] # <<>>
      <4>1. Blocks(n) = input.pins[n]
        BY <3>6 DEF Blocks
      <4>2. DOMAIN input.pins[n] = 1 .. Len(Blocks(n))
        BY <3>5, <4>1, LenProperties
      <4> QED
        BY <3>2, <3>3, <3>4, <3>6, <4>1, <4>2
    <3>7. CASE ~(input.archive /\ input.pins[n] # <<>>)
      <4>1. Blocks(n) = <<0>>
        BY <3>7 DEF Blocks
      <4>2. 1 \in 1 .. Len(Blocks(n)) /\ Blocks(n)[1] = 0
        BY <3>5, <4>1
      <4> QED
        BY <3>2, <3>3, <3>4, <3>7, <4>2
    <3> QED
      BY <3>6, <3>7
  <2> QED
    BY <2>1, <2>2, <2>3
<1>2. RpcIInv /\ [RpcNext]_rpcVars => [\A n \in Net : Answered(n)]_rpcVars
  BY <1>1
<1> QED
  BY <1>2, RpcInvariance, PTL DEF RpcSpec, SelectedAnsweredAll

=============================================================================
