--------------------------- MODULE CheckerProofs ---------------------------
(***************************************************************************)
(* Theorems about Checker, for every sequence of tests: whatever call      *)
(* fails, whoever is killed and whatever the kernel does, a test that      *)
(* returns to main() has printed its verdict once, was counted as printed, *)
(* and left no descriptor, object or child behind.                         *)
(*                                                                         *)
(* The proof is a logic for scripts in two judgements.  Good(t, c, ...)    *)
(* says of the code c of the process that reports on test t, in a given    *)
(* situation (descriptors, objects, child, lines), that every way through  *)
(* c ends with nothing left and one verdict.  SubOk(k, c) says of the code *)
(* of a child or grandchild that it stays out of its parent's books.  Part *)
(* 1 has the rules of both, part 2 applies them to the tests, part 3 shows *)
(* that the steps of the processes preserve them.                          *)
(***************************************************************************)
EXTENDS Checker, TLAPS

-----------------------------------------------------------------------------
(* Part 1: the judgements and their rules. *)

IsSeq(c) == \E S : c \in Seq(S)

PipeNames == {"r", "s"}
WaitCalls == {"wait4", "waitid"}
Objects == {"fd", "sem", "mq", "msq", "shm", "pidfd"}

\* What one call of a grandchild must be like; J is the set of calls it can
\* come to make.
PlainCall(J, i) ==
  \/ i.op \in {"close", "send", "wait", "stop", "pause"}
  \/ i.op = "try" /\ i.call \notin WaitCalls /\ i.fail \in Seq(J)
  \/ i.op = "make" /\ i.obj = "tmpdir" /\ i.fail \in Seq(J)
  \/ i.op = "pipe" /\ i.q \in PipeNames /\ i.fail \in Seq(J)
  \/ i.op = "recv" /\ i.none \in Seq(J)
  \/ i.op \in {"on", "observe"} /\ i.then \in Seq(J)
  \/ i.op = "exit" /\ i.status \in Status
  \/ i.op \in {"check", "enter"} /\ Op("enter") \in J /\ Op("pause") \in J

GrandOk(c) == \E J : (\A i \in J : PlainCall(J, i)) /\ c \in Seq(J)

\* A child may also signal and fork a grandchild.
SubCall(k, J, i) ==
  \/ PlainCall(J, i)
  \/ k = "child" /\ i.op = "kill" /\ i.fail \in Seq(J)
  \/ k = "child" /\ i.op = "fork" /\ i.fail \in Seq(J) /\ GrandOk(i.child)

SubDisc(k, J) == \A i \in J : SubCall(k, J, i)
SubOk(k, c) == \E J : SubDisc(k, J) /\ c \in Seq(J)

\* "helper" is the process of run_as_uid1(), which is a child itself.
Level(t) == IF t = "helper" THEN "grand" ELSE "child"

\* How a test must end: descriptors F, objects O, child k, lines L, failed
\* waiting calls W.
Final(t, F, O, k, L, W) ==
  /\ F = {} /\ O = {}
  /\ k \in {"none", "reaped"} \/ W # {}
  /\ Len(L) = IF t = "pid" /\ L[1] \in {"PASS", "STUB"} THEN 2 ELSE 1

\* The first call of c leads from a situation to situations in P only.
Local(t, P, c, F, O, k, L, W) ==
  LET i == Head(c)
      r == Tail(c)
  IN
  /\ IsSeq(c)
  /\ c = <<>> => Final(t, F, O, k, L, W)
  /\ c # <<>> =>
     \/ /\ i.op = "try" /\ <<r, F, O, k, L, W>> \in P
        /\ <<i.fail, F, O, k, L, W \cup ({i.call} \cap WaitCalls)>> \in P
     \/ /\ i.op = "make" /\ t # "helper" /\ i.obj \in Objects
        /\ <<r, F, O \cup {i.obj}, k, L, W>> \in P
        /\ <<i.fail, F, O, k, L, W>> \in P
     \/ i.op = "drop" /\ t # "helper" /\ <<r, F, O \ {i.obj}, k, L, W>> \in P
     \/ /\ i.op = "pipe" /\ i.q \in PipeNames
        /\ <<r, F \cup ({i.q} \X {"R", "W"}), O, k, L, W>> \in P
        /\ <<i.fail, F, O, k, L, W>> \in P
     \/ i.op = "close" /\ <<r, F \ {i.fd}, O, k, L, W>> \in P
     \/ /\ i.op = "fork" /\ SubOk(Level(t), i.child)
        /\ <<r, F, O, "forked", L, W>> \in P
        /\ <<i.fail, F, O, k, L, W>> \in P
     \/ i.op = "send" /\ t # "helper" /\ <<r, F, O, k, L, W>> \in P
     \/ /\ i.op = "recv" /\ <<r, F, O, k, L, W>> \in P
        /\ <<i.none, F, O, k, L, W>> \in P
     \/ /\ i.op = "report" /\ i.res \in Result
        /\ <<r, F, O, k, Append(L, i.res), W>> \in P
     \/ i.op = "wait" /\ <<r, F, O, "reaped", L, W>> \in P
     \/ /\ i.op = "waitok" /\ t # "helper"
        /\ <<r, F, O, "reaped", L, W>> \in P
        /\ <<i.fail, F, O, "reaped", L, W>> \in P
     \/ /\ i.op = "waitstop" /\ t # "helper"
        /\ <<r, F, O, k, L, W>> \in P
        /\ <<i.fail, F, O, "reaped", L, W>> \in P
     \/ /\ i.op \in {"on", "observe"}
        /\ <<r, F, O, k, L, W>> \in P
        /\ <<i.then, F, O, k, L, W>> \in P
     \/ /\ i.op = "cont" /\ t # "helper"
        /\ <<r, F, O, k, L, W>> \in P
        /\ <<i.fail, F, O, k, L, W>> \in P
     \/ i.op \in {"sigkill", "poll"} /\ t # "helper" /\ <<r, F, O, k, L, W>> \in P

Closed(t, P) ==
  \A c, F, O, k, L, W : <<c, F, O, k, L, W>> \in P => Local(t, P, c, F, O, k, L, W)

Good(t, c, F, O, k, L, W) == \E P : Closed(t, P) /\ <<c, F, O, k, L, W>> \in P

\* Putting a call before a script, and taking it off.
LEMMA ConsFacts == ASSUME NEW i, NEW r, IsSeq(r)
  PROVE  /\ IsSeq(<<i>> \o r) /\ <<i>> \o r # <<>>
         /\ Head(<<i>> \o r) = i /\ Tail(<<i>> \o r) = r
<1>1. PICK S : r \in Seq(S)  BY DEF IsSeq
<1>2. r \in Seq(S \cup {i}) /\ <<i>> \in Seq(S \cup {i})  BY <1>1
<1>3. <<i>> \o r \in Seq(S \cup {i})  BY <1>2
<1>4. Head(<<i>> \o r) = i /\ <<i>> \o r # <<>>  BY <1>2
<1>5. Tail(<<i>> \o r) = r  BY <1>2
<1>. QED  BY <1>3, <1>4, <1>5 DEF IsSeq

\* Concatenation of scripts.
LEMMA CatFacts == ASSUME NEW a, NEW s, NEW v, IsSeq(s), IsSeq(v)
  PROVE  /\ (<<a>> \o s) \o v = <<a>> \o (s \o v)
         /\ IsSeq(s \o v)
<1>1. PICK S : s \in Seq(S)  BY DEF IsSeq
<1>2. PICK V : v \in Seq(V)  BY DEF IsSeq
<1>. DEFINE U == S \cup V \cup {a}
<1>3. s \in Seq(U) /\ v \in Seq(U) /\ <<a>> \in Seq(U)  BY <1>1, <1>2
<1>4. (<<a>> \o s) \o v = <<a>> \o (s \o v)  BY <1>3
<1>5. s \o v \in Seq(U)  BY <1>3
<1>. QED  BY <1>4, <1>5 DEF IsSeq

LEMMA CatAssoc == ASSUME NEW x, NEW y, NEW v, IsSeq(x), IsSeq(y), IsSeq(v)
  PROVE  (x \o y) \o v = x \o (y \o v)
<1>1. PICK X : x \in Seq(X)  BY DEF IsSeq
<1>2. PICK Y : y \in Seq(Y)  BY DEF IsSeq
<1>3. PICK V : v \in Seq(V)  BY DEF IsSeq
<1>4. x \in Seq(X \cup Y \cup V) /\ y \in Seq(X \cup Y \cup V) /\ v \in Seq(X \cup Y \cup V)
  BY <1>1, <1>2, <1>3
<1>. QED  BY <1>4

LEMMA EmptyFacts == ASSUME NEW v, IsSeq(v)
  PROVE  <<>> \o v = v /\ v \o <<>> = v /\ IsSeq(<<>>)
<1>1. PICK V : v \in Seq(V)  BY DEF IsSeq
<1>2. <<>> \o v = v /\ v \o <<>> = v  BY <1>1
<1>3. <<>> \in Seq({})  OBVIOUS
<1>. QED  BY <1>2, <1>3 DEF IsSeq

LEMMA OneFacts == ASSUME NEW a PROVE <<a>> = <<a>> \o <<>> /\ IsSeq(<<a>>)
<1>1. <<a>> \in Seq({a})  OBVIOUS
<1>. QED  BY <1>1, EmptyFacts DEF IsSeq

LEMMA PairCat == ASSUME NEW a, NEW b PROVE <<a, b>> = <<a>> \o <<b>>
<1>. DEFINE s == <<a>> \o <<b>>
<1>1. <<a>> \in Seq({a, b}) /\ <<b>> \in Seq({a, b})  OBVIOUS
<1>2. Len(s) = 2 /\ s \in Seq({a, b})  BY <1>1
<1>3. s[1] = a /\ s[2] = b  BY <1>1
<1>. HIDE DEF s
<1>4. s = <<a, b>>  BY <1>2, <1>3
<1>. QED  BY <1>4 DEF s


\* Fewer demands on a larger set of situations.
LEMMA LocalMono ==
  ASSUME NEW t, NEW P, NEW Q, P \subseteq Q,
         NEW c, NEW F, NEW O, NEW k, NEW L, NEW W, Local(t, P, c, F, O, k, L, W)
  PROVE  Local(t, Q, c, F, O, k, L, W)
BY Zenon DEF Local

LEMMA ClosedUnion ==
  ASSUME NEW t, NEW P, NEW Q, Closed(t, P), Closed(t, Q)
  PROVE  Closed(t, P \cup Q)
<1>1. SUFFICES ASSUME NEW c, NEW F, NEW O, NEW k, NEW L, NEW W,
                      <<c, F, O, k, L, W>> \in P \cup Q
               PROVE  Local(t, P \cup Q, c, F, O, k, L, W)
  BY Zenon DEF Closed
<1>2. \/ Local(t, P, c, F, O, k, L, W)
      \/ Local(t, Q, c, F, O, k, L, W)
  BY <1>1, Zenon DEF Closed
<1>. QED  BY <1>2, LocalMono, P \subseteq P \cup Q, Q \subseteq P \cup Q, Zenon

\* A script is good when its first call leads to good scripts.
LEMMA GoodIntro ==
  ASSUME NEW t, NEW P, Closed(t, P),
         NEW c, NEW F, NEW O, NEW k, NEW L, NEW W, Local(t, P, c, F, O, k, L, W)
  PROVE  Good(t, c, F, O, k, L, W)
<1>. DEFINE x == <<c, F, O, k, L, W>>
            Q == P \cup {x}
<1>1. ASSUME NEW c2, NEW F2, NEW O2, NEW k2, NEW L2, NEW W2,
             <<c2, F2, O2, k2, L2, W2>> \in Q
      PROVE  Local(t, Q, c2, F2, O2, k2, L2, W2)
  <2>1. CASE <<c2, F2, O2, k2, L2, W2>> \in P
    <3>1. Local(t, P, c2, F2, O2, k2, L2, W2)  BY <2>1, Zenon DEF Closed
    <3>. QED  BY <3>1, LocalMono, P \subseteq Q, Zenon
  <2>2. CASE <<c2, F2, O2, k2, L2, W2>> = x
    <3>1. c2 = c /\ F2 = F /\ O2 = O /\ k2 = k /\ L2 = L /\ W2 = W  BY <2>2
    <3>2. Local(t, Q, c, F, O, k, L, W)  BY LocalMono, P \subseteq Q, Zenon
    <3>. QED  BY <3>1, <3>2, Zenon
  <2>. QED  BY <1>1, <2>1, <2>2
<1>2. Closed(t, Q)  BY <1>1, Zenon DEF Closed
<1>3. <<c, F, O, k, L, W>> \in Q  OBVIOUS
<1>. HIDE DEF Q
<1>. QED  BY <1>2, <1>3, Zenon DEF Good

\* What is good is a script.
LEMMA GoodSeq ==
  ASSUME NEW t, NEW c, NEW F, NEW O, NEW k, NEW L, NEW W, Good(t, c, F, O, k, L, W)
  PROVE  IsSeq(c)
<1>1. PICK P : Closed(t, P) /\ <<c, F, O, k, L, W>> \in P  BY Zenon DEF Good
<1>2. Local(t, P, c, F, O, k, L, W)  BY <1>1, Zenon DEF Closed
<1>. QED  BY <1>2, Zenon DEF Local

\* Two good scripts have a common set of situations.
LEMMA GoodPair ==
  ASSUME NEW t,
         NEW c1, NEW F1, NEW O1, NEW k1, NEW L1, NEW W1, Good(t, c1, F1, O1, k1, L1, W1),
         NEW c2, NEW F2, NEW O2, NEW k2, NEW L2, NEW W2, Good(t, c2, F2, O2, k2, L2, W2)
  PROVE  \E P : /\ Closed(t, P)
                /\ <<c1, F1, O1, k1, L1, W1>> \in P
                /\ <<c2, F2, O2, k2, L2, W2>> \in P
<1>1. PICK P1 : Closed(t, P1) /\ <<c1, F1, O1, k1, L1, W1>> \in P1  BY Zenon DEF Good
<1>2. PICK P2 : Closed(t, P2) /\ <<c2, F2, O2, k2, L2, W2>> \in P2  BY Zenon DEF Good
<1>. DEFINE P == P1 \cup P2
<1>3. Closed(t, P)  BY <1>1, <1>2, ClosedUnion, Zenon
<1>4. <<c1, F1, O1, k1, L1, W1>> \in P  BY <1>1, Zenon
<1>5. <<c2, F2, O2, k2, L2, W2>> \in P  BY <1>2, Zenon
<1>. HIDE DEF P
<1>. QED  BY <1>3, <1>4, <1>5, Zenon

\* The rules, one per call.
LEMMA GoodEnd ==
  ASSUME NEW t, NEW F, NEW O, NEW k, NEW L, NEW W, Final(t, F, O, k, L, W)
  PROVE  Good(t, <<>>, F, O, k, L, W)
<1>1. Closed(t, {})  BY Zenon DEF Closed
<1>2. IsSeq(<<>>)  BY EmptyFacts, OneFacts, Zenon
<1>3. Local(t, {}, <<>>, F, O, k, L, W)  BY <1>2, Zenon DEF Local
<1>. QED  BY <1>1, <1>3, GoodIntro, Zenon

LEMMA TryRule ==
  ASSUME NEW t, NEW F, NEW O, NEW k, NEW L, NEW W, NEW call, NEW f, NEW r,
         Good(t, r, F, O, k, L, W),
         Good(t, f, F, O, k, L, W \cup ({call} \cap WaitCalls))
  PROVE  Good(t, <<Try(call, f)>> \o r, F, O, k, L, W)
<1>. DEFINE c == <<Try(call, f)>> \o r
<1>1. IsSeq(r)  BY GoodSeq, Zenon
<1>2. IsSeq(c) /\ c # <<>> /\ Head(c) = Try(call, f) /\ Tail(c) = r
  BY <1>1, ConsFacts, Zenon
<1>3. PICK P : /\ Closed(t, P)
               /\ <<r, F, O, k, L, W>> \in P
               /\ <<f, F, O, k, L, W \cup ({call} \cap WaitCalls)>> \in P
  BY GoodPair, Zenon
<1>. HIDE DEF c
<1>4. Head(c).op = "try" /\ Head(c).call = call /\ Head(c).fail = f  BY <1>2 DEF Try
<1>5. Local(t, P, c, F, O, k, L, W)  BY <1>2, <1>3, <1>4, Zenon DEF Local
<1>. QED  BY <1>3, <1>5, GoodIntro, Zenon DEF c

LEMMA MakeRule ==
  ASSUME NEW t, NEW F, NEW O, NEW k, NEW L, NEW W, NEW o, NEW f, NEW O2, NEW r,
         t # "helper",
         o \in Objects,
         O2 = O \cup {o},
         Good(t, r, F, O2, k, L, W),
         Good(t, f, F, O, k, L, W)
  PROVE  Good(t, <<Make(o, f)>> \o r, F, O, k, L, W)
<1>. DEFINE c == <<Make(o, f)>> \o r
<1>1. IsSeq(r)  BY GoodSeq, Zenon
<1>2. IsSeq(c) /\ c # <<>> /\ Head(c) = Make(o, f) /\ Tail(c) = r
  BY <1>1, ConsFacts, Zenon
<1>3. PICK P : /\ Closed(t, P)
               /\ <<r, F, O2, k, L, W>> \in P
               /\ <<f, F, O, k, L, W>> \in P
  BY GoodPair, Zenon
<1>. HIDE DEF c
<1>4. Head(c).op = "make" /\ Head(c).obj = o /\ Head(c).fail = f  BY <1>2 DEF Make
<1>5. Local(t, P, c, F, O, k, L, W)  BY <1>2, <1>3, <1>4, Zenon DEF Local
<1>. QED  BY <1>3, <1>5, GoodIntro, Zenon DEF c

LEMMA DropRule ==
  ASSUME NEW t, NEW F, NEW O, NEW k, NEW L, NEW W, NEW o, NEW O2, NEW r,
         t # "helper",
         O2 = O \ {o},
         Good(t, r, F, O2, k, L, W)
  PROVE  Good(t, <<Drop(o)>> \o r, F, O, k, L, W)
<1>. DEFINE c == <<Drop(o)>> \o r
<1>1. IsSeq(r)  BY GoodSeq, Zenon
<1>2. IsSeq(c) /\ c # <<>> /\ Head(c) = Drop(o) /\ Tail(c) = r
  BY <1>1, ConsFacts, Zenon
<1>3. PICK P : Closed(t, P) /\ <<r, F, O2, k, L, W>> \in P
  BY Zenon DEF Good
<1>. HIDE DEF c
<1>4. Head(c).op = "drop" /\ Head(c).obj = o  BY <1>2 DEF Drop
<1>5. Local(t, P, c, F, O, k, L, W)  BY <1>2, <1>3, <1>4, Zenon DEF Local
<1>. QED  BY <1>3, <1>5, GoodIntro, Zenon DEF c

LEMMA PipeRule ==
  ASSUME NEW t, NEW F, NEW O, NEW k, NEW L, NEW W, NEW q, NEW f, NEW F2, NEW r,
         q \in PipeNames,
         F2 = F \cup ({q} \X {"R", "W"}),
         Good(t, r, F2, O, k, L, W),
         Good(t, f, F, O, k, L, W)
  PROVE  Good(t, <<Pipe(q, f)>> \o r, F, O, k, L, W)
<1>. DEFINE c == <<Pipe(q, f)>> \o r
<1>1. IsSeq(r)  BY GoodSeq, Zenon
<1>2. IsSeq(c) /\ c # <<>> /\ Head(c) = Pipe(q, f) /\ Tail(c) = r
  BY <1>1, ConsFacts, Zenon
<1>3. PICK P : /\ Closed(t, P)
               /\ <<r, F2, O, k, L, W>> \in P
               /\ <<f, F, O, k, L, W>> \in P
  BY GoodPair, Zenon
<1>. HIDE DEF c
<1>4. Head(c).op = "pipe" /\ Head(c).q = q /\ Head(c).fail = f  BY <1>2 DEF Pipe
<1>5. Local(t, P, c, F, O, k, L, W)  BY <1>2, <1>3, <1>4, Zenon DEF Local
<1>. QED  BY <1>3, <1>5, GoodIntro, Zenon DEF c

LEMMA CloseRule ==
  ASSUME NEW t, NEW F, NEW O, NEW k, NEW L, NEW W, NEW q, NEW d, NEW F2, NEW r,
         F2 = F \ {<<q, d>>},
         Good(t, r, F2, O, k, L, W)
  PROVE  Good(t, <<Close(q, d)>> \o r, F, O, k, L, W)
<1>. DEFINE c == <<Close(q, d)>> \o r
<1>1. IsSeq(r)  BY GoodSeq, Zenon
<1>2. IsSeq(c) /\ c # <<>> /\ Head(c) = Close(q, d) /\ Tail(c) = r
  BY <1>1, ConsFacts, Zenon
<1>3. PICK P : Closed(t, P) /\ <<r, F2, O, k, L, W>> \in P
  BY Zenon DEF Good
<1>. HIDE DEF c
<1>4. Head(c).op = "close" /\ Head(c).fd = <<q, d>>  BY <1>2 DEF Close
<1>5. Local(t, P, c, F, O, k, L, W)  BY <1>2, <1>3, <1>4, Zenon DEF Local
<1>. QED  BY <1>3, <1>5, GoodIntro, Zenon DEF c

LEMMA ForkRule ==
  ASSUME NEW t, NEW F, NEW O, NEW k, NEW L, NEW W, NEW ch, NEW f, NEW r,
         SubOk(Level(t), ch),
         Good(t, r, F, O, "forked", L, W),
         Good(t, f, F, O, k, L, W)
  PROVE  Good(t, <<Fork(ch, f)>> \o r, F, O, k, L, W)
<1>. DEFINE c == <<Fork(ch, f)>> \o r
<1>1. IsSeq(r)  BY GoodSeq, Zenon
<1>2. IsSeq(c) /\ c # <<>> /\ Head(c) = Fork(ch, f) /\ Tail(c) = r
  BY <1>1, ConsFacts, Zenon
<1>3. PICK P : /\ Closed(t, P)
               /\ <<r, F, O, "forked", L, W>> \in P
               /\ <<f, F, O, k, L, W>> \in P
  BY GoodPair, Zenon
<1>. HIDE DEF c
<1>4. Head(c).op = "fork" /\ Head(c).child = ch /\ Head(c).fail = f  BY <1>2 DEF Fork
<1>5. Local(t, P, c, F, O, k, L, W)  BY <1>2, <1>3, <1>4, Zenon DEF Local
<1>. QED  BY <1>3, <1>5, GoodIntro, Zenon DEF c

LEMMA SendRule ==
  ASSUME NEW t, NEW F, NEW O, NEW k, NEW L, NEW W, NEW q, NEW m, NEW r,
         t # "helper",
         Good(t, r, F, O, k, L, W)
  PROVE  Good(t, <<Send(q, m)>> \o r, F, O, k, L, W)
<1>. DEFINE c == <<Send(q, m)>> \o r
<1>1. IsSeq(r)  BY GoodSeq, Zenon
<1>2. IsSeq(c) /\ c # <<>> /\ Head(c) = Send(q, m) /\ Tail(c) = r
  BY <1>1, ConsFacts, Zenon
<1>3. PICK P : Closed(t, P) /\ <<r, F, O, k, L, W>> \in P
  BY Zenon DEF Good
<1>. HIDE DEF c
<1>4. Head(c).op = "send"  BY <1>2 DEF Send, SendAny
<1>5. Local(t, P, c, F, O, k, L, W)  BY <1>2, <1>3, <1>4, Zenon DEF Local
<1>. QED  BY <1>3, <1>5, GoodIntro, Zenon DEF c

LEMMA RecvRule ==
  ASSUME NEW t, NEW F, NEW O, NEW k, NEW L, NEW W, NEW q, NEW f, NEW r,
         Good(t, r, F, O, k, L, W),
         Good(t, f, F, O, k, L, W)
  PROVE  Good(t, <<Recv(q, f)>> \o r, F, O, k, L, W)
<1>. DEFINE c == <<Recv(q, f)>> \o r
<1>1. IsSeq(r)  BY GoodSeq, Zenon
<1>2. IsSeq(c) /\ c # <<>> /\ Head(c) = Recv(q, f) /\ Tail(c) = r
  BY <1>1, ConsFacts, Zenon
<1>3. PICK P : /\ Closed(t, P)
               /\ <<r, F, O, k, L, W>> \in P
               /\ <<f, F, O, k, L, W>> \in P
  BY GoodPair, Zenon
<1>. HIDE DEF c
<1>4. Head(c).op = "recv" /\ Head(c).none = f  BY <1>2 DEF Recv
<1>5. Local(t, P, c, F, O, k, L, W)  BY <1>2, <1>3, <1>4, Zenon DEF Local
<1>. QED  BY <1>3, <1>5, GoodIntro, Zenon DEF c

LEMMA ReportRule ==
  ASSUME NEW t, NEW F, NEW O, NEW k, NEW L, NEW W, NEW res, NEW r,
         res \in Result,
         Good(t, r, F, O, k, Append(L, res), W)
  PROVE  Good(t, <<Report(res)>> \o r, F, O, k, L, W)
<1>. DEFINE c == <<Report(res)>> \o r
<1>1. IsSeq(r)  BY GoodSeq, Zenon
<1>2. IsSeq(c) /\ c # <<>> /\ Head(c) = Report(res) /\ Tail(c) = r
  BY <1>1, ConsFacts, Zenon
<1>3. PICK P : Closed(t, P) /\ <<r, F, O, k, Append(L, res), W>> \in P
  BY Zenon DEF Good
<1>. HIDE DEF c
<1>4. Head(c).op = "report" /\ Head(c).res = res  BY <1>2 DEF Report
<1>5. Local(t, P, c, F, O, k, L, W)  BY <1>2, <1>3, <1>4, Zenon DEF Local
<1>. QED  BY <1>3, <1>5, GoodIntro, Zenon DEF c

LEMMA WaitRule ==
  ASSUME NEW t, NEW F, NEW O, NEW k, NEW L, NEW W, NEW r,
         Good(t, r, F, O, "reaped", L, W)
  PROVE  Good(t, <<Wait>> \o r, F, O, k, L, W)
<1>. DEFINE c == <<Wait>> \o r
<1>1. IsSeq(r)  BY GoodSeq, Zenon
<1>2. IsSeq(c) /\ c # <<>> /\ Head(c) = Wait /\ Tail(c) = r
  BY <1>1, ConsFacts, Zenon
<1>3. PICK P : Closed(t, P) /\ <<r, F, O, "reaped", L, W>> \in P
  BY Zenon DEF Good
<1>. HIDE DEF c
<1>4. Head(c).op = "wait"  BY <1>2 DEF Wait, Op
<1>5. Local(t, P, c, F, O, k, L, W)  BY <1>2, <1>3, <1>4, Zenon DEF Local
<1>. QED  BY <1>3, <1>5, GoodIntro, Zenon DEF c

LEMMA WaitOkRule ==
  ASSUME NEW t, NEW F, NEW O, NEW k, NEW L, NEW W, NEW f, NEW r,
         t # "helper",
         Good(t, r, F, O, "reaped", L, W),
         Good(t, f, F, O, "reaped", L, W)
  PROVE  Good(t, <<WaitOk(f)>> \o r, F, O, k, L, W)
<1>. DEFINE c == <<WaitOk(f)>> \o r
<1>1. IsSeq(r)  BY GoodSeq, Zenon
<1>2. IsSeq(c) /\ c # <<>> /\ Head(c) = WaitOk(f) /\ Tail(c) = r
  BY <1>1, ConsFacts, Zenon
<1>3. PICK P : /\ Closed(t, P)
               /\ <<r, F, O, "reaped", L, W>> \in P
               /\ <<f, F, O, "reaped", L, W>> \in P
  BY GoodPair, Zenon
<1>. HIDE DEF c
<1>4. Head(c).op = "waitok" /\ Head(c).fail = f  BY <1>2 DEF WaitOk
<1>5. Local(t, P, c, F, O, k, L, W)  BY <1>2, <1>3, <1>4, Zenon DEF Local
<1>. QED  BY <1>3, <1>5, GoodIntro, Zenon DEF c

LEMMA WaitStopRule ==
  ASSUME NEW t, NEW F, NEW O, NEW k, NEW L, NEW W, NEW f, NEW r,
         t # "helper",
         Good(t, r, F, O, k, L, W),
         Good(t, f, F, O, "reaped", L, W)
  PROVE  Good(t, <<WaitStop(f)>> \o r, F, O, k, L, W)
<1>. DEFINE c == <<WaitStop(f)>> \o r
<1>1. IsSeq(r)  BY GoodSeq, Zenon
<1>2. IsSeq(c) /\ c # <<>> /\ Head(c) = WaitStop(f) /\ Tail(c) = r
  BY <1>1, ConsFacts, Zenon
<1>3. PICK P : /\ Closed(t, P)
               /\ <<r, F, O, k, L, W>> \in P
               /\ <<f, F, O, "reaped", L, W>> \in P
  BY GoodPair, Zenon
<1>. HIDE DEF c
<1>4. Head(c).op = "waitstop" /\ Head(c).fail = f  BY <1>2 DEF WaitStop
<1>5. Local(t, P, c, F, O, k, L, W)  BY <1>2, <1>3, <1>4, Zenon DEF Local
<1>. QED  BY <1>3, <1>5, GoodIntro, Zenon DEF c

LEMMA OnRule ==
  ASSUME NEW t, NEW F, NEW O, NEW k, NEW L, NEW W, NEW m, NEW f, NEW r,
         Good(t, r, F, O, k, L, W),
         Good(t, f, F, O, k, L, W)
  PROVE  Good(t, <<On(m, f)>> \o r, F, O, k, L, W)
<1>. DEFINE c == <<On(m, f)>> \o r
<1>1. IsSeq(r)  BY GoodSeq, Zenon
<1>2. IsSeq(c) /\ c # <<>> /\ Head(c) = On(m, f) /\ Tail(c) = r
  BY <1>1, ConsFacts, Zenon
<1>3. PICK P : /\ Closed(t, P)
               /\ <<r, F, O, k, L, W>> \in P
               /\ <<f, F, O, k, L, W>> \in P
  BY GoodPair, Zenon
<1>. HIDE DEF c
<1>4. Head(c).op = "on" /\ Head(c).then = f  BY <1>2 DEF On
<1>5. Local(t, P, c, F, O, k, L, W)  BY <1>2, <1>3, <1>4, Zenon DEF Local
<1>. QED  BY <1>3, <1>5, GoodIntro, Zenon DEF c

LEMMA ObserveRule ==
  ASSUME NEW t, NEW F, NEW O, NEW k, NEW L, NEW W, NEW e, NEW f, NEW r,
         Good(t, r, F, O, k, L, W),
         Good(t, f, F, O, k, L, W)
  PROVE  Good(t, <<Observe(e, f)>> \o r, F, O, k, L, W)
<1>. DEFINE c == <<Observe(e, f)>> \o r
<1>1. IsSeq(r)  BY GoodSeq, Zenon
<1>2. IsSeq(c) /\ c # <<>> /\ Head(c) = Observe(e, f) /\ Tail(c) = r
  BY <1>1, ConsFacts, Zenon
<1>3. PICK P : /\ Closed(t, P)
               /\ <<r, F, O, k, L, W>> \in P
               /\ <<f, F, O, k, L, W>> \in P
  BY GoodPair, Zenon
<1>. HIDE DEF c
<1>4. Head(c).op = "observe" /\ Head(c).then = f  BY <1>2 DEF Observe
<1>5. Local(t, P, c, F, O, k, L, W)  BY <1>2, <1>3, <1>4, Zenon DEF Local
<1>. QED  BY <1>3, <1>5, GoodIntro, Zenon DEF c

LEMMA ContRule ==
  ASSUME NEW t, NEW F, NEW O, NEW k, NEW L, NEW W, NEW f, NEW r,
         t # "helper",
         Good(t, r, F, O, k, L, W),
         Good(t, f, F, O, k, L, W)
  PROVE  Good(t, <<Cont(f)>> \o r, F, O, k, L, W)
<1>. DEFINE c == <<Cont(f)>> \o r
<1>1. IsSeq(r)  BY GoodSeq, Zenon
<1>2. IsSeq(c) /\ c # <<>> /\ Head(c) = Cont(f) /\ Tail(c) = r
  BY <1>1, ConsFacts, Zenon
<1>3. PICK P : /\ Closed(t, P)
               /\ <<r, F, O, k, L, W>> \in P
               /\ <<f, F, O, k, L, W>> \in P
  BY GoodPair, Zenon
<1>. HIDE DEF c
<1>4. Head(c).op = "cont" /\ Head(c).fail = f  BY <1>2 DEF Cont
<1>5. Local(t, P, c, F, O, k, L, W)  BY <1>2, <1>3, <1>4, Zenon DEF Local
<1>. QED  BY <1>3, <1>5, GoodIntro, Zenon DEF c

LEMMA OpRule ==
  ASSUME NEW t, NEW F, NEW O, NEW k, NEW L, NEW W, NEW n, NEW r,
         t # "helper",
         n \in {"sigkill", "poll"},
         Good(t, r, F, O, k, L, W)
  PROVE  Good(t, <<Op(n)>> \o r, F, O, k, L, W)
<1>. DEFINE c == <<Op(n)>> \o r
<1>1. IsSeq(r)  BY GoodSeq, Zenon
<1>2. IsSeq(c) /\ c # <<>> /\ Head(c) = Op(n) /\ Tail(c) = r
  BY <1>1, ConsFacts, Zenon
<1>3. PICK P : Closed(t, P) /\ <<r, F, O, k, L, W>> \in P
  BY Zenon DEF Good
<1>. HIDE DEF c
<1>4. Head(c).op = n  BY <1>2 DEF Op
<1>5. Local(t, P, c, F, O, k, L, W)  BY <1>2, <1>3, <1>4, Zenon DEF Local
<1>. QED  BY <1>3, <1>5, GoodIntro, Zenon DEF c

\* The rules of children.  Every call of a script is made under one set J.
LEMMA PlainMono ==
  ASSUME NEW J, NEW K, J \subseteq K, NEW i, PlainCall(J, i)
  PROVE  PlainCall(K, i)
<1>1. Seq(J) \subseteq Seq(K)  OBVIOUS
<1>. QED  BY <1>1, Zenon DEF PlainCall

LEMMA SubUnion ==
  ASSUME NEW k, NEW J, NEW K, SubDisc(k, J), SubDisc(k, K)
  PROVE  SubDisc(k, J \cup K)
<1>. DEFINE U == J \cup K
<1>1. J \subseteq U /\ K \subseteq U /\ Seq(J) \subseteq Seq(U) /\ Seq(K) \subseteq Seq(U)
  OBVIOUS
<1>2. ASSUME NEW i \in J  PROVE SubCall(k, U, i)
  BY <1>1, PlainMono, SubCall(k, J, i), Zenon DEF SubDisc, SubCall
<1>3. ASSUME NEW i \in K  PROVE SubCall(k, U, i)
  BY <1>1, PlainMono, SubCall(k, K, i), Zenon DEF SubDisc, SubCall
<1>. QED  BY <1>2, <1>3, Zenon DEF SubDisc

\* One script after the other.
LEMMA SubCat ==
  ASSUME NEW k, NEW a, NEW b, SubOk(k, a), SubOk(k, b)
  PROVE  SubOk(k, a \o b)
<1>1. PICK J : SubDisc(k, J) /\ a \in Seq(J)  BY Zenon DEF SubOk
<1>2. PICK K : SubDisc(k, K) /\ b \in Seq(K)  BY Zenon DEF SubOk
<1>. DEFINE U == J \cup K
<1>3. SubDisc(k, U)  BY <1>1, <1>2, SubUnion, Zenon
<1>4. a \o b \in Seq(U)
  <2>1. a \in Seq(U) /\ b \in Seq(U)  BY <1>1, <1>2
  <2>. QED  BY <2>1
<1>. HIDE DEF U
<1>. QED  BY <1>3, <1>4, Zenon DEF SubOk

LEMMA SubEmpty == ASSUME NEW k PROVE SubOk(k, <<>>)
<1>1. SubDisc(k, {}) /\ <<>> \in Seq({})  BY DEF SubDisc
<1>. QED  BY <1>1, Zenon DEF SubOk

\* A script of one call, whose other way out is the script f.
LEMMA SubOne ==
  ASSUME NEW k, NEW i, NEW f, SubOk(k, f),
         \A J : f \in Seq(J) /\ i \in J => SubCall(k, J, i)
  PROVE  SubOk(k, <<i>>)
<1>1. PICK J : SubDisc(k, J) /\ f \in Seq(J)  BY Zenon DEF SubOk
<1>. DEFINE U == J \cup {i}
<1>2. J \subseteq U /\ Seq(J) \subseteq Seq(U) /\ i \in U /\ <<i>> \in Seq(U)  OBVIOUS
<1>3. ASSUME NEW j \in J  PROVE SubCall(k, U, j)
  BY <1>1, <1>2, PlainMono, SubCall(k, J, j), Zenon DEF SubDisc, SubCall
<1>4. SubCall(k, U, i)  BY <1>1, <1>2, Zenon
<1>5. SubDisc(k, U)  BY <1>3, <1>4, Zenon DEF SubDisc
<1>. HIDE DEF U
<1>. QED  BY <1>2, <1>5, Zenon DEF SubOk

LEMMA SubTry == ASSUME NEW k, NEW call, call \notin WaitCalls, NEW f, SubOk(k, f)
  PROVE  SubOk(k, <<Try(call, f)>>)
<1>1. Try(call, f).op = "try" /\ Try(call, f).call = call /\ Try(call, f).fail = f
  BY DEF Try
<1>. QED  BY <1>1, SubOne, Zenon DEF SubCall, PlainCall

LEMMA SubMake == ASSUME NEW k, NEW f, SubOk(k, f) PROVE SubOk(k, <<Make("tmpdir", f)>>)
<1>. DEFINE i == Make("tmpdir", f)
<1>1. i.op = "make" /\ i.obj = "tmpdir" /\ i.fail = f  BY DEF Make
<1>. HIDE DEF i
<1>2. SubOk(k, <<i>>)  BY <1>1, SubOne, Zenon DEF SubCall, PlainCall
<1>. QED  BY <1>2 DEF i

LEMMA SubPipe == ASSUME NEW k, NEW q \in PipeNames, NEW f, SubOk(k, f)
  PROVE  SubOk(k, <<Pipe(q, f)>>)
<1>1. Pipe(q, f).op = "pipe" /\ Pipe(q, f).q = q /\ Pipe(q, f).fail = f  BY DEF Pipe
<1>. QED  BY <1>1, SubOne, Zenon DEF SubCall, PlainCall

LEMMA SubRecv == ASSUME NEW k, NEW q, NEW f, SubOk(k, f) PROVE SubOk(k, <<Recv(q, f)>>)
<1>1. Recv(q, f).op = "recv" /\ Recv(q, f).none = f  BY DEF Recv
<1>. QED  BY <1>1, SubOne, Zenon DEF SubCall, PlainCall

LEMMA SubObserve == ASSUME NEW k, NEW e, NEW f, SubOk(k, f)
  PROVE  SubOk(k, <<Observe(e, f)>>)
<1>1. Observe(e, f).op = "observe" /\ Observe(e, f).then = f  BY DEF Observe
<1>. QED  BY <1>1, SubOne, Zenon DEF SubCall, PlainCall

LEMMA SubClose == ASSUME NEW k, NEW q, NEW d PROVE SubOk(k, <<Close(q, d)>>)
<1>1. Close(q, d).op = "close"  BY DEF Close
<1>. QED  BY <1>1, SubEmpty, SubOne, Zenon DEF SubCall, PlainCall

LEMMA SubSend == ASSUME NEW k, NEW q, NEW ms PROVE SubOk(k, <<SendAny(q, ms)>>)
<1>1. SendAny(q, ms).op = "send"  BY DEF SendAny
<1>. QED  BY <1>1, SubEmpty, SubOne, Zenon DEF SubCall, PlainCall

LEMMA SubExit == ASSUME NEW k, NEW n \in Status PROVE SubOk(k, <<Exit(n)>>)
<1>1. Exit(n).op = "exit" /\ Exit(n).status = n  BY DEF Exit
<1>. QED  BY <1>1, SubEmpty, SubOne, Zenon DEF SubCall, PlainCall

LEMMA SubOp == ASSUME NEW k, NEW n \in {"wait", "stop"} PROVE SubOk(k, <<Op(n)>>)
<1>1. Op(n).op \in {"wait", "stop"}  BY DEF Op
<1>. QED  BY <1>1, SubEmpty, SubOne, Zenon DEF SubCall, PlainCall

\* The loop around pause().
LEMMA SubCheck == ASSUME NEW k PROVE SubOk(k, <<Op("check")>>)
<1>. DEFINE J == {Op("check"), Op("enter"), Op("pause")}
<1>1. \A i \in J : i.op \in {"check", "enter", "pause"}  BY DEF Op
<1>2. SubDisc(k, J)  BY <1>1, Zenon DEF SubDisc, SubCall, PlainCall
<1>3. <<Op("check")>> \in Seq(J)  OBVIOUS
<1>. HIDE DEF J
<1>. QED  BY <1>2, <1>3, Zenon DEF SubOk

LEMMA SubKill == ASSUME NEW f, SubOk("child", f) PROVE SubOk("child", <<Kill(f)>>)
<1>1. Kill(f).op = "kill" /\ Kill(f).fail = f  BY DEF Kill
<1>. QED  BY <1>1, SubOne, Zenon DEF SubCall

LEMMA SubGrand == ASSUME NEW c, SubOk("grand", c) PROVE GrandOk(c)
<1>1. "grand" # "child"  OBVIOUS
<1>. QED  BY <1>1, Zenon DEF SubOk, SubDisc, SubCall, GrandOk

LEMMA SubFork == ASSUME NEW ch, SubOk("grand", ch), NEW f, SubOk("child", f)
  PROVE  SubOk("child", <<Fork(ch, f)>>)
<1>1. Fork(ch, f).op = "fork" /\ Fork(ch, f).fail = f /\ Fork(ch, f).child = ch
  BY DEF Fork
<1>2. GrandOk(ch)  BY SubGrand
<1>. QED  BY <1>1, <1>2, SubOne, Zenon DEF SubCall

-----------------------------------------------------------------------------
(* Part 2: the tests. *)

\* A child's script is in order when each of its calls is.
LEMMA SubTuple2 ==
  ASSUME NEW k, NEW a, NEW b,
         SubOk(k, <<a>>), SubOk(k, <<b>>)
  PROVE  SubOk(k, <<a, b>>)
<1>1. SubOk(k, <<b>>)  OBVIOUS
<1>2. SubOk(k, <<a>> \o <<b>>)  BY <1>1, SubCat, Zenon
<1>3. <<a, b>> = <<a>> \o <<b>>  BY PairCat
<1>. QED  BY <1>2, <1>3, Zenon

LEMMA SubTuple3 ==
  ASSUME NEW k, NEW a, NEW b, NEW c,
         SubOk(k, <<a>>), SubOk(k, <<b>>), SubOk(k, <<c>>)
  PROVE  SubOk(k, <<a, b, c>>)
<1>1. SubOk(k, <<b, c>>)  BY SubTuple2, Zenon
<1>2. SubOk(k, <<a>> \o <<b, c>>)  BY <1>1, SubCat, Zenon
<1>3. <<a, b, c>> = <<a>> \o <<b, c>>  OBVIOUS
<1>. QED  BY <1>2, <1>3, Zenon

LEMMA SubTuple4 ==
  ASSUME NEW k, NEW a, NEW b, NEW c, NEW d,
         SubOk(k, <<a>>), SubOk(k, <<b>>), SubOk(k, <<c>>), SubOk(k, <<d>>)
  PROVE  SubOk(k, <<a, b, c, d>>)
<1>1. SubOk(k, <<b, c, d>>)  BY SubTuple3, Zenon
<1>2. SubOk(k, <<a>> \o <<b, c, d>>)  BY <1>1, SubCat, Zenon
<1>3. <<a, b, c, d>> = <<a>> \o <<b, c, d>>  OBVIOUS
<1>. QED  BY <1>2, <1>3, Zenon

LEMMA SubTuple5 ==
  ASSUME NEW k, NEW a, NEW b, NEW c, NEW d, NEW e,
         SubOk(k, <<a>>), SubOk(k, <<b>>), SubOk(k, <<c>>), SubOk(k, <<d>>),
         SubOk(k, <<e>>)
  PROVE  SubOk(k, <<a, b, c, d, e>>)
<1>1. SubOk(k, <<b, c, d, e>>)  BY SubTuple4, Zenon
<1>2. SubOk(k, <<a>> \o <<b, c, d, e>>)  BY <1>1, SubCat, Zenon
<1>3. <<a, b, c, d, e>> = <<a>> \o <<b, c, d, e>>  OBVIOUS
<1>. QED  BY <1>2, <1>3, Zenon

LEMMA SubTuple6 ==
  ASSUME NEW k, NEW a, NEW b, NEW c, NEW d, NEW e, NEW f,
         SubOk(k, <<a>>), SubOk(k, <<b>>), SubOk(k, <<c>>), SubOk(k, <<d>>),
         SubOk(k, <<e>>), SubOk(k, <<f>>)
  PROVE  SubOk(k, <<a, b, c, d, e, f>>)
<1>1. SubOk(k, <<b, c, d, e, f>>)  BY SubTuple5, Zenon
<1>2. SubOk(k, <<a>> \o <<b, c, d, e, f>>)  BY <1>1, SubCat, Zenon
<1>3. <<a, b, c, d, e, f>> = <<a>> \o <<b, c, d, e, f>>  OBVIOUS
<1>. QED  BY <1>2, <1>3, Zenon

LEMMA SubTuple7 ==
  ASSUME NEW k, NEW a, NEW b, NEW c, NEW d, NEW e, NEW f, NEW g,
         SubOk(k, <<a>>), SubOk(k, <<b>>), SubOk(k, <<c>>), SubOk(k, <<d>>),
         SubOk(k, <<e>>), SubOk(k, <<f>>), SubOk(k, <<g>>)
  PROVE  SubOk(k, <<a, b, c, d, e, f, g>>)
<1>1. SubOk(k, <<b, c, d, e, f, g>>)  BY SubTuple6, Zenon
<1>2. SubOk(k, <<a>> \o <<b, c, d, e, f, g>>)  BY <1>1, SubCat, Zenon
<1>3. <<a, b, c, d, e, f, g>> = <<a>> \o <<b, c, d, e, f, g>>  OBVIOUS
<1>. QED  BY <1>2, <1>3, Zenon

LEMMA SubTuple8 ==
  ASSUME NEW k, NEW a, NEW b, NEW c, NEW d, NEW e, NEW f, NEW g, NEW h,
         SubOk(k, <<a>>), SubOk(k, <<b>>), SubOk(k, <<c>>), SubOk(k, <<d>>),
         SubOk(k, <<e>>), SubOk(k, <<f>>), SubOk(k, <<g>>), SubOk(k, <<h>>)
  PROVE  SubOk(k, <<a, b, c, d, e, f, g, h>>)
<1>1. SubOk(k, <<b, c, d, e, f, g, h>>)  BY SubTuple7, Zenon
<1>2. SubOk(k, <<a>> \o <<b, c, d, e, f, g, h>>)  BY <1>1, SubCat, Zenon
<1>3. <<a, b, c, d, e, f, g, h>> = <<a>> \o <<b, c, d, e, f, g, h>>  OBVIOUS
<1>. QED  BY <1>2, <1>3, Zenon

LEMMA SubSendErr == ASSUME NEW k PROVE SubOk(k, SendErr)
BY SubSend, Zenon DEF SendErr, Send

LEMMA SubSend1 == ASSUME NEW k, NEW q, NEW m PROVE SubOk(k, <<Send(q, m)>>)
BY SubSend, Zenon DEF Send

LEMMA SubWait == ASSUME NEW k PROVE SubOk(k, <<Wait>>)
BY SubOp DEF Wait

\* A call whose failure is reported as an error.
LEMMA SubTryErr == ASSUME NEW k, NEW call, call \notin WaitCalls
  PROVE  SubOk(k, <<Try(call, SendErr)>>)
BY SubTry, SubSendErr, Zenon

LEMMA SubTrySend == ASSUME NEW k, NEW call, call \notin WaitCalls, NEW m
  PROVE  SubOk(k, <<Try(call, <<Send("r", m)>>)>>)
BY SubTry, SubSend1, Zenon

LEMMA SubSeen == ASSUME NEW k PROVE SubOk(k, SendSeen)
<1>1. SubOk(k, <<Observe("full", <<Send("r", "good")>>)>>)  BY SubSend1, SubObserve, Zenon
<1>2. SubOk(k, <<Send("r", "bad")>>)  BY SubSend1, Zenon
<1>. QED  BY <1>1, <1>2, SubTuple2, Zenon DEF SendSeen

\* The name of a call that waits for nobody.
LEMMA Names ==
  /\ "unshare" \notin WaitCalls /\ "sethostname" \notin WaitCalls /\ "mount" \notin WaitCalls
  /\ "opendir" \notin WaitCalls /\ "setsid" \notin WaitCalls /\ "open" \notin WaitCalls
  /\ "readlink" \notin WaitCalls /\ "setuid" \notin WaitCalls
  /\ "getresuid" \notin WaitCalls /\ "semget" \notin WaitCalls /\ "semop" \notin WaitCalls
  /\ "mkdir" \notin WaitCalls /\ "umount2" \notin WaitCalls /\ "traceme" \notin WaitCalls
BY DEF WaitCalls

LEMMA SubPid == ASSUME NEW init, SubOk("grand", init) PROVE SubOk("child", PidChild(init))
<1>1. SubOk("child", <<Try("unshare", SendErr)>>)  BY Names, SubTryErr, Zenon
<1>2. SubOk("child", <<Fork(init, SendErr)>>)  BY SubFork, SubSendErr, Zenon
<1>3. SubOk("child", <<Wait>>)  BY SubWait, Zenon
<1>. QED  BY <1>1, <1>2, <1>3, SubTuple3, Zenon DEF PidChild

\* The children of the tests, in the order of the source.
LEMMA SubUts == SubOk("child", utsChild)
<1>1. SubOk("child", <<Try("unshare", SendErr)>>)  BY Names, SubTryErr, Zenon
<1>2. SubOk("child", <<Try("sethostname", SendErr)>>)  BY Names, SubTryErr, Zenon
<1>. QED  BY <1>1, <1>2, SubSend1, SubTuple3, Zenon DEF utsChild

LEMMA SubPidInit ==
  SubOk("grand", <<Observe("none", <<Send("r", "notone")>>),
                   Try("mount", <<Send("r", "nofresh")>>),
                   Try("open", <<Send("r", "bad")>>),
                   Observe("exposed", <<Send("r", "bad")>>),
                   Try("opendir", <<Send("r", "good")>>),
                   Observe("leaky", <<Send("r", "bad")>>),
                   Send("r", "good")>>)
<1>1. SubOk("grand", <<Observe("none", <<Send("r", "notone")>>)>>)
  BY SubSend1, SubObserve, Zenon
<1>2. SubOk("grand", <<Try("mount", <<Send("r", "nofresh")>>)>>)  BY Names, SubTrySend, Zenon
<1>3. SubOk("grand", <<Observe("exposed", <<Send("r", "bad")>>)>>)
  BY SubSend1, SubObserve, Zenon
<1>4. SubOk("grand", <<Try("opendir", <<Send("r", "good")>>)>>)  BY Names, SubTrySend, Zenon
<1>5. SubOk("grand", <<Observe("leaky", <<Send("r", "bad")>>)>>)
  BY SubSend1, SubObserve, Zenon
<1>6. SubOk("grand", <<Send("r", "good")>>)  BY SubSend1, Zenon
<1>7. SubOk("grand", <<Try("open", <<Send("r", "bad")>>)>>)  BY Names, SubTrySend, Zenon
<1>. QED  BY <1>1, <1>2, <1>7, <1>3, <1>4, <1>5, <1>6, SubTuple7, Zenon

LEMMA SubContent == SubOk("grand", contentInit)
<1>1. SubOk("grand", <<Try("setsid", SendErr)>>)  BY Names, SubTryErr, Zenon
<1>2. SubOk("grand", <<Try("mount", <<Send("r", "nofresh")>>)>>)  BY Names, SubTrySend, Zenon
<1>3. SubOk("grand", <<Try("open", <<Send("r", "bad")>>)>>)  BY Names, SubTrySend, Zenon
<1>4. SubOk("grand", <<Try("setsid", SendErr), Try("mount", <<Send("r", "nofresh")>>),
                       Try("open", <<Send("r", "bad")>>)>>)
  BY <1>1, <1>2, <1>3, SubTuple3, Zenon
<1>. QED  BY <1>4, SubSeen, SubCat, Zenon DEF contentInit

LEMMA SubPgrp == SubOk("grand", <<Try("setsid", SendErr)>> \o SendSeen)
<1>1. SubOk("grand", <<Try("setsid", SendErr)>>)  BY Names, SubTryErr, Zenon
<1>. QED  BY <1>1, SubSeen, SubCat, Zenon

LEMMA SubSignalGrand == SubOk("grand", signalGrand)
<1>1. SubOk("grand", <<Close("s", "R")>>)  BY SubClose, Zenon
<1>2. SubOk("grand", <<Send("s", "OK")>>)  BY SubSend1, Zenon
<1>3. SubOk("grand", <<Send("s", "received")>>)  BY SubSend1, Zenon
<1>. QED  BY <1>1, <1>2, <1>3, SubCheck, SubTuple4, Zenon DEF signalGrand

LEMMA SubSignalTail == SubOk("child", signalTail)
<1>1. SubOk("child", <<Close("s", "R")>>)  BY SubClose, Zenon
<1>. QED  BY <1>1, SubWait, SubTuple2, Zenon DEF signalTail

LEMMA SubSignal == SubOk("child", signalChild)
<1>1. SubOk("child", <<Try("unshare", SendErr)>>)  BY Names, SubTryErr, Zenon
<1>2. SubOk("child", <<Pipe("s", SendErr)>>)  BY SubPipe, SubSendErr DEF PipeNames
<1>3. SubOk("child", <<Fork(signalGrand, SendErr)>>)
  BY SubFork, SubSendErr, SubSignalGrand, Zenon
<1>4. SubOk("child", <<Close("s", "W")>>)  BY SubClose, Zenon
<1>5. SubOk("child", SendErr \o signalTail)  BY SubSendErr, SubSignalTail, SubCat, Zenon
<1>6. SubOk("child", <<Recv("s", SendErr \o signalTail)>>)  BY <1>5, SubRecv, Zenon
<1>7. SubOk("child", <<Kill(SendErr \o signalTail)>>)  BY <1>5, SubKill, Zenon
<1>8. SubOk("child", <<Send("r", "undelivered")>> \o signalTail)
  BY SubSend1, SubSignalTail, SubCat, Zenon
<1>9. SubOk("child", <<Recv("s", <<Send("r", "undelivered")>> \o signalTail)>>)
  BY <1>8, SubRecv, Zenon
<1>10. SubOk("child", <<Send("r", "delivered")>>)  BY SubSend1, Zenon
<1>11. SubOk("child", <<Try("unshare", SendErr), Pipe("s", SendErr),
                        Fork(signalGrand, SendErr), Close("s", "W"),
                        Recv("s", SendErr \o signalTail), Kill(SendErr \o signalTail),
                        Recv("s", <<Send("r", "undelivered")>> \o signalTail),
                        Send("r", "delivered")>>)
  BY <1>1, <1>2, <1>3, <1>4, <1>6, <1>7, <1>9, <1>10, SubTuple8, Zenon
<1>. QED  BY <1>11, SubSignalTail, SubCat, Zenon DEF signalChild

LEMMA SubGeneric == SubOk("child", nsChild)
<1>1. SubOk("child", <<Try("unshare", SendErr)>>)  BY Names, SubTryErr, Zenon
<1>2. SubOk("child", <<Try("readlink", <<Send("r", "noid")>>)>>)  BY Names, SubTrySend, Zenon
<1>3. SubOk("child", <<Try("unshare", SendErr), Try("readlink", <<Send("r", "noid")>>)>>)
  BY <1>1, <1>2, SubTuple2, Zenon
<1>. QED  BY <1>3, SubSeen, SubCat, Zenon DEF nsChild

LEMMA SubUser == ASSUME NEW k PROVE SubOk(k, <<Try("unshare", SendErr)>> \o SendSeen)
<1>1. SubOk(k, <<Try("unshare", SendErr)>>)  BY Names, SubTryErr, Zenon
<1>. QED  BY <1>1, SubSeen, SubCat, Zenon

LEMMA SubIdmap ==
  ASSUME NEW setuid, SubOk("child", setuid) PROVE SubOk("child", idmapChild(setuid))
<1>1. SubOk("child", <<Close("r", "R"), Close("s", "W")>>)  BY SubClose, SubTuple2, Zenon
<1>2. SubOk("child", <<Try("unshare", <<SendAny("r", {"ERR", "ENOENT"})>>)>>)
  BY Names, SubSend, SubTry, Zenon
<1>3. SubOk("child", <<Send("r", "ready")>>)  BY SubSend1, Zenon
<1>4. SubOk("child", <<Recv("s", SendErr)>>)  BY SubRecv, SubSendErr, Zenon
<1>5. SubOk("child", <<Close("s", "R")>>)  BY SubClose, Zenon
<1>6. SubOk("child", <<Try("getresuid", SendErr)>>)  BY Names, SubTryErr, Zenon
<1>7. SubOk("child", <<Try("unshare", <<SendAny("r", {"ERR", "ENOENT"})>>),
                       Send("r", "ready"), Recv("s", SendErr), Close("s", "R"),
                       Try("getresuid", SendErr)>>)
  BY <1>2, <1>3, <1>4, <1>5, <1>6, SubTuple5, Zenon
<1>8. SubOk("child", <<Close("r", "R"), Close("s", "W")>> \o setuid)
  BY <1>1, SubCat, Zenon
<1>9. SubOk("child", (<<Close("r", "R"), Close("s", "W")>> \o setuid)
                     \o <<Try("unshare", <<SendAny("r", {"ERR", "ENOENT"})>>),
                          Send("r", "ready"), Recv("s", SendErr), Close("s", "R"),
                          Try("getresuid", SendErr)>>)
  BY <1>7, <1>8, SubCat, Zenon
<1>. QED  BY <1>9, SubSeen, SubCat, Zenon DEF idmapChild

LEMMA OneStatus == {"one"} \in Status
BY Zenon DEF Status

LEMMA SubNewipc ==
  SubOk("child", <<Observe("none", <<Send("r", "bad"), Exit({"one"})>>),
                   Try("semget", <<Send("r", "bad"), Exit({"one"})>>),
                   Send("r", "good")>>)
<1>1. SubOk("child", <<Send("r", "bad"), Exit({"one"})>>)
  BY OneStatus, SubSend1, SubExit, SubTuple2, Zenon
<1>2. SubOk("child", <<Observe("none", <<Send("r", "bad"), Exit({"one"})>>)>>)
  BY <1>1, SubObserve, Zenon
<1>3. SubOk("child", <<Try("semget", <<Send("r", "bad"), Exit({"one"})>>)>>)
  BY <1>1, Names, SubTry, Zenon
<1>. QED  BY <1>2, <1>3, SubSend1, SubTuple3, Zenon

LEMMA SubSysvsem == SubOk("child", <<Try("semop", <<Exit({"one"})>>)>>)
BY OneStatus, Names, SubExit, SubTry, Zenon

LEMMA SubOverlay ==
  SubOk("child", <<Try("unshare", SendErr), Make("tmpdir", SendErr),
                   Try("mkdir", SendErr), Try("mount", SendErr),
                   Try("umount2", <<Send("r", "OK")>>), Send("r", "OK")>>)
<1>1. /\ SubOk("child", <<Try("unshare", SendErr)>>) /\ SubOk("child", <<Try("mkdir", SendErr)>>)
      /\ SubOk("child", <<Try("mount", SendErr)>>)
  BY Names, SubTryErr, Zenon
<1>2. SubOk("child", <<Make("tmpdir", SendErr)>>)  BY SubMake, SubSendErr, Zenon
<1>3. SubOk("child", <<Try("umount2", <<Send("r", "OK")>>)>>)  BY Names, SubTrySend, Zenon
<1>4. SubOk("child", <<Send("r", "OK")>>)  BY SubSend1, Zenon
<1>. QED  BY <1>1, <1>2, <1>3, <1>4, SubTuple6, Zenon

LEMMA SubPtrace == SubOk("child", <<Try("traceme", <<Exit({"one"})>>), Op("stop")>>)
<1>1. SubOk("child", <<Try("traceme", <<Exit({"one"})>>)>>)
  BY OneStatus, Names, SubExit, SubTry, Zenon
<1>2. SubOk("child", <<Op("stop")>>)  BY SubOp
<1>. QED  BY <1>1, <1>2, SubTuple2, Zenon

\* A tuple of calls at the start of a good script, one call at a time.
LEMMA GoodOne ==
  ASSUME NEW t, NEW F, NEW O, NEW k, NEW L, NEW W, NEW a,
         Good(t, <<a>> \o <<>>, F, O, k, L, W)
  PROVE  Good(t, <<a>>, F, O, k, L, W)
<1>1. <<a>> = <<a>> \o <<>>  BY OneFacts, Zenon
<1>. QED  BY <1>1, Zenon

LEMMA GoodTuple2 ==
  ASSUME NEW t, NEW F, NEW O, NEW k, NEW L, NEW W,
         NEW a, NEW b,
         Good(t, <<a>> \o <<b>>, F, O, k, L, W)
  PROVE  Good(t, <<a, b>>, F, O, k, L, W)
<1>1. <<a, b>> = <<a>> \o <<b>>  BY PairCat
<1>. QED  BY <1>1, Zenon

LEMMA GoodTuple3 ==
  ASSUME NEW t, NEW F, NEW O, NEW k, NEW L, NEW W,
         NEW a, NEW b, NEW c,
         Good(t, <<a>> \o <<b, c>>, F, O, k, L, W)
  PROVE  Good(t, <<a, b, c>>, F, O, k, L, W)
<1>1. <<a, b, c>> = <<a>> \o <<b, c>>  OBVIOUS
<1>. QED  BY <1>1, Zenon

LEMMA GoodTuple4 ==
  ASSUME NEW t, NEW F, NEW O, NEW k, NEW L, NEW W,
         NEW a, NEW b, NEW c, NEW d,
         Good(t, <<a>> \o <<b, c, d>>, F, O, k, L, W)
  PROVE  Good(t, <<a, b, c, d>>, F, O, k, L, W)
<1>1. <<a, b, c, d>> = <<a>> \o <<b, c, d>>  OBVIOUS
<1>. QED  BY <1>1, Zenon

\* An equation to be matched as a whole.
Same(x, y) == x = y

LEMMA Flat1 == ASSUME NEW a, NEW v PROVE Same(<<a>> \o v, <<a>> \o v)
BY DEF Same

LEMMA Flat2 ==
  ASSUME NEW a, NEW b, NEW v, IsSeq(v)
  PROVE  Same(<<a, b>> \o v,
              <<a>> \o (<<b>> \o v))
<1>. DEFINE s == <<b>>
            r == <<b>> \o v
<1>1. <<a, b>> = <<a>> \o s  BY PairCat
<1>2. s \in Seq({b})  OBVIOUS
<1>3. Same(s \o v, r)  BY Flat1, Zenon
<1>. HIDE DEF s, r
<1>4. (<<a>> \o s) \o v = <<a>> \o (s \o v)  BY <1>2, CatFacts DEF IsSeq
<1>5. Same((<<a, b>>) \o v, <<a>> \o r)  BY <1>1, <1>3, <1>4, Zenon DEF Same
<1>. QED  BY <1>5, Zenon DEF r

LEMMA Flat3 ==
  ASSUME NEW a, NEW b, NEW c, NEW v, IsSeq(v)
  PROVE  Same(<<a, b, c>> \o v,
              <<a>> \o (<<b>> \o (<<c>> \o v)))
<1>. DEFINE s == <<b, c>>
            r == <<b>> \o (<<c>> \o v)
<1>1. <<a, b, c>> = <<a>> \o s  OBVIOUS
<1>2. s \in Seq({b, c})  OBVIOUS
<1>3. Same(s \o v, r)  BY Flat2, Zenon
<1>. HIDE DEF s, r
<1>4. (<<a>> \o s) \o v = <<a>> \o (s \o v)  BY <1>2, CatFacts DEF IsSeq
<1>5. Same((<<a, b, c>>) \o v, <<a>> \o r)  BY <1>1, <1>3, <1>4, Zenon DEF Same
<1>. QED  BY <1>5, Zenon DEF r

LEMMA Flat4 ==
  ASSUME NEW a, NEW b, NEW c, NEW d, NEW v, IsSeq(v)
  PROVE  Same(<<a, b, c, d>> \o v,
              <<a>> \o (<<b>> \o (<<c>> \o (<<d>> \o v))))
<1>. DEFINE s == <<b, c, d>>
            r == <<b>> \o (<<c>> \o (<<d>> \o v))
<1>1. <<a, b, c, d>> = <<a>> \o s  OBVIOUS
<1>2. s \in Seq({b, c, d})  OBVIOUS
<1>3. Same(s \o v, r)  BY Flat3, Zenon
<1>. HIDE DEF s, r
<1>4. (<<a>> \o s) \o v = <<a>> \o (s \o v)  BY <1>2, CatFacts DEF IsSeq
<1>5. Same((<<a, b, c, d>>) \o v, <<a>> \o r)  BY <1>1, <1>3, <1>4, Zenon DEF Same
<1>. QED  BY <1>5, Zenon DEF r

LEMMA Flat5 ==
  ASSUME NEW a, NEW b, NEW c, NEW d, NEW e, NEW v, IsSeq(v)
  PROVE  Same(<<a, b, c, d, e>> \o v,
              <<a>> \o (<<b>> \o (<<c>> \o (<<d>> \o (<<e>> \o v)))))
<1>. DEFINE s == <<b, c, d, e>>
            r == <<b>> \o (<<c>> \o (<<d>> \o (<<e>> \o v)))
<1>1. <<a, b, c, d, e>> = <<a>> \o s  OBVIOUS
<1>2. s \in Seq({b, c, d, e})  OBVIOUS
<1>3. Same(s \o v, r)  BY Flat4, Zenon
<1>. HIDE DEF s, r
<1>4. (<<a>> \o s) \o v = <<a>> \o (s \o v)  BY <1>2, CatFacts DEF IsSeq
<1>5. Same((<<a, b, c, d, e>>) \o v, <<a>> \o r)  BY <1>1, <1>3, <1>4, Zenon DEF Same
<1>. QED  BY <1>5, Zenon DEF r

LEMMA Flat6 ==
  ASSUME NEW a, NEW b, NEW c, NEW d, NEW e, NEW f, NEW v, IsSeq(v)
  PROVE  Same(<<a, b, c, d, e, f>> \o v,
              <<a>> \o (<<b>> \o (<<c>> \o (<<d>> \o (<<e>> \o (<<f>> \o v))))))
<1>. DEFINE s == <<b, c, d, e, f>>
            r == <<b>> \o (<<c>> \o (<<d>> \o (<<e>> \o (<<f>> \o v))))
<1>1. <<a, b, c, d, e, f>> = <<a>> \o s  OBVIOUS
<1>2. s \in Seq({b, c, d, e, f})  OBVIOUS
<1>3. Same(s \o v, r)  BY Flat5, Zenon
<1>. HIDE DEF s, r
<1>4. (<<a>> \o s) \o v = <<a>> \o (s \o v)  BY <1>2, CatFacts DEF IsSeq
<1>5. Same((<<a, b, c, d, e, f>>) \o v, <<a>> \o r)  BY <1>1, <1>3, <1>4, Zenon DEF Same
<1>. QED  BY <1>5, Zenon DEF r

LEMMA Flat7 ==
  ASSUME NEW a, NEW b, NEW c, NEW d, NEW e, NEW f, NEW g, NEW v, IsSeq(v)
  PROVE  Same(<<a, b, c, d, e, f, g>> \o v,
              <<a>> \o (<<b>> \o (<<c>> \o (<<d>> \o (<<e>> \o (<<f>> \o (<<g>> \o v)))))))
<1>. DEFINE s == <<b, c, d, e, f, g>>
            r == <<b>> \o (<<c>> \o (<<d>> \o (<<e>> \o (<<f>> \o (<<g>> \o v)))))
<1>1. <<a, b, c, d, e, f, g>> = <<a>> \o s  OBVIOUS
<1>2. s \in Seq({b, c, d, e, f, g})  OBVIOUS
<1>3. Same(s \o v, r)  BY Flat6, Zenon
<1>. HIDE DEF s, r
<1>4. (<<a>> \o s) \o v = <<a>> \o (s \o v)  BY <1>2, CatFacts DEF IsSeq
<1>5. Same((<<a, b, c, d, e, f, g>>) \o v, <<a>> \o r)  BY <1>1, <1>3, <1>4, Zenon DEF Same
<1>. QED  BY <1>5, Zenon DEF r

LEMMA Flat8 ==
  ASSUME NEW a, NEW b, NEW c, NEW d, NEW e, NEW f, NEW g, NEW h, NEW v, IsSeq(v)
  PROVE  Same(<<a, b, c, d, e, f, g, h>> \o v,
              <<a>> \o (<<b>> \o (<<c>> \o (<<d>> \o (<<e>> \o (<<f>> \o (<<g>> \o (<<h>> \o
         v))))))))
<1>. DEFINE s == <<b, c, d, e, f, g, h>>
            r == <<b>> \o (<<c>> \o (<<d>> \o (<<e>> \o (<<f>> \o (<<g>> \o (<<h>> \o v))))))
<1>1. <<a, b, c, d, e, f, g, h>> = <<a>> \o s  OBVIOUS
<1>2. s \in Seq({b, c, d, e, f, g, h})  OBVIOUS
<1>3. Same(s \o v, r)  BY Flat7, Zenon
<1>. HIDE DEF s, r
<1>4. (<<a>> \o s) \o v = <<a>> \o (s \o v)  BY <1>2, CatFacts DEF IsSeq
<1>5. Same((<<a, b, c, d, e, f, g, h>>) \o v, <<a>> \o r)  BY <1>1, <1>3, <1>4, Zenon DEF Same
<1>. QED  BY <1>5, Zenon DEF r

LEMMA Flat9 ==
  ASSUME NEW a, NEW b, NEW c, NEW d, NEW e, NEW f, NEW g, NEW h, NEW i, NEW v, IsSeq(v)
  PROVE  Same(<<a, b, c, d, e, f, g, h, i>> \o v,
              <<a>> \o (<<b>> \o (<<c>> \o (<<d>> \o (<<e>> \o (<<f>> \o (<<g>> \o (<<h>> \o
         (<<i>> \o v)))))))))
<1>. DEFINE s == <<b, c, d, e, f, g, h, i>>
            r == <<b>> \o (<<c>> \o (<<d>> \o (<<e>> \o (<<f>> \o (<<g>> \o (<<h>> \o (<<i>>
         \o v)))))))
<1>1. <<a, b, c, d, e, f, g, h, i>> = <<a>> \o s  OBVIOUS
<1>2. s \in Seq({b, c, d, e, f, g, h, i})  OBVIOUS
<1>3. Same(s \o v, r)  BY Flat8, Zenon
<1>. HIDE DEF s, r
<1>4. (<<a>> \o s) \o v = <<a>> \o (s \o v)  BY <1>2, CatFacts DEF IsSeq
<1>5. Same((<<a, b, c, d, e, f, g, h, i>>) \o v, <<a>> \o r)  BY <1>1, <1>3, <1>4, Zenon DEF
         Same
<1>. QED  BY <1>5, Zenon DEF r

LEMMA GoodCat2 ==
  ASSUME NEW t, NEW F, NEW O, NEW k, NEW L, NEW W,
         NEW a, NEW b, NEW v, IsSeq(v),
         Good(t, <<a>> \o (<<b>> \o v), F, O, k, L, W)
  PROVE  Good(t, <<a, b>> \o v, F, O, k, L, W)
<1>1. Same(<<a, b>> \o v,
           <<a>> \o (<<b>> \o v))
  BY Flat2, Zenon
<1>. QED  BY <1>1, Zenon DEF Same

LEMMA GoodCat3 ==
  ASSUME NEW t, NEW F, NEW O, NEW k, NEW L, NEW W,
         NEW a, NEW b, NEW c, NEW v, IsSeq(v),
         Good(t, <<a>> \o (<<b>> \o (<<c>> \o v)), F, O, k, L, W)
  PROVE  Good(t, <<a, b, c>> \o v, F, O, k, L, W)
<1>1. Same(<<a, b, c>> \o v,
           <<a>> \o (<<b>> \o (<<c>> \o v)))
  BY Flat3, Zenon
<1>. QED  BY <1>1, Zenon DEF Same

LEMMA GoodCat4 ==
  ASSUME NEW t, NEW F, NEW O, NEW k, NEW L, NEW W,
         NEW a, NEW b, NEW c, NEW d, NEW v, IsSeq(v),
         Good(t, <<a>> \o (<<b>> \o (<<c>> \o (<<d>> \o v))), F, O, k, L, W)
  PROVE  Good(t, <<a, b, c, d>> \o v, F, O, k, L, W)
<1>1. Same(<<a, b, c, d>> \o v,
           <<a>> \o (<<b>> \o (<<c>> \o (<<d>> \o v))))
  BY Flat4, Zenon
<1>. QED  BY <1>1, Zenon DEF Same

LEMMA GoodCat6 ==
  ASSUME NEW t, NEW F, NEW O, NEW k, NEW L, NEW W,
         NEW a, NEW b, NEW c, NEW d, NEW e, NEW f, NEW v, IsSeq(v),
         Good(t, <<a>> \o (<<b>> \o (<<c>> \o (<<d>> \o (<<e>> \o (<<f>> \o v))))), F, O, k,
         L, W)
  PROVE  Good(t, <<a, b, c, d, e, f>> \o v, F, O, k, L, W)
<1>1. Same(<<a, b, c, d, e, f>> \o v,
           <<a>> \o (<<b>> \o (<<c>> \o (<<d>> \o (<<e>> \o (<<f>> \o v))))))
  BY Flat6, Zenon
<1>. QED  BY <1>1, Zenon DEF Same

LEMMA GoodCat9 ==
  ASSUME NEW t, NEW F, NEW O, NEW k, NEW L, NEW W,
         NEW a, NEW b, NEW c, NEW d, NEW e, NEW f, NEW g, NEW h, NEW i, NEW v, IsSeq(v),
         Good(t, <<a>> \o (<<b>> \o (<<c>> \o (<<d>> \o (<<e>> \o (<<f>> \o (<<g>> \o (<<h>>
         \o (<<i>> \o v)))))))), F, O, k, L, W)
  PROVE  Good(t, <<a, b, c, d, e, f, g, h, i>> \o v, F, O, k, L, W)
<1>1. Same(<<a, b, c, d, e, f, g, h, i>> \o v,
           <<a>> \o (<<b>> \o (<<c>> \o (<<d>> \o (<<e>> \o (<<f>> \o (<<g>> \o (<<h>> \o
         (<<i>> \o v)))))))))
  BY Flat9, Zenon
<1>. QED  BY <1>1, Zenon DEF Same

LEMMA GoodTuple5 ==
  ASSUME NEW t, NEW F, NEW O, NEW k, NEW L, NEW W,
         NEW a, NEW b, NEW c, NEW d, NEW e,
         Good(t, <<a>> \o (<<b>> \o (<<c>> \o (<<d>> \o (<<e>> \o <<>>)))), F, O, k, L, W)
  PROVE  Good(t, <<a, b, c, d, e>>, F, O, k, L, W)
<1>. DEFINE s == <<a, b, c, d, e>>
            r == <<a>> \o (<<b>> \o (<<c>> \o (<<d>> \o (<<e>> \o <<>>))))
<1>1. IsSeq(<<>>)  BY OneFacts, EmptyFacts, Zenon
<1>2. Same(s \o <<>>, r)  BY <1>1, Flat5, Zenon
<1>3. s \in Seq({a, b, c, d, e})  OBVIOUS
<1>4. Good(t, r, F, O, k, L, W)  OBVIOUS
<1>. HIDE DEF s, r
<1>5. s \o <<>> = s  BY <1>3, EmptyFacts DEF IsSeq
<1>6. Good(t, s, F, O, k, L, W)  BY <1>2, <1>4, <1>5, Zenon DEF Same
<1>. QED  BY <1>6 DEF s

LEMMA GoodTuple6 ==
  ASSUME NEW t, NEW F, NEW O, NEW k, NEW L, NEW W,
         NEW a, NEW b, NEW c, NEW d, NEW e, NEW f,
         Good(t, <<a>> \o (<<b>> \o (<<c>> \o (<<d>> \o (<<e>> \o (<<f>> \o <<>>))))), F, O,
         k, L, W)
  PROVE  Good(t, <<a, b, c, d, e, f>>, F, O, k, L, W)
<1>. DEFINE s == <<a, b, c, d, e, f>>
            r == <<a>> \o (<<b>> \o (<<c>> \o (<<d>> \o (<<e>> \o (<<f>> \o <<>>)))))
<1>1. IsSeq(<<>>)  BY OneFacts, EmptyFacts, Zenon
<1>2. Same(s \o <<>>, r)  BY <1>1, Flat6, Zenon
<1>3. s \in Seq({a, b, c, d, e, f})  OBVIOUS
<1>4. Good(t, r, F, O, k, L, W)  OBVIOUS
<1>. HIDE DEF s, r
<1>5. s \o <<>> = s  BY <1>3, EmptyFacts DEF IsSeq
<1>6. Good(t, s, F, O, k, L, W)  BY <1>2, <1>4, <1>5, Zenon DEF Same
<1>. QED  BY <1>6 DEF s

LEMMA GoodTuple7 ==
  ASSUME NEW t, NEW F, NEW O, NEW k, NEW L, NEW W,
         NEW a, NEW b, NEW c, NEW d, NEW e, NEW f, NEW g,
         Good(t, <<a>> \o (<<b>> \o (<<c>> \o (<<d>> \o (<<e>> \o (<<f>> \o (<<g>> \o
         <<>>)))))), F, O, k, L, W)
  PROVE  Good(t, <<a, b, c, d, e, f, g>>, F, O, k, L, W)
<1>. DEFINE s == <<a, b, c, d, e, f, g>>
            r == <<a>> \o (<<b>> \o (<<c>> \o (<<d>> \o (<<e>> \o (<<f>> \o (<<g>> \o <<>>))))))
<1>1. IsSeq(<<>>)  BY OneFacts, EmptyFacts, Zenon
<1>2. Same(s \o <<>>, r)  BY <1>1, Flat7, Zenon
<1>3. s \in Seq({a, b, c, d, e, f, g})  OBVIOUS
<1>4. Good(t, r, F, O, k, L, W)  OBVIOUS
<1>. HIDE DEF s, r
<1>5. s \o <<>> = s  BY <1>3, EmptyFacts DEF IsSeq
<1>6. Good(t, s, F, O, k, L, W)  BY <1>2, <1>4, <1>5, Zenon DEF Same
<1>. QED  BY <1>6 DEF s

LEMMA GoodTuple8 ==
  ASSUME NEW t, NEW F, NEW O, NEW k, NEW L, NEW W,
         NEW a, NEW b, NEW c, NEW d, NEW e, NEW f, NEW g, NEW h,
         Good(t, <<a>> \o (<<b>> \o (<<c>> \o (<<d>> \o (<<e>> \o (<<f>> \o (<<g>> \o (<<h>>
         \o <<>>))))))), F, O, k, L, W)
  PROVE  Good(t, <<a, b, c, d, e, f, g, h>>, F, O, k, L, W)
<1>. DEFINE s == <<a, b, c, d, e, f, g, h>>
            r == <<a>> \o (<<b>> \o (<<c>> \o (<<d>> \o (<<e>> \o (<<f>> \o (<<g>> \o (<<h>>
         \o <<>>)))))))
<1>1. IsSeq(<<>>)  BY OneFacts, EmptyFacts, Zenon
<1>2. Same(s \o <<>>, r)  BY <1>1, Flat8, Zenon
<1>3. s \in Seq({a, b, c, d, e, f, g, h})  OBVIOUS
<1>4. Good(t, r, F, O, k, L, W)  OBVIOUS
<1>. HIDE DEF s, r
<1>5. s \o <<>> = s  BY <1>3, EmptyFacts DEF IsSeq
<1>6. Good(t, s, F, O, k, L, W)  BY <1>2, <1>4, <1>5, Zenon DEF Same
<1>. QED  BY <1>6 DEF s

LEMMA GoodCat14 ==
  ASSUME NEW t, NEW F, NEW O, NEW k, NEW L, NEW W,
         NEW a, NEW b, NEW c, NEW d, NEW e, NEW f, NEW g, NEW h, NEW i, NEW j, NEW l, NEW m,
         NEW n, NEW o, NEW v, IsSeq(v),
         Good(t, <<a>> \o (<<b>> \o (<<c>> \o (<<d>> \o (<<e>> \o (<<f>> \o (<<g>> \o (<<h>>
         \o (<<i>> \o (<<j>> \o (<<l>> \o (<<m>> \o (<<n>> \o (<<o>> \o v))))))))))))), F, O,
         k, L, W)
  PROVE  Good(t, <<a, b, c, d, e, f, g, h, i, j, l, m, n, o>> \o v, F, O, k, L, W)
<1>. DEFINE x == <<a, b, c, d, e, f, g>>
            y == <<h, i, j, l, m, n, o>>
            s == <<h>> \o (<<i>> \o (<<j>> \o (<<l>> \o (<<m>> \o (<<n>> \o (<<o>> \o v))))))
<1>1. <<a, b, c, d, e, f, g, h, i, j, l, m, n, o>> = x \o y  OBVIOUS
<1>2. x \in Seq({a, b, c, d, e, f, g}) /\ y \in Seq({h, i, j, l, m, n, o})  OBVIOUS
<1>3. Same(y \o v, s)  BY Flat7, Zenon
<1>. HIDE DEF x, y
<1>4. IsSeq(x) /\ IsSeq(y)  BY <1>2, Zenon DEF IsSeq
<1>5. IsSeq(y \o v)  BY <1>4, CatFacts, Zenon
<1>6. (x \o y) \o v = x \o (y \o v)  BY <1>4, CatAssoc
<1>7. IsSeq(s)  BY <1>3, <1>5, Zenon DEF Same
<1>. HIDE DEF s
<1>8. Same(x \o s, <<a>> \o (<<b>> \o (<<c>> \o (<<d>> \o (<<e>> \o (<<f>> \o (<<g>> \o
         s)))))))  BY <1>7, Flat7, Zenon DEF x
<1>9. Good(t, <<a>> \o (<<b>> \o (<<c>> \o (<<d>> \o (<<e>> \o (<<f>> \o (<<g>> \o s)))))), F,
         O, k, L, W)  BY Zenon DEF s
<1>10. Good(t, (x \o y) \o v, F, O, k, L, W)  BY <1>3, <1>6, <1>8, <1>9, Zenon DEF Same
<1>. QED  BY <1>1, <1>10, Zenon

LEMMA SayRule ==
  ASSUME NEW t, NEW F, NEW O, NEW k, NEW L, NEW W, NEW res, res \in Result, NEW r,
         Good(t, r, F, O, k, Append(L, res), W)
  PROVE  Good(t, Say(res) \o r, F, O, k, L, W)
BY ReportRule, Zenon DEF Say

LEMMA SayLast ==
  ASSUME NEW t, NEW F, NEW O, NEW k, NEW L, NEW W, NEW res, res \in Result,
         Good(t, <<>>, F, O, k, Append(L, res), W)
  PROVE  Good(t, Say(res), F, O, k, L, W)
BY ReportRule, GoodOne, Zenon DEF Say

LEMMA JudgeRule ==
  ASSUME NEW t, NEW F, NEW O, NEW k, NEW L, NEW W, NEW m, NEW res, NEW r,
         Good(t, r, F, O, k, L, W), Good(t, Say(res), F, O, k, L, W)
  PROVE  Good(t, <<Judge(m, res)>> \o r, F, O, k, L, W)
BY OnRule, Zenon DEF Judge

\* A call that does not wait for a child.
LEMMA CallRule ==
  ASSUME NEW t, NEW F, NEW O, NEW k, NEW L, NEW W, NEW call, call \notin WaitCalls,
         NEW f, NEW r, Good(t, r, F, O, k, L, W), Good(t, f, F, O, k, L, W)
  PROVE  Good(t, <<Try(call, f)>> \o r, F, O, k, L, W)
<1>1. W \cup ({call} \cap WaitCalls) = W  OBVIOUS
<1>2. Good(t, f, F, O, k, L, W \cup ({call} \cap WaitCalls))  BY <1>1, Zenon
<1>. QED  BY <1>2, TryRule, Zenon

\* The end of a test after its one line.
LEMMA Ended ==
  ASSUME NEW t, NEW k, k \in {"none", "reaped"}, NEW W, NEW res, res \in Result,
         t # "pid" \/ res \in {"FAIL", "SKIP"}
  PROVE  Good(t, <<>>, {}, {}, k, Append(<<>>, res), W)
<1>1. Append(<<>>, res) = <<res>>  OBVIOUS
<1>2. Len(<<res>>) = 1 /\ <<res>>[1] = res  OBVIOUS
<1>3. Final(t, {}, {}, k, Append(<<>>, res), W)  BY <1>1, <1>2 DEF Final
<1>. QED  BY <1>3, GoodEnd, Zenon

\* Descriptors and objects that come and go.
Ends(q) == {q} \X {"R", "W"}

LEMMA ResultFacts ==
  /\ "PASS" \in Result /\ "STUB" \in Result /\ "FAIL" \in Result /\ "SKIP" \in Result
  /\ "r" \in PipeNames /\ "s" \in PipeNames
BY DEF Result, PipeNames

LEMMA MainNames ==
  /\ "access" \notin WaitCalls /\ "fstat" \notin WaitCalls /\ "semadd" \notin WaitCalls
  /\ "malloc" \notin WaitCalls /\ "setgroups" \notin WaitCalls /\ "uid_map" \notin WaitCalls
  /\ "gid_map" \notin WaitCalls /\ "setuid" \notin WaitCalls
  /\ "before" \notin WaitCalls /\ "after" \notin WaitCalls
BY DEF WaitCalls

LEMMA FdFacts ==
  /\ Ends("r") = {} \cup ({"r"} \X {"R", "W"}) /\ Ends("s") = {} \cup ({"s"} \X {"R", "W"})
  /\ {<<"r", "R">>} = Ends("r") \ {<<"r", "W">>} /\ {<<"r", "W">>} = Ends("r") \ {<<"r", "R">>}
  /\ {<<"s", "W">>} = Ends("s") \ {<<"s", "R">>}
  /\ {} = {<<"r", "R">>} \ {<<"r", "R">>} /\ {} = {<<"r", "W">>} \ {<<"r", "W">>}
  /\ {} = {<<"s", "W">>} \ {<<"s", "W">>}
BY DEF Ends

LEMMA TwoPipes ==
  /\ Ends("r") \cup Ends("s") = Ends("r") \cup ({"s"} \X {"R", "W"})
  /\ Ends("s") \cup {<<"r", "R">>} = (Ends("r") \cup Ends("s")) \ {<<"r", "W">>}
  /\ Ends("s") \cup {<<"r", "W">>} = (Ends("r") \cup Ends("s")) \ {<<"r", "R">>}
  /\ Ends("s") = (Ends("s") \cup {<<"r", "W">>}) \ {<<"r", "W">>}
  /\ {<<"s", "W">>, <<"r", "R">>} = (Ends("s") \cup {<<"r", "R">>}) \ {<<"s", "R">>}
  /\ {<<"r", "R">>} = {<<"s", "W">>, <<"r", "R">>} \ {<<"s", "W">>}
BY DEF Ends

LEMMA ObjFacts ==
  /\ {"fd"} = {} \cup {"fd"} /\ {} = {"fd"} \ {"fd"}
  /\ {"sem"} = {} \cup {"sem"} /\ {} = {"sem"} \ {"sem"}
  /\ {"pidfd"} = {} \cup {"pidfd"} /\ {} = {"pidfd"} \ {"pidfd"}
OBVIOUS

\* The usual verdict.
LEMMA VerdictGood ==
  ASSUME NEW t, t # "pid", NEW W
  PROVE  Good(t, Verdict, {}, {}, "reaped", <<>>, W)
<1>1. Good(t, <<>>, {}, {}, "reaped", Append(<<>>, "STUB"), W)  BY Ended, Zenon DEF Result
<1>2. Good(t, <<Report("STUB")>>, {}, {}, "reaped", <<>>, W)
  BY <1>1, ReportRule, ResultFacts, GoodOne, Zenon
<1>3. Good(t, <<>>, {}, {}, "reaped", Append(<<>>, "PASS"), W)  BY Ended, Zenon DEF Result
<1>4. Good(t, Say("PASS"), {}, {}, "reaped", <<>>, W)  BY <1>3, SayLast, Zenon DEF Result
<1>5. Good(t, <<Judge("good", "PASS"), Report("STUB")>>, {}, {}, "reaped", <<>>, W)
  BY <1>2, <1>4, JudgeRule, GoodTuple2, Zenon
<1>6. Good(t, <<>>, {}, {}, "reaped", Append(<<>>, "FAIL"), W)  BY Ended, Zenon DEF Result
<1>7. Good(t, Say("FAIL"), {}, {}, "reaped", <<>>, W)  BY <1>6, SayLast, Zenon DEF Result
<1>8. Good(t, <<Judge("ERR", "FAIL"), Judge("good", "PASS"), Report("STUB")>>, {}, {}, "reaped",
        <<>>, W)
  BY <1>5, <1>7, JudgeRule, GoodTuple3, Zenon
<1>. QED  BY <1>8, Zenon DEF Verdict

\* The verdicts of the uts test, by whether the hostname before was read.
LEMMA UtsVerdictGood ==
  ASSUME NEW t, t # "pid", NEW W
  PROVE  /\ Good(t, <<Judge("ERR", "FAIL"), Try("after", Say("PASS")), Report("STUB")>>, {}, {},
                 "reaped", <<>>, W)
         /\ Good(t, <<Judge("ERR", "FAIL"), Try("after", Say("STUB")),
                      Observe("full", Say("PASS")), Report("STUB")>>, {}, {}, "reaped", <<>>, W)
<1>1. Good(t, <<>>, {}, {}, "reaped", Append(<<>>, "STUB"), W)  BY Ended, Zenon DEF Result
<1>2. Good(t, <<Report("STUB")>>, {}, {}, "reaped", <<>>, W)
  BY <1>1, ReportRule, ResultFacts, GoodOne, Zenon
<1>3. Good(t, Say("STUB"), {}, {}, "reaped", <<>>, W)  BY <1>1, SayLast, Zenon DEF Result
<1>4. Good(t, <<>>, {}, {}, "reaped", Append(<<>>, "PASS"), W)  BY Ended, Zenon DEF Result
<1>5. Good(t, Say("PASS"), {}, {}, "reaped", <<>>, W)  BY <1>4, SayLast, Zenon DEF Result
<1>6. Good(t, <<>>, {}, {}, "reaped", Append(<<>>, "FAIL"), W)  BY Ended, Zenon DEF Result
<1>7. Good(t, Say("FAIL"), {}, {}, "reaped", <<>>, W)  BY <1>6, SayLast, Zenon DEF Result
<1>8. Good(t, <<Observe("full", Say("PASS")), Report("STUB")>>, {}, {}, "reaped", <<>>, W)
  BY <1>2, <1>5, ObserveRule, GoodTuple2, Zenon
<1>9. Good(t, <<Try("after", Say("STUB")), Observe("full", Say("PASS")), Report("STUB")>>, {}, {},
        "reaped", <<>>, W)
  BY <1>3, <1>8, CallRule, MainNames, GoodTuple3, Zenon
<1>10. Good(t, <<Judge("ERR", "FAIL"), Try("after", Say("STUB")), Observe("full", Say("PASS")),
        Report("STUB")>>, {}, {}, "reaped", <<>>, W)
  BY <1>7, <1>9, JudgeRule, GoodTuple4, Zenon
<1>11. Good(t, <<Try("after", Say("PASS")), Report("STUB")>>, {}, {}, "reaped", <<>>, W)
  BY <1>2, <1>5, CallRule, MainNames, GoodTuple2, Zenon
<1>12. Good(t, <<Judge("ERR", "FAIL"), Try("after", Say("PASS")), Report("STUB")>>, {}, {},
        "reaped", <<>>, W)
  BY <1>7, <1>11, JudgeRule, GoodTuple3, Zenon
<1>. QED  BY <1>10, <1>12, Zenon

\* The verdict of generic_ns when the id before could not be read.
LEMMA BlindVerdictGood ==
  ASSUME NEW t, t # "pid", NEW W
  PROVE  Good(t, <<Judge("ERR", "FAIL"), Judge("noid", "STUB"), Report("PASS")>>, {}, {},
        "reaped", <<>>, W)
<1>1. Good(t, <<>>, {}, {}, "reaped", Append(<<>>, "PASS"), W)  BY Ended, Zenon DEF Result
<1>2. Good(t, <<Report("PASS")>>, {}, {}, "reaped", <<>>, W)
  BY <1>1, ReportRule, ResultFacts, GoodOne, Zenon
<1>3. Good(t, <<>>, {}, {}, "reaped", Append(<<>>, "STUB"), W)  BY Ended, Zenon DEF Result
<1>4. Good(t, Say("STUB"), {}, {}, "reaped", <<>>, W)  BY <1>3, SayLast, Zenon DEF Result
<1>5. Good(t, <<Judge("noid", "STUB"), Report("PASS")>>, {}, {}, "reaped", <<>>, W)
  BY <1>2, <1>4, JudgeRule, GoodTuple2, Zenon
<1>6. Good(t, <<>>, {}, {}, "reaped", Append(<<>>, "FAIL"), W)  BY Ended, Zenon DEF Result
<1>7. Good(t, Say("FAIL"), {}, {}, "reaped", <<>>, W)  BY <1>6, SayLast, Zenon DEF Result
<1>. QED  BY <1>5, <1>7, JudgeRule, GoodTuple3, Zenon

LEMMA ContentVerdictGood ==
  ASSUME NEW t, t # "pid", NEW W
  PROVE  Good(t, <<Judge("nofresh", "SKIP")>> \o Verdict, {}, {}, "reaped", <<>>, W)
<1>1. Good(t, Verdict, {}, {}, "reaped", <<>>, W)  BY VerdictGood
<1>2. Good(t, <<>>, {}, {}, "reaped", Append(<<>>, "SKIP"), W)  BY Ended, Zenon DEF Result
<1>3. Good(t, Say("SKIP"), {}, {}, "reaped", <<>>, W)  BY <1>2, SayLast, Zenon DEF Result
<1>4. Good(t, <<Judge("nofresh", "SKIP")>> \o Verdict, {}, {}, "reaped", <<>>, W)
  BY <1>1, <1>3, JudgeRule, Zenon
<1>. QED  BY <1>4, Zenon

LEMMA SignalVerdictGood ==
  ASSUME NEW t, t # "pid", NEW W
  PROVE  Good(t, <<Judge("delivered", "PASS"), Report("FAIL")>>, {}, {}, "reaped", <<>>, W)
<1>1. Good(t, <<>>, {}, {}, "reaped", Append(<<>>, "FAIL"), W)  BY Ended, Zenon DEF Result
<1>2. Good(t, <<Report("FAIL")>>, {}, {}, "reaped", <<>>, W)
  BY <1>1, ReportRule, ResultFacts, GoodOne, Zenon
<1>3. Good(t, <<>>, {}, {}, "reaped", Append(<<>>, "PASS"), W)  BY Ended, Zenon DEF Result
<1>4. Good(t, Say("PASS"), {}, {}, "reaped", <<>>, W)  BY <1>3, SayLast, Zenon DEF Result
<1>5. Good(t, <<Judge("delivered", "PASS"), Report("FAIL")>>, {}, {}, "reaped", <<>>, W)
  BY <1>2, <1>4, JudgeRule, GoodTuple2, Zenon
<1>. QED  BY <1>5, Zenon

LEMMA OverlayVerdictGood ==
  ASSUME NEW t, t # "pid", NEW W
  PROVE  Good(t, <<Judge("ERR", "FAIL"), Report("PASS")>>, {}, {}, "reaped", <<>>, W)
<1>1. Good(t, <<>>, {}, {}, "reaped", Append(<<>>, "PASS"), W)  BY Ended, Zenon DEF Result
<1>2. Good(t, <<Report("PASS")>>, {}, {}, "reaped", <<>>, W)
  BY <1>1, ReportRule, ResultFacts, GoodOne, Zenon
<1>3. Good(t, <<>>, {}, {}, "reaped", Append(<<>>, "FAIL"), W)  BY Ended, Zenon DEF Result
<1>4. Good(t, Say("FAIL"), {}, {}, "reaped", <<>>, W)  BY <1>3, SayLast, Zenon DEF Result
<1>5. Good(t, <<Judge("ERR", "FAIL"), Report("PASS")>>, {}, {}, "reaped", <<>>, W)
  BY <1>2, <1>4, JudgeRule, GoodTuple2, Zenon
<1>. QED  BY <1>5, Zenon

\* A test around one pipe is as good as its verdict.
LEMMA PipeTestGood ==
  ASSUME NEW t, NEW child, SubOk(Level(t), child), NEW verdict, NEW W, Good(t, verdict, {}, {},
        "reaped", <<>>, W)
  PROVE  Good(t, PipeTest(child, verdict), {}, {}, "none", <<>>, W)
<1>. DEFINE c6 == <<Wait>> \o verdict
            c5 == <<Close("r", "R")>> \o c6
            c4 == <<Recv("r", Say("SKIP") \o <<Close("r", "R"), Wait>>)>> \o c5
            c3 == <<Close("r", "W")>> \o c4
            c2 == <<Fork(<<Close("r", "R")>> \o child, Say("SKIP") \o <<Close("r", "R"), Close("r",
        "W")>>)>> \o c3
            c1 == <<Pipe("r", Say("SKIP"))>> \o c2
<1>1. Good(t, c6, {}, {}, "forked", <<>>, W)  BY WaitRule, Zenon
<1>2. Good(t, c5, {<<"r", "R">>}, {}, "forked", <<>>, W)
  BY <1>1, CloseRule, FdFacts, TwoPipes, Zenon
<1>3. Good(t, <<>>, {}, {}, "reaped", Append(<<>>, "SKIP"), W)  BY Ended, Zenon DEF Result
<1>4. Good(t, <<Wait>>, {}, {}, "forked", Append(<<>>, "SKIP"), W)
  BY <1>3, WaitRule, GoodOne, Zenon
<1>5. Good(t, <<Close("r", "R"), Wait>>, {<<"r", "R">>}, {}, "forked", Append(<<>>, "SKIP"), W)
  BY <1>4, CloseRule, FdFacts, TwoPipes, GoodTuple2, Zenon
<1>6. Good(t, Say("SKIP") \o <<Close("r", "R"), Wait>>, {<<"r", "R">>}, {}, "forked", <<>>, W)
  BY <1>5, SayRule, Zenon DEF Result
<1>7. Good(t, c4, {<<"r", "R">>}, {}, "forked", <<>>, W)  BY <1>2, <1>6, RecvRule, Zenon
<1>8. Good(t, c3, Ends("r"), {}, "forked", <<>>, W)
  BY <1>7, CloseRule, FdFacts, TwoPipes, Zenon
<1>9. Good(t, <<>>, {}, {}, "none", Append(<<>>, "SKIP"), W)  BY Ended, Zenon DEF Result
<1>10. Good(t, <<Close("r", "W")>>, {<<"r", "W">>}, {}, "none", Append(<<>>, "SKIP"), W)
  BY <1>9, CloseRule, FdFacts, TwoPipes, GoodOne, Zenon
<1>11. Good(t, <<Close("r", "R"), Close("r", "W")>>, Ends("r"), {}, "none", Append(<<>>,
        "SKIP"), W)
  BY <1>10, CloseRule, FdFacts, TwoPipes, GoodTuple2, Zenon
<1>12. Good(t, Say("SKIP") \o <<Close("r", "R"), Close("r", "W")>>, Ends("r"), {}, "none", <<>>,
        W)
  BY <1>11, SayRule, Zenon DEF Result
<1>13. Good(t, c2, Ends("r"), {}, "none", <<>>, W)
  BY <1>8, <1>12, ForkRule, SubClose, SubCat, Zenon
<1>14. Good(t, Say("SKIP"), {}, {}, "none", <<>>, W)  BY <1>9, SayLast, Zenon DEF Result
<1>15. Good(t, c1, {}, {}, "none", <<>>, W)
  BY <1>13, <1>14, PipeRule, ResultFacts, FdFacts, TwoPipes, Zenon
<1>16. IsSeq(verdict)  BY GoodSeq, Zenon
<1>17. Good(t, <<Pipe("r", Say("SKIP")), Fork(<<Close("r", "R")>> \o child, Say("SKIP") \o
        <<Close("r", "R"), Close("r", "W")>>), Close("r", "W"), Recv("r", Say("SKIP") \o
        <<Close("r", "R"), Wait>>), Close("r", "R"), Wait>> \o verdict, {}, {}, "none", <<>>, W)
  BY <1>15, <1>16, GoodCat6, Zenon
<1>. QED  BY <1>17, Zenon DEF PipeTest

LEMMA MappingErrorGood ==
  ASSUME NEW t, t # "pid", NEW W
  PROVE  Good(t, mappingError, {<<"s", "W">>, <<"r", "R">>}, {}, "forked", <<>>, W)
<1>1. Good(t, <<>>, {}, {}, "reaped", Append(<<>>, "FAIL"), W)  BY Ended, Zenon DEF Result
<1>2. Good(t, <<Report("FAIL")>>, {}, {}, "reaped", <<>>, W)
  BY <1>1, ReportRule, ResultFacts, GoodOne, Zenon
<1>3. Good(t, <<Close("r", "R"), Report("FAIL")>>, {<<"r", "R">>}, {}, "reaped", <<>>, W)
  BY <1>2, CloseRule, FdFacts, TwoPipes, GoodTuple2, Zenon
<1>4. Good(t, <<Wait, Close("r", "R"), Report("FAIL")>>, {<<"r", "R">>}, {}, "forked", <<>>, W)
  BY <1>3, WaitRule, GoodTuple3, Zenon
<1>5. Good(t, <<Close("s", "W"), Wait, Close("r", "R"), Report("FAIL")>>, {<<"s", "W">>, <<"r",
        "R">>}, {}, "forked", <<>>, W)
  BY <1>4, CloseRule, FdFacts, TwoPipes, GoodTuple4, Zenon
<1>. QED  BY <1>5, Zenon DEF mappingError

LEMMA IdmapEndGood ==
  ASSUME NEW t, t # "pid", NEW res, res \in Result, NEW W
  PROVE  Good(t, idmapEnd(res), {<<"s", "W">>, <<"r", "R">>}, {}, "forked", <<>>, W)
<1>1. Good(t, <<>>, {}, {}, "reaped", Append(<<>>, res), W)  BY Ended, Zenon DEF Result
<1>2. Good(t, <<Wait>>, {}, {}, "forked", Append(<<>>, res), W)
  BY <1>1, WaitRule, GoodOne, Zenon
<1>3. Good(t, <<Close("r", "R"), Wait>>, {<<"r", "R">>}, {}, "forked", Append(<<>>, res), W)
  BY <1>2, CloseRule, FdFacts, TwoPipes, GoodTuple2, Zenon
<1>4. Good(t, <<Close("s", "W"), Close("r", "R"), Wait>>, {<<"s", "W">>, <<"r", "R">>}, {},
        "forked", Append(<<>>, res), W)
  BY <1>3, CloseRule, FdFacts, TwoPipes, GoodTuple3, Zenon
<1>5. Good(t, Say(res) \o <<Close("s", "W"), Close("r", "R"), Wait>>, {<<"s", "W">>, <<"r",
        "R">>}, {}, "forked", <<>>, W)
  BY <1>4, SayRule, Zenon DEF Result
<1>. QED  BY <1>5, Zenon DEF idmapEnd

LEMMA IdmapVerdictGood ==
  ASSUME NEW t, t # "pid", NEW W
  PROVE  Good(t, idmapVerdict, {<<"r", "R">>}, {}, "forked", <<>>, W)
<1>. DEFINE c3 == <<Wait>> \o Verdict
            c2 == <<Close("r", "R")>> \o c3
            c1 == <<Recv("r", Say("SKIP") \o <<Close("r", "R"), Wait>>)>> \o c2
<1>1. Good(t, Verdict, {}, {}, "reaped", <<>>, W)  BY VerdictGood
<1>2. Good(t, c3, {}, {}, "forked", <<>>, W)  BY <1>1, WaitRule, Zenon
<1>3. Good(t, c2, {<<"r", "R">>}, {}, "forked", <<>>, W)
  BY <1>2, CloseRule, FdFacts, TwoPipes, Zenon
<1>4. Good(t, <<>>, {}, {}, "reaped", Append(<<>>, "SKIP"), W)  BY Ended, Zenon DEF Result
<1>5. Good(t, <<Wait>>, {}, {}, "forked", Append(<<>>, "SKIP"), W)
  BY <1>4, WaitRule, GoodOne, Zenon
<1>6. Good(t, <<Close("r", "R"), Wait>>, {<<"r", "R">>}, {}, "forked", Append(<<>>, "SKIP"), W)
  BY <1>5, CloseRule, FdFacts, TwoPipes, GoodTuple2, Zenon
<1>7. Good(t, Say("SKIP") \o <<Close("r", "R"), Wait>>, {<<"r", "R">>}, {}, "forked", <<>>, W)
  BY <1>6, SayRule, Zenon DEF Result
<1>8. Good(t, c1, {<<"r", "R">>}, {}, "forked", <<>>, W)  BY <1>3, <1>7, RecvRule, Zenon
<1>9. IsSeq(Verdict)  BY <1>1, GoodSeq, Zenon
<1>10. Good(t, <<Recv("r", Say("SKIP") \o <<Close("r", "R"), Wait>>), Close("r", "R"), Wait>> \o
        Verdict, {<<"r", "R">>}, {}, "forked", <<>>, W)
  BY <1>8, <1>9, GoodCat3, Zenon
<1>. QED  BY <1>10, Zenon DEF idmapVerdict

LEMMA UserIdmapGood ==
  ASSUME NEW t, t # "helper", t # "pid", NEW W
  PROVE  Good(t, user_idmap, {}, {}, "none", <<>>, W)
<1>. DEFINE ch == idmapChild(IF uid0 THEN <<Try("setuid", SendErr)>> ELSE <<>>)
<1>a. SubOk("child", <<Try("setuid", SendErr)>>)  BY Names, SubTryErr, Zenon
<1>b. SubOk("child", ch)  BY <1>a, SubEmpty, SubIdmap, Zenon
<1>c. Level(t) = "child"  BY DEF Level
<1>. HIDE DEF ch
<1>. DEFINE c14 == <<Close("s", "W")>> \o idmapVerdict
            c13 == <<Send("s", "release")>> \o c14
            c12 == <<Try("gid_map", mappingError)>> \o c13
            c11 == <<Try("uid_map", mappingError)>> \o c12
            c10 == <<Try("setgroups", mappingError)>> \o c11
            c9 == <<On("garbled", idmapEnd("SKIP"))>> \o c10
            c8 == <<On("ERR", idmapEnd("FAIL"))>> \o c9
            c7 == <<On("ENOENT", idmapEnd("STUB"))>> \o c8
            c6 == <<Recv("r", idmapEnd("SKIP"))>> \o c7
            c5 == <<Close("s", "R")>> \o c6
            c4 == <<Close("r", "W")>> \o c5
            c3 == <<Fork(ch, Say("SKIP") \o <<Close("r", "R"), Close("r", "W"), Close("s", "R"), Close("s",
        "W")>>)>> \o c4
            c2 == <<Pipe("s", <<Close("r", "R"), Close("r", "W"), Report("SKIP")>>)>> \o c3
            c1 == <<Pipe("r", Say("SKIP"))>> \o c2
<1>1. Good(t, idmapVerdict, {<<"r", "R">>}, {}, "forked", <<>>, W)  BY IdmapVerdictGood
<1>2. Good(t, c14, {<<"s", "W">>, <<"r", "R">>}, {}, "forked", <<>>, W)
  BY <1>1, CloseRule, FdFacts, TwoPipes, Zenon
<1>3. Good(t, c13, {<<"s", "W">>, <<"r", "R">>}, {}, "forked", <<>>, W)
  BY <1>2, SendRule, Zenon
<1>4. Good(t, mappingError, {<<"s", "W">>, <<"r", "R">>}, {}, "forked", <<>>, W)
  BY MappingErrorGood
<1>5. Good(t, c12, {<<"s", "W">>, <<"r", "R">>}, {}, "forked", <<>>, W)
  BY <1>3, <1>4, CallRule, MainNames, Zenon
<1>6. Good(t, c11, {<<"s", "W">>, <<"r", "R">>}, {}, "forked", <<>>, W)
  BY <1>5, <1>4, CallRule, MainNames, Zenon
<1>7. Good(t, c10, {<<"s", "W">>, <<"r", "R">>}, {}, "forked", <<>>, W)
  BY <1>6, <1>4, CallRule, MainNames, Zenon
<1>8. Good(t, idmapEnd("SKIP"), {<<"s", "W">>, <<"r", "R">>}, {}, "forked", <<>>, W)
  BY IdmapEndGood, Zenon DEF Result
<1>9. Good(t, c9, {<<"s", "W">>, <<"r", "R">>}, {}, "forked", <<>>, W)
  BY <1>7, <1>8, OnRule, Zenon
<1>10. Good(t, idmapEnd("FAIL"), {<<"s", "W">>, <<"r", "R">>}, {}, "forked", <<>>, W)
  BY IdmapEndGood, Zenon DEF Result
<1>11. Good(t, c8, {<<"s", "W">>, <<"r", "R">>}, {}, "forked", <<>>, W)
  BY <1>9, <1>10, OnRule, Zenon
<1>12. Good(t, idmapEnd("STUB"), {<<"s", "W">>, <<"r", "R">>}, {}, "forked", <<>>, W)
  BY IdmapEndGood, Zenon DEF Result
<1>13. Good(t, c7, {<<"s", "W">>, <<"r", "R">>}, {}, "forked", <<>>, W)
  BY <1>11, <1>12, OnRule, Zenon
<1>14. Good(t, c6, {<<"s", "W">>, <<"r", "R">>}, {}, "forked", <<>>, W)
  BY <1>13, <1>8, RecvRule, Zenon
<1>15. Good(t, c5, Ends("s") \cup {<<"r", "R">>}, {}, "forked", <<>>, W)
  BY <1>14, CloseRule, FdFacts, TwoPipes, Zenon
<1>16. Good(t, c4, Ends("r") \cup Ends("s"), {}, "forked", <<>>, W)
  BY <1>15, CloseRule, FdFacts, TwoPipes, Zenon
<1>17. Good(t, <<>>, {}, {}, "none", Append(<<>>, "SKIP"), W)  BY Ended, Zenon DEF Result
<1>18. Good(t, <<Close("s", "W")>>, {<<"s", "W">>}, {}, "none", Append(<<>>, "SKIP"), W)
  BY <1>17, CloseRule, FdFacts, TwoPipes, GoodOne, Zenon
<1>19. Good(t, <<Close("s", "R"), Close("s", "W")>>, Ends("s"), {}, "none", Append(<<>>,
        "SKIP"), W)
  BY <1>18, CloseRule, FdFacts, TwoPipes, GoodTuple2, Zenon
<1>20. Good(t, <<Close("r", "W"), Close("s", "R"), Close("s", "W")>>, Ends("s") \cup {<<"r",
        "W">>}, {}, "none", Append(<<>>, "SKIP"), W)
  BY <1>19, CloseRule, FdFacts, TwoPipes, GoodTuple3, Zenon
<1>21. Good(t, <<Close("r", "R"), Close("r", "W"), Close("s", "R"), Close("s", "W")>>, Ends("r")
        \cup Ends("s"), {}, "none", Append(<<>>, "SKIP"), W)
  BY <1>20, CloseRule, FdFacts, TwoPipes, GoodTuple4, Zenon
<1>22. Good(t, Say("SKIP") \o <<Close("r", "R"), Close("r", "W"), Close("s", "R"), Close("s",
        "W")>>, Ends("r") \cup Ends("s"), {}, "none", <<>>, W)
  BY <1>21, SayRule, Zenon DEF Result
<1>23. Good(t, c3, Ends("r") \cup Ends("s"), {}, "none", <<>>, W)
  BY <1>16, <1>22, ForkRule, <1>b, <1>c, Zenon
<1>24. Good(t, <<Report("SKIP")>>, {}, {}, "none", <<>>, W)
  BY <1>17, ReportRule, ResultFacts, GoodOne, Zenon
<1>25. Good(t, <<Close("r", "W"), Report("SKIP")>>, {<<"r", "W">>}, {}, "none", <<>>, W)
  BY <1>24, CloseRule, FdFacts, TwoPipes, GoodTuple2, Zenon
<1>26. Good(t, <<Close("r", "R"), Close("r", "W"), Report("SKIP")>>, Ends("r"), {}, "none",
        <<>>, W)
  BY <1>25, CloseRule, FdFacts, TwoPipes, GoodTuple3, Zenon
<1>27. Good(t, c2, Ends("r"), {}, "none", <<>>, W)
  BY <1>23, <1>26, PipeRule, ResultFacts, FdFacts, TwoPipes, Zenon
<1>28. Good(t, Say("SKIP"), {}, {}, "none", <<>>, W)  BY <1>17, SayLast, Zenon DEF Result
<1>29. Good(t, c1, {}, {}, "none", <<>>, W)
  BY <1>27, <1>28, PipeRule, ResultFacts, FdFacts, TwoPipes, Zenon
<1>30. IsSeq(idmapVerdict)  BY <1>1, GoodSeq, Zenon
<1>31. Good(t, <<Pipe("r", Say("SKIP")), Pipe("s", <<Close("r", "R"), Close("r", "W"),
        Report("SKIP")>>), Fork(ch, Say("SKIP") \o <<Close("r", "R"), Close("r", "W"),
        Close("s", "R"), Close("s", "W")>>), Close("r", "W"), Close("s", "R"), Recv("r",
        idmapEnd("SKIP")), On("ENOENT", idmapEnd("STUB")), On("ERR", idmapEnd("FAIL")),
        On("garbled", idmapEnd("SKIP")), Try("setgroups", mappingError), Try("uid_map",
        mappingError), Try("gid_map", mappingError), Send("s", "release"), Close("s", "W")>> \o
        idmapVerdict, {}, {}, "none", <<>>, W)
  BY <1>29, <1>30, GoodCat14, Zenon
<1>. QED  BY <1>31, Zenon DEF user_idmap, write_userns_map, ch

LEMMA AccessGood ==
  ASSUME NEW t, t # "pid", NEW W
  PROVE  Good(t, proc_ns_access, {}, {}, "none", <<>>, W)
<1>1. Good(t, <<>>, {}, {}, "none", Append(<<>>, "PASS"), W)  BY Ended, Zenon DEF Result
<1>2. Good(t, <<Report("PASS")>>, {}, {}, "none", <<>>, W)
  BY <1>1, ReportRule, ResultFacts, GoodOne, Zenon
<1>3. Good(t, <<>>, {}, {}, "none", Append(<<>>, "FAIL"), W)  BY Ended, Zenon DEF Result
<1>4. Good(t, Say("FAIL"), {}, {}, "none", <<>>, W)  BY <1>3, SayLast, Zenon DEF Result
<1>5. Good(t, <<Try("access", Say("FAIL")), Report("PASS")>>, {}, {}, "none", <<>>, W)
  BY <1>2, <1>4, CallRule, MainNames, GoodTuple2, Zenon
<1>. QED  BY <1>5, Zenon DEF proc_ns_access

LEMMA NofollowGood ==
  ASSUME NEW t, t # "helper", t # "pid", NEW W
  PROVE  Good(t, proc_ns_nofollow, {}, {}, "none", <<>>, W)
<1>. DEFINE c5 == <<Report("FAIL")>> \o <<>>
            c4 == <<Observe("full", Say("PASS"))>> \o c5
            c3 == <<Drop("fd")>> \o c4
            c2 == <<Try("fstat", <<Drop("fd"), Report("FAIL")>>)>> \o c3
            c1 == <<Make("fd", Say("FAIL"))>> \o c2
<1>1. Good(t, <<>>, {}, {}, "none", Append(<<>>, "FAIL"), W)  BY Ended, Zenon DEF Result
<1>2. Good(t, c5, {}, {}, "none", <<>>, W)  BY <1>1, ReportRule, ResultFacts, Zenon
<1>3. Good(t, <<>>, {}, {}, "none", Append(<<>>, "PASS"), W)  BY Ended, Zenon DEF Result
<1>4. Good(t, Say("PASS"), {}, {}, "none", <<>>, W)  BY <1>3, SayLast, Zenon DEF Result
<1>5. Good(t, c4, {}, {}, "none", <<>>, W)  BY <1>2, <1>4, ObserveRule, Zenon
<1>6. Good(t, c3, {}, {"fd"}, "none", <<>>, W)  BY <1>5, DropRule, ObjFacts, Zenon
<1>7. Good(t, <<Report("FAIL")>>, {}, {}, "none", <<>>, W)
  BY <1>1, ReportRule, ResultFacts, GoodOne, Zenon
<1>8. Good(t, <<Drop("fd"), Report("FAIL")>>, {}, {"fd"}, "none", <<>>, W)
  BY <1>7, DropRule, ObjFacts, GoodTuple2, Zenon
<1>9. Good(t, c2, {}, {"fd"}, "none", <<>>, W)  BY <1>6, <1>8, CallRule, MainNames, Zenon
<1>10. Good(t, Say("FAIL"), {}, {}, "none", <<>>, W)  BY <1>1, SayLast, Zenon DEF Result
<1>11. Good(t, c1, {}, {}, "none", <<>>, W)
  BY <1>9, <1>10, MakeRule, ObjFacts, Zenon DEF Objects
<1>12. Good(t, <<Make("fd", Say("FAIL")), Try("fstat", <<Drop("fd"), Report("FAIL")>>),
        Drop("fd"), Observe("full", Say("PASS")), Report("FAIL")>>, {}, {}, "none", <<>>, W)
  BY <1>11, GoodTuple5, Zenon
<1>. QED  BY <1>12, Zenon DEF proc_ns_nofollow

LEMMA SemFailGood ==
  ASSUME NEW t, t # "helper", t # "pid", NEW k, k \in {"none", "reaped"}, NEW W
  PROVE  Good(t, semFail, {}, {"sem"}, k, <<>>, W)
<1>1. Good(t, <<>>, {}, {}, k, Append(<<>>, "FAIL"), W)  BY Ended, Zenon DEF Result
<1>2. Good(t, <<Drop("sem")>>, {}, {"sem"}, k, Append(<<>>, "FAIL"), W)
  BY <1>1, DropRule, ObjFacts, GoodOne, Zenon
<1>3. Good(t, Say("FAIL") \o <<Drop("sem")>>, {}, {"sem"}, k, <<>>, W)
  BY <1>2, SayRule, Zenon DEF Result
<1>. QED  BY <1>3, Zenon DEF semFail

LEMMA CloneIpcEndGood ==
  ASSUME NEW t, t # "helper", t # "pid", NEW k, k \in {"none", "reaped"}, NEW res, res \in
        Result, NEW W
  PROVE  Good(t, cloneIpcEnd(res), {<<"r", "R">>}, {"sem"}, k, <<>>, W)
<1>1. Good(t, <<>>, {}, {}, k, Append(<<>>, res), W)  BY Ended, Zenon DEF Result
<1>2. Good(t, <<Drop("sem")>>, {}, {"sem"}, k, Append(<<>>, res), W)
  BY <1>1, DropRule, ObjFacts, GoodOne, Zenon
<1>3. Good(t, <<Close("r", "R"), Drop("sem")>>, {<<"r", "R">>}, {"sem"}, k, Append(<<>>, res), W)
  BY <1>2, CloseRule, FdFacts, TwoPipes, GoodTuple2, Zenon
<1>4. Good(t, Say(res) \o <<Close("r", "R"), Drop("sem")>>, {<<"r", "R">>}, {"sem"}, k, <<>>, W)
  BY <1>3, SayRule, Zenon DEF Result
<1>. QED  BY <1>4, Zenon DEF cloneIpcEnd

LEMMA NewipcGood ==
  ASSUME NEW t, t # "helper", t # "pid", NEW W
  PROVE  Good(t, clone_newipc, {}, {}, "none", <<>>, W)
<1>. DEFINE ch == <<Observe("none", <<Send("r", "bad"), Exit({"one"})>>), Try("semget",
        <<Send("r", "bad"), Exit({"one"})>>), Send("r", "good")>>
<1>a. SubOk("child", ch)  BY SubNewipc
<1>b. Level(t) = "child"  BY DEF Level
<1>. HIDE DEF ch
<1>. DEFINE c9 == <<On("good", cloneIpcEnd("PASS"))>> \o cloneIpcEnd("FAIL")
            c8 == <<WaitOk(cloneIpcEnd("FAIL"))>> \o c9
            c7 == <<Recv("r", <<Wait>> \o cloneIpcEnd("FAIL"))>> \o c8
            c6 == <<Close("r", "W")>> \o c7
            c5 == <<Fork(ch, <<Close("r", "W")>> \o cloneIpcEnd("FAIL"))>> \o c6
            c4 == <<Try("malloc", Say("FAIL") \o <<Close("r", "R"), Close("r", "W"), Drop("sem")>>)>> \o c5
            c3 == <<Pipe("r", semFail)>> \o c4
            c2 == <<Try("semadd", semFail)>> \o c3
            c1 == <<Make("sem", Say("FAIL"))>> \o c2
<1>1. Good(t, cloneIpcEnd("FAIL"), {<<"r", "R">>}, {"sem"}, "reaped", <<>>, W)
  BY CloneIpcEndGood, Zenon DEF Result
<1>2. Good(t, cloneIpcEnd("PASS"), {<<"r", "R">>}, {"sem"}, "reaped", <<>>, W)
  BY CloneIpcEndGood, Zenon DEF Result
<1>3. Good(t, c9, {<<"r", "R">>}, {"sem"}, "reaped", <<>>, W)  BY <1>1, <1>2, OnRule, Zenon
<1>4. Good(t, c8, {<<"r", "R">>}, {"sem"}, "forked", <<>>, W)  BY <1>3, <1>1, WaitOkRule, Zenon
<1>5. Good(t, <<Wait>> \o cloneIpcEnd("FAIL"), {<<"r", "R">>}, {"sem"}, "forked", <<>>, W)
  BY <1>1, WaitRule, Zenon
<1>6. Good(t, c7, {<<"r", "R">>}, {"sem"}, "forked", <<>>, W)  BY <1>4, <1>5, RecvRule, Zenon
<1>7. Good(t, c6, Ends("r"), {"sem"}, "forked", <<>>, W)
  BY <1>6, CloseRule, FdFacts, TwoPipes, Zenon
<1>8. Good(t, cloneIpcEnd("FAIL"), {<<"r", "R">>}, {"sem"}, "none", <<>>, W)
  BY CloneIpcEndGood, Zenon DEF Result
<1>9. Good(t, <<Close("r", "W")>> \o cloneIpcEnd("FAIL"), Ends("r"), {"sem"}, "none", <<>>, W)
  BY <1>8, CloseRule, FdFacts, TwoPipes, Zenon
<1>10. Good(t, c5, Ends("r"), {"sem"}, "none", <<>>, W)
  BY <1>7, <1>9, ForkRule, <1>a, <1>b, Zenon
<1>11. Good(t, <<>>, {}, {}, "none", Append(<<>>, "FAIL"), W)  BY Ended, Zenon DEF Result
<1>12. Good(t, <<Drop("sem")>>, {}, {"sem"}, "none", Append(<<>>, "FAIL"), W)
  BY <1>11, DropRule, ObjFacts, GoodOne, Zenon
<1>13. Good(t, <<Close("r", "W"), Drop("sem")>>, {<<"r", "W">>}, {"sem"}, "none", Append(<<>>,
        "FAIL"), W)
  BY <1>12, CloseRule, FdFacts, TwoPipes, GoodTuple2, Zenon
<1>14. Good(t, <<Close("r", "R"), Close("r", "W"), Drop("sem")>>, Ends("r"), {"sem"}, "none",
        Append(<<>>, "FAIL"), W)
  BY <1>13, CloseRule, FdFacts, TwoPipes, GoodTuple3, Zenon
<1>15. Good(t, Say("FAIL") \o <<Close("r", "R"), Close("r", "W"), Drop("sem")>>, Ends("r"),
        {"sem"}, "none", <<>>, W)
  BY <1>14, SayRule, Zenon DEF Result
<1>16. Good(t, c4, Ends("r"), {"sem"}, "none", <<>>, W)
  BY <1>10, <1>15, CallRule, MainNames, Zenon
<1>17. Good(t, semFail, {}, {"sem"}, "none", <<>>, W)  BY SemFailGood, Zenon
<1>18. Good(t, c3, {}, {"sem"}, "none", <<>>, W)
  BY <1>16, <1>17, PipeRule, ResultFacts, FdFacts, TwoPipes, Zenon
<1>19. Good(t, c2, {}, {"sem"}, "none", <<>>, W)  BY <1>18, <1>17, CallRule, MainNames, Zenon
<1>20. Good(t, Say("FAIL"), {}, {}, "none", <<>>, W)  BY <1>11, SayLast, Zenon DEF Result
<1>21. Good(t, c1, {}, {}, "none", <<>>, W)
  BY <1>19, <1>20, MakeRule, ObjFacts, Zenon DEF Objects
<1>22. IsSeq(cloneIpcEnd("FAIL"))  BY <1>1, GoodSeq, Zenon
<1>23. Good(t, <<Make("sem", Say("FAIL")), Try("semadd", semFail), Pipe("r", semFail),
        Try("malloc", Say("FAIL") \o <<Close("r", "R"), Close("r", "W"), Drop("sem")>>),
        Fork(ch, <<Close("r", "W")>> \o cloneIpcEnd("FAIL")), Close("r", "W"), Recv("r",
        <<Wait>> \o cloneIpcEnd("FAIL")), WaitOk(cloneIpcEnd("FAIL")), On("good",
        cloneIpcEnd("PASS"))>> \o cloneIpcEnd("FAIL"), {}, {}, "none", <<>>, W)
  BY <1>21, <1>22, GoodCat9, Zenon
<1>. QED  BY <1>23, Zenon DEF clone_newipc, ch

LEMMA SysvsemGood ==
  ASSUME NEW t, t # "helper", t # "pid", NEW W
  PROVE  Good(t, clone_sysvsem, {}, {}, "none", <<>>, W)
<1>. DEFINE ch == <<Try("semop", <<Exit({"one"})>>)>>
<1>a. SubOk("child", ch)  BY SubSysvsem
<1>b. Level(t) = "child"  BY DEF Level
<1>. HIDE DEF ch
<1>. DEFINE c8 == <<Drop("sem")>> \o <<>>
            c7 == <<Report("PASS")>> \o c8
            c6 == <<Observe("none", semFail)>> \o c7
            c5 == <<WaitOk(semFail)>> \o c6
            c4 == <<Fork(ch, semFail)>> \o c5
            c3 == <<Try("malloc", semFail)>> \o c4
            c2 == <<Try("semadd", semFail)>> \o c3
            c1 == <<Make("sem", Say("FAIL"))>> \o c2
<1>1. Good(t, <<>>, {}, {}, "reaped", Append(<<>>, "PASS"), W)  BY Ended, Zenon DEF Result
<1>2. Good(t, c8, {}, {"sem"}, "reaped", Append(<<>>, "PASS"), W)
  BY <1>1, DropRule, ObjFacts, Zenon
<1>3. Good(t, c7, {}, {"sem"}, "reaped", <<>>, W)  BY <1>2, ReportRule, ResultFacts, Zenon
<1>4. Good(t, semFail, {}, {"sem"}, "reaped", <<>>, W)  BY SemFailGood, Zenon
<1>5. Good(t, c6, {}, {"sem"}, "reaped", <<>>, W)  BY <1>3, <1>4, ObserveRule, Zenon
<1>6. Good(t, c5, {}, {"sem"}, "forked", <<>>, W)  BY <1>5, <1>4, WaitOkRule, Zenon
<1>7. Good(t, semFail, {}, {"sem"}, "none", <<>>, W)  BY SemFailGood, Zenon
<1>8. Good(t, c4, {}, {"sem"}, "none", <<>>, W)  BY <1>6, <1>7, ForkRule, <1>a, <1>b, Zenon
<1>9. Good(t, c3, {}, {"sem"}, "none", <<>>, W)  BY <1>8, <1>7, CallRule, MainNames, Zenon
<1>10. Good(t, c2, {}, {"sem"}, "none", <<>>, W)  BY <1>9, <1>7, CallRule, MainNames, Zenon
<1>11. Good(t, <<>>, {}, {}, "none", Append(<<>>, "FAIL"), W)  BY Ended, Zenon DEF Result
<1>12. Good(t, Say("FAIL"), {}, {}, "none", <<>>, W)  BY <1>11, SayLast, Zenon DEF Result
<1>13. Good(t, c1, {}, {}, "none", <<>>, W)
  BY <1>10, <1>12, MakeRule, ObjFacts, Zenon DEF Objects
<1>14. Good(t, <<Make("sem", Say("FAIL")), Try("semadd", semFail), Try("malloc", semFail),
        Fork(ch, semFail), WaitOk(semFail), Observe("none", semFail), Report("PASS"),
        Drop("sem")>>, {}, {}, "none", <<>>, W)
  BY <1>13, GoodTuple8, Zenon
<1>. QED  BY <1>14, Zenon DEF clone_sysvsem, ch

LEMMA PidfdGood ==
  ASSUME NEW t, t # "helper", t # "pid", NEW W
  PROVE  Good(t, pidfd, {}, {}, "none", <<>>, W)
<1>. DEFINE ch == <<>>
<1>a. SubOk("child", ch)  BY SubEmpty
<1>b. Level(t) = "child"  BY DEF Level
<1>. HIDE DEF ch
<1>. DEFINE c7 == <<Report("STUB")>> \o <<>>
            c6 == <<Judge("POLLIN", "PASS")>> \o c7
            c5 == <<Wait>> \o c6
            c4 == <<Drop("pidfd")>> \o c5
            c3 == <<Op("poll")>> \o c4
            c2 == <<Make("pidfd", Say("FAIL") \o <<Wait>>)>> \o c3
            c1 == <<Fork(ch, Say("SKIP"))>> \o c2
<1>1. Good(t, <<>>, {}, {}, "reaped", Append(<<>>, "STUB"), W)  BY Ended, Zenon DEF Result
<1>2. Good(t, c7, {}, {}, "reaped", <<>>, W)  BY <1>1, ReportRule, ResultFacts, Zenon
<1>3. Good(t, <<>>, {}, {}, "reaped", Append(<<>>, "PASS"), W)  BY Ended, Zenon DEF Result
<1>4. Good(t, Say("PASS"), {}, {}, "reaped", <<>>, W)  BY <1>3, SayLast, Zenon DEF Result
<1>5. Good(t, c6, {}, {}, "reaped", <<>>, W)  BY <1>2, <1>4, JudgeRule, Zenon
<1>6. Good(t, c5, {}, {}, "forked", <<>>, W)  BY <1>5, WaitRule, Zenon
<1>7. Good(t, c4, {}, {"pidfd"}, "forked", <<>>, W)  BY <1>6, DropRule, ObjFacts, Zenon
<1>8. Good(t, c3, {}, {"pidfd"}, "forked", <<>>, W)  BY <1>7, OpRule, Zenon
<1>9. Good(t, <<>>, {}, {}, "reaped", Append(<<>>, "FAIL"), W)  BY Ended, Zenon DEF Result
<1>10. Good(t, <<Wait>>, {}, {}, "forked", Append(<<>>, "FAIL"), W)
  BY <1>9, WaitRule, GoodOne, Zenon
<1>11. Good(t, Say("FAIL") \o <<Wait>>, {}, {}, "forked", <<>>, W)
  BY <1>10, SayRule, Zenon DEF Result
<1>12. Good(t, c2, {}, {}, "forked", <<>>, W)
  BY <1>8, <1>11, MakeRule, ObjFacts, Zenon DEF Objects
<1>13. Good(t, <<>>, {}, {}, "none", Append(<<>>, "SKIP"), W)  BY Ended, Zenon DEF Result
<1>14. Good(t, Say("SKIP"), {}, {}, "none", <<>>, W)  BY <1>13, SayLast, Zenon DEF Result
<1>15. Good(t, c1, {}, {}, "none", <<>>, W)  BY <1>12, <1>14, ForkRule, <1>a, <1>b, Zenon
<1>16. Good(t, <<Fork(ch, Say("SKIP")), Make("pidfd", Say("FAIL") \o <<Wait>>), Op("poll"),
        Drop("pidfd"), Wait, Judge("POLLIN", "PASS"), Report("STUB")>>, {}, {}, "none", <<>>, W)
  BY <1>15, GoodTuple7, Zenon
<1>. QED  BY <1>16, Zenon DEF pidfd, ch

LEMMA PtraceFailGood ==
  ASSUME NEW t, t # "helper", t # "pid", NEW k, NEW W
  PROVE  Good(t, ptraceFail, {}, {}, k, <<>>, W)
<1>1. Good(t, <<>>, {}, {}, "reaped", Append(<<>>, "FAIL"), W)  BY Ended, Zenon DEF Result
<1>2. Good(t, <<Wait>>, {}, {}, k, Append(<<>>, "FAIL"), W)  BY <1>1, WaitRule, GoodOne, Zenon
<1>3. Good(t, <<Op("sigkill"), Wait>>, {}, {}, k, Append(<<>>, "FAIL"), W)
  BY <1>2, OpRule, GoodTuple2, Zenon
<1>4. Good(t, Say("FAIL") \o <<Op("sigkill"), Wait>>, {}, {}, k, <<>>, W)
  BY <1>3, SayRule, Zenon DEF Result
<1>. QED  BY <1>4, Zenon DEF ptraceFail

LEMMA PtraceGood ==
  ASSUME NEW t, t # "helper", t # "pid", NEW W
  PROVE  Good(t, ptrace, {}, {}, "none", <<>>, W)
<1>. DEFINE ch == <<Try("traceme", <<Exit({"one"})>>), Op("stop")>>
<1>a. SubOk("child", ch)  BY SubPtrace
<1>b. Level(t) = "child"  BY DEF Level
<1>. HIDE DEF ch
<1>. DEFINE c5 == <<Report("PASS")>> \o <<>>
            c4 == <<Wait>> \o c5
            c3 == <<Cont(ptraceFail)>> \o c4
            c2 == <<WaitStop(ptraceFail)>> \o c3
            c1 == <<Fork(ch, Say("SKIP"))>> \o c2
<1>1. Good(t, <<>>, {}, {}, "reaped", Append(<<>>, "PASS"), W)  BY Ended, Zenon DEF Result
<1>2. Good(t, c5, {}, {}, "reaped", <<>>, W)  BY <1>1, ReportRule, ResultFacts, Zenon
<1>3. Good(t, c4, {}, {}, "forked", <<>>, W)  BY <1>2, WaitRule, Zenon
<1>4. Good(t, ptraceFail, {}, {}, "forked", <<>>, W)  BY PtraceFailGood, Zenon
<1>5. Good(t, c3, {}, {}, "forked", <<>>, W)  BY <1>3, <1>4, ContRule, Zenon
<1>6. Good(t, ptraceFail, {}, {}, "reaped", <<>>, W)  BY PtraceFailGood, Zenon
<1>7. Good(t, c2, {}, {}, "forked", <<>>, W)  BY <1>5, <1>6, WaitStopRule, Zenon
<1>8. Good(t, <<>>, {}, {}, "none", Append(<<>>, "SKIP"), W)  BY Ended, Zenon DEF Result
<1>9. Good(t, Say("SKIP"), {}, {}, "none", <<>>, W)  BY <1>8, SayLast, Zenon DEF Result
<1>10. Good(t, c1, {}, {}, "none", <<>>, W)  BY <1>7, <1>9, ForkRule, <1>a, <1>b, Zenon
<1>11. Good(t, <<Fork(ch, Say("SKIP")), WaitStop(ptraceFail), Cont(ptraceFail), Wait,
        Report("PASS")>>, {}, {}, "none", <<>>, W)
  BY <1>10, GoodTuple5, Zenon
<1>. QED  BY <1>11, Zenon DEF ptrace, ch

\* The end of the pid test after two lines.
LEMMA EndedTwice ==
  ASSUME NEW t, t = "pid", NEW W, NEW x, x \in {"PASS", "STUB"}, NEW y
  PROVE  Good(t, <<>>, {}, {}, "reaped", Append(Append(<<>>, x), y), W)
<1>1. <<x>> \in Seq({x, y}) /\ Append(<<>>, x) = <<x>>  OBVIOUS
<1>2. Len(Append(<<x>>, y)) = 2 /\ Append(<<x>>, y)[1] = x  BY <1>1
<1>3. Final(t, {}, {}, "reaped", Append(Append(<<>>, x), y), W)  BY <1>1, <1>2 DEF Final
<1>. QED  BY <1>3, GoodEnd, Zenon

\* The verdict of the pid test prints one line or two.
LEMMA PidVerdictGood ==
  ASSUME NEW t, t = "pid", NEW W
  PROVE  Good(t, pidVerdict, {}, {}, "reaped", <<>>, W)
<1>. DEFINE c6 == <<Report("PASS")>> \o <<>>
            c5 == <<Judge("bad", "FAIL")>> \o c6
            c4 == <<Judge("nofresh", "SKIP")>> \o c5
            c3 == <<Report("PASS")>> \o c4
            c2 == <<On("notone", Say("STUB") \o Say("SKIP"))>> \o c3
            c1 == <<Judge("ERR", "FAIL")>> \o c2
<1>1. Good(t, <<>>, {}, {}, "reaped", Append(Append(<<>>, "PASS"), "PASS"), W)
  BY EndedTwice, Zenon DEF Result
<1>2. Good(t, c6, {}, {}, "reaped", Append(<<>>, "PASS"), W)
  BY <1>1, ReportRule, ResultFacts, Zenon
<1>3. Good(t, <<>>, {}, {}, "reaped", Append(Append(<<>>, "PASS"), "FAIL"), W)
  BY EndedTwice, Zenon DEF Result
<1>4. Good(t, Say("FAIL"), {}, {}, "reaped", Append(<<>>, "PASS"), W)
  BY <1>3, SayLast, Zenon DEF Result
<1>5. Good(t, c5, {}, {}, "reaped", Append(<<>>, "PASS"), W)  BY <1>2, <1>4, JudgeRule, Zenon
<1>6. Good(t, <<>>, {}, {}, "reaped", Append(Append(<<>>, "PASS"), "SKIP"), W)
  BY EndedTwice, Zenon DEF Result
<1>7. Good(t, Say("SKIP"), {}, {}, "reaped", Append(<<>>, "PASS"), W)
  BY <1>6, SayLast, Zenon DEF Result
<1>8. Good(t, c4, {}, {}, "reaped", Append(<<>>, "PASS"), W)  BY <1>5, <1>7, JudgeRule, Zenon
<1>9. Good(t, c3, {}, {}, "reaped", <<>>, W)  BY <1>8, ReportRule, ResultFacts, Zenon
<1>10. Good(t, <<>>, {}, {}, "reaped", Append(Append(<<>>, "STUB"), "SKIP"), W)
  BY EndedTwice, Zenon DEF Result
<1>11. Good(t, Say("SKIP"), {}, {}, "reaped", Append(<<>>, "STUB"), W)
  BY <1>10, SayLast, Zenon DEF Result
<1>12. Good(t, Say("STUB") \o Say("SKIP"), {}, {}, "reaped", <<>>, W)
  BY <1>11, SayRule, Zenon DEF Result
<1>13. Good(t, c2, {}, {}, "reaped", <<>>, W)  BY <1>9, <1>12, OnRule, Zenon
<1>14. Good(t, <<>>, {}, {}, "reaped", Append(<<>>, "FAIL"), W)  BY Ended, Zenon DEF Result
<1>15. Good(t, Say("FAIL"), {}, {}, "reaped", <<>>, W)  BY <1>14, SayLast, Zenon DEF Result
<1>16. Good(t, c1, {}, {}, "reaped", <<>>, W)  BY <1>13, <1>15, JudgeRule, Zenon
<1>17. Good(t, <<Judge("ERR", "FAIL"), On("notone", Say("STUB") \o Say("SKIP")), Report("PASS"),
        Judge("nofresh", "SKIP"), Judge("bad", "FAIL"), Report("PASS")>>, {}, {}, "reaped",
        <<>>, W)
  BY <1>16, GoodTuple6, Zenon
<1>. QED  BY <1>17, Zenon DEF pidVerdict

\* The end of a round trip, and a call in it that fails.
LEMMA RoundTripEnd ==
  ASSUME NEW t, t # "helper", t # "pid", NEW o, NEW W
  PROVE  /\ Good(t, <<Drop(o), Observe("full", Say("PASS")), Report("STUB")>>, {}, {o}, "none",
               <<>>, W)
         /\ Good(t, Say("FAIL") \o <<Drop(o)>>, {}, {o}, "none", <<>>, W)
<1>o. {} = {o} \ {o}  OBVIOUS
<1>1. Good(t, <<>>, {}, {}, "none", Append(<<>>, "STUB"), W)  BY Ended, Zenon DEF Result
<1>2. Good(t, <<Report("STUB")>>, {}, {}, "none", <<>>, W)
  BY <1>1, ReportRule, ResultFacts, GoodOne, Zenon
<1>3. Good(t, <<>>, {}, {}, "none", Append(<<>>, "PASS"), W)  BY Ended, Zenon DEF Result
<1>4. Good(t, Say("PASS"), {}, {}, "none", <<>>, W)  BY <1>3, SayLast, Zenon DEF Result
<1>5. Good(t, <<Observe("full", Say("PASS")), Report("STUB")>>, {}, {}, "none", <<>>, W)
  BY <1>2, <1>4, ObserveRule, GoodTuple2, Zenon
<1>6. Good(t, <<Drop(o), Observe("full", Say("PASS")), Report("STUB")>>, {}, {o}, "none", <<>>, W)
  BY <1>5, DropRule, <1>o, GoodTuple3, Zenon
<1>7. Good(t, <<>>, {}, {}, "none", Append(<<>>, "FAIL"), W)  BY Ended, Zenon DEF Result
<1>8. Good(t, <<Drop(o)>>, {}, {o}, "none", Append(<<>>, "FAIL"), W)
  BY <1>7, DropRule, <1>o, GoodOne, Zenon
<1>9. Good(t, Say("FAIL") \o <<Drop(o)>>, {}, {o}, "none", <<>>, W)
  BY <1>8, SayRule, Zenon DEF Result
<1>. QED  BY <1>6, <1>9, Zenon

LEMMA RoundTripMake ==
  ASSUME NEW t, t # "helper", t # "pid", NEW o, o \in Objects, NEW W, NEW tries, IsSeq(tries),
         Good(t, tries \o <<Drop(o), Observe("full", Say("PASS")), Report("STUB")>>, {}, {o},
        "none", <<>>, W)
  PROVE  Good(t, <<Make(o, Say("FAIL"))>> \o tries \o <<Drop(o), Observe("full", Say("PASS")),
        Report("STUB")>>, {}, {}, "none", <<>>, W)
<1>. DEFINE e == <<Drop(o), Observe("full", Say("PASS")), Report("STUB")>>
<1>1. {o} = {} \cup {o}  OBVIOUS
<1>2. Good(t, Say("FAIL"), {}, {}, "none", <<>>, W)  BY Ended, SayLast, Zenon DEF Result
<1>3. Good(t, <<Make(o, Say("FAIL"))>> \o (tries \o e), {}, {}, "none", <<>>, W)
  BY <1>1, <1>2, MakeRule, Zenon
<1>4. IsSeq(e)  BY RoundTripEnd, GoodSeq, Zenon
<1>. HIDE DEF e
<1>5. (<<Make(o, Say("FAIL"))>> \o tries) \o e = <<Make(o, Say("FAIL"))>> \o (tries \o e)
  BY <1>4, CatFacts
<1>6. Good(t, (<<Make(o, Say("FAIL"))>> \o tries) \o e, {}, {}, "none", <<>>, W)
  BY <1>3, <1>5, Zenon
<1>. QED  BY <1>6 DEF e

LEMMA RoundTrip1 ==
  ASSUME NEW t, t # "helper", t # "pid", NEW o, o \in Objects, NEW W,
         NEW x, x \notin WaitCalls
  PROVE  Good(t, RoundTrip(o, <<x>>), {}, {}, "none", <<>>, W)
<1>. DEFINE e == <<Drop(o), Observe("full", Say("PASS")), Report("STUB")>>
            f == Say("FAIL") \o <<Drop(o)>>
<1>1. Good(t, f, {}, {o}, "none", <<>>, W)  BY RoundTripEnd, Zenon
<1>2. Good(t, e, {}, {o}, "none", <<>>, W)  BY RoundTripEnd, Zenon
<1>3. Good(t, <<Try(x, f)>> \o e, {}, {o}, "none", <<>>, W)
  BY <1>2, <1>1, CallRule, Zenon
<1>4. [i \in 1..Len(<<x>>) |-> Try(<<x>>[i], f)] = <<Try(x, f)>>
  <2>. HIDE DEF f
  <2>1. Len(<<x>>) = 1  OBVIOUS
  <2>. QED  BY <2>1
<1>5. IsSeq(<<Try(x, f)>>)
  <2>1. <<Try(x, f)>> \in Seq({Try(x, f)})  OBVIOUS
  <2>. QED  BY <2>1, Zenon DEF IsSeq
<1>6. Good(t, <<Make(o, Say("FAIL"))>> \o <<Try(x, f)>> \o e, {}, {}, "none", <<>>, W)
  BY <1>3, <1>5, RoundTripMake, Zenon
<1>. QED  BY <1>4, <1>6, Zenon DEF RoundTrip

LEMMA RoundTrip2 ==
  ASSUME NEW t, t # "helper", t # "pid", NEW o, o \in Objects, NEW W,
         NEW x, x \notin WaitCalls, NEW y, y \notin WaitCalls
  PROVE  Good(t, RoundTrip(o, <<x, y>>), {}, {}, "none", <<>>, W)
<1>. DEFINE e == <<Drop(o), Observe("full", Say("PASS")), Report("STUB")>>
            f == Say("FAIL") \o <<Drop(o)>>
<1>1. Good(t, f, {}, {o}, "none", <<>>, W)  BY RoundTripEnd, Zenon
<1>2. Good(t, e, {}, {o}, "none", <<>>, W)  BY RoundTripEnd, Zenon
<1>3. Good(t, <<Try(y, f)>> \o e, {}, {o}, "none", <<>>, W)
  BY <1>2, <1>1, CallRule, Zenon
<1>4. Good(t, <<Try(x, f)>> \o (<<Try(y, f)>> \o e), {}, {o}, "none", <<>>, W)
  BY <1>3, <1>1, CallRule, Zenon
<1>5. IsSeq(e)  BY <1>2, GoodSeq, Zenon
<1>6. Good(t, <<Try(x, f), Try(y, f)>> \o e, {}, {o}, "none", <<>>, W)
  BY <1>4, <1>5, GoodCat2, Zenon
<1>7. [i \in 1..Len(<<x, y>>) |-> Try(<<x, y>>[i], f)] = <<Try(x, f), Try(y, f)>>
  <2>. HIDE DEF f
  <2>1. Len(<<x, y>>) = 2  OBVIOUS
  <2>. QED  BY <2>1
<1>8. IsSeq(<<Try(x, f), Try(y, f)>>)
  <2>1. <<Try(x, f), Try(y, f)>> \in Seq({Try(x, f), Try(y, f)})  OBVIOUS
  <2>. QED  BY <2>1, Zenon DEF IsSeq
<1>9. Good(t, <<Make(o, Say("FAIL"))>> \o <<Try(x, f), Try(y, f)>> \o e, {}, {}, "none", <<>>, W)
  BY <1>6, <1>8, RoundTripMake, Zenon
<1>. QED  BY <1>7, <1>9, Zenon DEF RoundTrip

LEMMA RoundTrip3 ==
  ASSUME NEW t, t # "helper", t # "pid", NEW o, o \in Objects, NEW W,
         NEW x, x \notin WaitCalls, NEW y, y \notin WaitCalls, NEW z, z \notin WaitCalls
  PROVE  Good(t, RoundTrip(o, <<x, y, z>>), {}, {}, "none", <<>>, W)
<1>. DEFINE e == <<Drop(o), Observe("full", Say("PASS")), Report("STUB")>>
            f == Say("FAIL") \o <<Drop(o)>>
<1>1. Good(t, f, {}, {o}, "none", <<>>, W)  BY RoundTripEnd, Zenon
<1>2. Good(t, e, {}, {o}, "none", <<>>, W)  BY RoundTripEnd, Zenon
<1>3. Good(t, <<Try(z, f)>> \o e, {}, {o}, "none", <<>>, W)
  BY <1>2, <1>1, CallRule, Zenon
<1>4. Good(t, <<Try(y, f)>> \o (<<Try(z, f)>> \o e), {}, {o}, "none", <<>>, W)
  BY <1>3, <1>1, CallRule, Zenon
<1>5. Good(t, <<Try(x, f)>> \o (<<Try(y, f)>> \o (<<Try(z, f)>> \o e)), {}, {o}, "none", <<>>, W)
  BY <1>4, <1>1, CallRule, Zenon
<1>6. IsSeq(e)  BY <1>2, GoodSeq, Zenon
<1>7. Good(t, <<Try(x, f), Try(y, f), Try(z, f)>> \o e, {}, {o}, "none", <<>>, W)
  BY <1>5, <1>6, GoodCat3, Zenon
<1>8. [i \in 1..Len(<<x, y, z>>) |-> Try(<<x, y, z>>[i], f)] = <<Try(x, f), Try(y, f), Try(z, f)>>
  <2>. HIDE DEF f
  <2>1. Len(<<x, y, z>>) = 3  OBVIOUS
  <2>. QED  BY <2>1
<1>9. IsSeq(<<Try(x, f), Try(y, f), Try(z, f)>>)
  <2>1. <<Try(x, f), Try(y, f), Try(z, f)>> \in Seq({Try(x, f), Try(y, f), Try(z, f)})  OBVIOUS
  <2>. QED  BY <2>1, Zenon DEF IsSeq
<1>10. Good(t, <<Make(o, Say("FAIL"))>> \o <<Try(x, f), Try(y, f), Try(z, f)>> \o e, {}, {}, "none", <<>>, W)
  BY <1>7, <1>9, RoundTripMake, Zenon
<1>. QED  BY <1>8, <1>10, Zenon DEF RoundTrip

\* One throwaway child and the call that reaps it; when the call fails the
\* child stays, and the failure is on record.
LEMMA ReapGood ==
  ASSUME NEW t, t # "helper", t # "pid", NEW call, call \in WaitCalls,
         NEW k, k \in {"none", "reaped"}, NEW W, NEW v,
         Good(t, v, {}, {}, "reaped", <<>>, W)
  PROVE  Good(t, Reap(call) \o v, {}, {}, k, <<>>, W)
<1>. DEFINE W2 == W \cup ({call} \cap WaitCalls)
            c4 == <<Observe("none", Say("STUB"))>> \o v
            c3 == <<WaitOk(Say("STUB"))>> \o c4
            c2 == <<Try(call, Say("FAIL"))>> \o c3
            c1 == <<Fork(<<>>, Say("SKIP"))>> \o c2
<1>1. Good(t, Say("STUB"), {}, {}, "reaped", <<>>, W)  BY Ended, SayLast, Zenon DEF Result
<1>2. Good(t, Say("SKIP"), {}, {}, k, <<>>, W)  BY Ended, SayLast, Zenon DEF Result
<1>3. Good(t, Say("FAIL"), {}, {}, "forked", <<>>, W2)
  <2>1. W2 # {}  OBVIOUS
  <2>2. Append(<<>>, "FAIL") = <<"FAIL">> /\ Len(<<"FAIL">>) = 1  OBVIOUS
  <2>. HIDE DEF W2
  <2>3. Final(t, {}, {}, "forked", Append(<<>>, "FAIL"), W2)  BY <2>1, <2>2 DEF Final
  <2>. QED  BY <2>3, GoodEnd, SayLast, Zenon DEF Result
<1>4. Good(t, c4, {}, {}, "reaped", <<>>, W)  BY <1>1, ObserveRule, Zenon
<1>5. Good(t, c3, {}, {}, "forked", <<>>, W)  BY <1>1, <1>4, WaitOkRule, Zenon
<1>6. Good(t, c2, {}, {}, "forked", <<>>, W)  BY <1>3, <1>5, TryRule, Zenon
<1>7. SubOk(Level(t), <<>>)  BY SubEmpty, Zenon
<1>8. Good(t, c1, {}, {}, k, <<>>, W)  BY <1>2, <1>6, <1>7, ForkRule, Zenon
<1>9. IsSeq(v)  BY GoodSeq, Zenon
<1>10. Good(t, <<Fork(<<>>, Say("SKIP")), Try(call, Say("FAIL")), WaitOk(Say("STUB")),
                 Observe("none", Say("STUB"))>> \o v, {}, {}, k, <<>>, W)
  BY <1>8, <1>9, GoodCat4, Zenon
<1>. QED  BY <1>10, Zenon DEF Reap

LEMMA WaitGood ==
  ASSUME NEW t, t # "helper", t # "pid", NEW W
  PROVE  Good(t, wait, {}, {}, "none", <<>>, W)
<1>1. Good(t, Say("PASS"), {}, {}, "reaped", <<>>, W)  BY Ended, SayLast, Zenon DEF Result
<1>2. "wait4" \in WaitCalls /\ "waitid" \in WaitCalls  BY DEF WaitCalls
<1>3. Good(t, Reap("waitid") \o Say("PASS"), {}, {}, "reaped", <<>>, W)
  BY <1>1, <1>2, ReapGood, Zenon
<1>4. Good(t, Reap("wait4") \o (Reap("waitid") \o Say("PASS")), {}, {}, "none", <<>>, W)
  BY <1>2, <1>3, ReapGood, Zenon
<1>5. IsSeq(Reap("wait4")) /\ IsSeq(Reap("waitid")) /\ IsSeq(Say("PASS"))
  <2>1. ASSUME NEW call PROVE IsSeq(Reap(call))
    <3>1. Reap(call) \in Seq({Fork(<<>>, Say("SKIP")), Try(call, Say("FAIL")),
                              WaitOk(Say("STUB")), Observe("none", Say("STUB"))})
      BY DEF Reap
    <3>. QED  BY <3>1, Zenon DEF IsSeq
  <2>. QED  BY <1>1, <2>1, GoodSeq, Zenon
<1>6. (Reap("wait4") \o Reap("waitid")) \o Say("PASS")
        = Reap("wait4") \o (Reap("waitid") \o Say("PASS"))
  BY <1>5, CatAssoc
<1>. QED  BY <1>4, <1>6, Zenon DEF wait

\* Every test, run by main().
TestNames ==
  {"uts", "pid", "pid_procfs_content", "pid_signal", "pid_pgrp", "pidfd", "ptrace", "wait",
   "user", "user_idmap", "proc_ns_access", "proc_ns_nofollow", "generic_ns", "clone_newipc",
   "mqueue", "mqueue_attr", "sysvipc", "sysv_sem", "clone_sysvsem", "sysv_shm", "overlay"}

LEMMA TestNamesFact == ToSet(mainTests) \subseteq TestNames
<1>1. DOMAIN mainTests = 1..21  BY DEF mainTests
<1>2. \A i \in 1..21 : mainTests[i] \in TestNames  BY DEF mainTests, TestNames
<1>. QED  BY <1>1, <1>2 DEF ToSet

LEMMA UserTestGood ==
  ASSUME NEW t, t # "pid", NEW W
  PROVE  Good(t, userTest, {}, {}, "none", <<>>, W)
<1>1. Good(t, Verdict, {}, {}, "reaped", <<>>, W)  BY VerdictGood, Zenon
<1>2. SubOk(Level(t), <<Try("unshare", SendErr)>> \o SendSeen)  BY SubUser, Zenon
<1>. QED  BY <1>1, <1>2, PipeTestGood, Zenon DEF userTest

\* The throwaway process of run_as_uid1().
LEMMA HelperGood ==
  Good("helper", <<Try("setuid", Say("SKIP"))>> \o userTest, {}, {}, "none", <<>>, {})
<1>1. "helper" # "pid"  OBVIOUS
<1>2. Good("helper", userTest, {}, {}, "none", <<>>, {})  BY <1>1, UserTestGood, Zenon
<1>3. Good("helper", <<>>, {}, {}, "none", Append(<<>>, "SKIP"), {})
  BY <1>1, Ended, Zenon DEF Result
<1>4. Good("helper", Say("SKIP"), {}, {}, "none", <<>>, {})  BY <1>3, SayLast, Zenon DEF Result
<1>. QED  BY <1>2, <1>4, MainNames, CallRule, Zenon

\* A test around a pipe whose verdict prints one line.
LEMMA PipeTestChild ==
  ASSUME NEW t, t # "helper", NEW child, SubOk("child", child), NEW verdict,
         Good(t, verdict, {}, {}, "reaped", <<>>, {})
  PROVE  Good(t, PipeTest(child, verdict), {}, {}, "none", <<>>, {})
<1>1. Level(t) = "child"  BY DEF Level
<1>. QED  BY <1>1, PipeTestGood, Zenon

LEMMA CallNames ==
  /\ "mq_send" \notin WaitCalls /\ "mq_receive" \notin WaitCalls
  /\ "mq_getattr" \notin WaitCalls /\ "mq_setattr" \notin WaitCalls
  /\ "msgsnd" \notin WaitCalls /\ "msgrcv" \notin WaitCalls /\ "SETVAL" \notin WaitCalls
  /\ "semop" \notin WaitCalls /\ "shmat" \notin WaitCalls
  /\ "mq" \in Objects /\ "msq" \in Objects /\ "sem" \in Objects /\ "shm" \in Objects
BY DEF WaitCalls, Objects

LEMMA UtsGood ==
  ASSUME NEW t, t # "helper", t # "pid"
  PROVE  Good(t, uts, {}, {}, "none", <<>>, {})
<1>. DEFINE blind == <<Judge("ERR", "FAIL"), Try("after", Say("PASS")), Report("STUB")>>
            seen == <<Judge("ERR", "FAIL"), Try("after", Say("STUB")),
                      Observe("full", Say("PASS")), Report("STUB")>>
<1>1. Good(t, blind, {}, {}, "reaped", <<>>, {}) /\ Good(t, seen, {}, {}, "reaped", <<>>, {})
  BY UtsVerdictGood, Zenon
<1>. HIDE DEF blind, seen
<1>2. Good(t, PipeTest(utsChild, blind), {}, {}, "none", <<>>, {})
  BY <1>1, SubUts, PipeTestChild, Zenon
<1>3. Good(t, PipeTest(utsChild, seen), {}, {}, "none", <<>>, {})
  BY <1>1, SubUts, PipeTestChild, Zenon
<1>4. Good(t, <<Try("before", PipeTest(utsChild, blind))>> \o PipeTest(utsChild, seen), {}, {},
        "none", <<>>, {})
  BY <1>2, <1>3, CallRule, MainNames, Zenon
<1>. QED  BY <1>4, Zenon DEF uts, blind, seen

LEMMA GenericGood ==
  ASSUME NEW t, t # "helper", t # "pid"
  PROVE  Good(t, generic_ns, {}, {}, "none", <<>>, {})
<1>. DEFINE blind == <<Judge("ERR", "FAIL"), Judge("noid", "STUB"), Report("PASS")>>
<1>1. Good(t, blind, {}, {}, "reaped", <<>>, {}) /\ Good(t, Verdict, {}, {}, "reaped", <<>>, {})
  BY BlindVerdictGood, VerdictGood, Zenon
<1>. HIDE DEF blind
<1>2. Good(t, PipeTest(nsChild, blind), {}, {}, "none", <<>>, {})
  BY <1>1, SubGeneric, PipeTestChild, Zenon
<1>3. Good(t, PipeTest(nsChild, Verdict), {}, {}, "none", <<>>, {})
  BY <1>1, SubGeneric, PipeTestChild, Zenon
<1>4. Good(t, <<Try("before", PipeTest(nsChild, blind))>> \o PipeTest(nsChild, Verdict), {}, {},
        "none", <<>>, {})
  BY <1>2, <1>3, CallRule, MainNames, Zenon
<1>. QED  BY <1>4, Zenon DEF generic_ns, blind

LEMMA ScriptGood ==
  ASSUME NEW t, t \in TestNames, ~(t = "user" /\ uid0)
  PROVE  Good(t, Script(t), {}, {}, "none", <<>>, {})
<1>1. t # "helper"  BY DEF TestNames
<1>2. CASE t = "pid"
  <2>1. Good(t, pidVerdict, {}, {}, "reaped", <<>>, {})  BY <1>2, PidVerdictGood, Zenon
  <2>2. Good(t, pid, {}, {}, "none", <<>>, {})
    BY <1>1, <2>1, SubPidInit, SubPid, PipeTestChild, Zenon DEF pid
  <2>3. Script("pid") = pid  BY DEF Script
  <2>. QED  BY <1>2, <2>2, <2>3
<1>3. CASE t # "pid"
  <2>1. Good(t, Verdict, {}, {}, "reaped", <<>>, {})  BY <1>3, VerdictGood, Zenon
  <2>2. Good(t, uts, {}, {}, "none", <<>>, {})
    BY <1>1, <1>3, UtsGood, Zenon
  <2>3. Good(t, pid_procfs_content, {}, {}, "none", <<>>, {})
    BY <1>1, <1>3, ContentVerdictGood, SubContent, SubPid, PipeTestChild, Zenon
       DEF pid_procfs_content
  <2>4. Good(t, pid_signal, {}, {}, "none", <<>>, {})
    BY <1>1, <1>3, SignalVerdictGood, SubSignal, PipeTestChild, Zenon DEF pid_signal
  <2>5. Good(t, pid_pgrp, {}, {}, "none", <<>>, {})
    BY <1>1, <2>1, SubPgrp, SubPid, PipeTestChild, Zenon DEF pid_pgrp
  <2>6. Good(t, generic_ns, {}, {}, "none", <<>>, {})
    BY <1>1, <1>3, GenericGood, Zenon
  <2>7. Good(t, overlay, {}, {}, "none", <<>>, {})
    BY <1>1, <1>3, OverlayVerdictGood, SubOverlay, PipeTestChild, Zenon DEF overlay
  <2>8. t = "user" => Good(t, user, {}, {}, "none", <<>>, {})
    <3>1. Good(t, userTest, {}, {}, "none", <<>>, {})  BY <1>3, UserTestGood, Zenon
    <3>. QED  BY <3>1, Zenon DEF user
  <2>9. /\ Good(t, mqueue, {}, {}, "none", <<>>, {})
        /\ Good(t, sysvipc, {}, {}, "none", <<>>, {})
        /\ Good(t, sysv_sem, {}, {}, "none", <<>>, {})
    BY <1>1, <1>3, CallNames, RoundTrip2, Zenon DEF mqueue, sysvipc, sysv_sem
  <2>10. Good(t, mqueue_attr, {}, {}, "none", <<>>, {})
    BY <1>1, <1>3, CallNames, RoundTrip3, Zenon DEF mqueue_attr
  <2>11. Good(t, sysv_shm, {}, {}, "none", <<>>, {})
    BY <1>1, <1>3, CallNames, RoundTrip1, Zenon DEF sysv_shm
  <2>12. /\ Good(t, user_idmap, {}, {}, "none", <<>>, {})
         /\ Good(t, proc_ns_access, {}, {}, "none", <<>>, {})
         /\ Good(t, proc_ns_nofollow, {}, {}, "none", <<>>, {})
         /\ Good(t, clone_newipc, {}, {}, "none", <<>>, {})
         /\ Good(t, clone_sysvsem, {}, {}, "none", <<>>, {})
    BY <1>1, <1>3, UserIdmapGood, AccessGood, NofollowGood, NewipcGood, SysvsemGood, Zenon
  <2>13. /\ Good(t, pidfd, {}, {}, "none", <<>>, {})
         /\ Good(t, ptrace, {}, {}, "none", <<>>, {})
         /\ Good(t, wait, {}, {}, "none", <<>>, {})
    BY <1>1, <1>3, PidfdGood, PtraceGood, WaitGood, Zenon
  <2>14. /\ Script("uts") = uts /\ Script("pid_procfs_content") = pid_procfs_content
         /\ Script("pid_signal") = pid_signal /\ Script("pid_pgrp") = pid_pgrp
         /\ Script("generic_ns") = generic_ns /\ Script("overlay") = overlay
         /\ Script("user") = user /\ Script("user_idmap") = user_idmap
         /\ Script("mqueue") = mqueue /\ Script("sysvipc") = sysvipc
         /\ Script("sysv_sem") = sysv_sem /\ Script("mqueue_attr") = mqueue_attr
         /\ Script("sysv_shm") = sysv_shm
    BY DEF Script
  <2>15. /\ Script("proc_ns_access") = proc_ns_access
         /\ Script("proc_ns_nofollow") = proc_ns_nofollow
         /\ Script("clone_newipc") = clone_newipc /\ Script("clone_sysvsem") = clone_sysvsem
         /\ Script("pidfd") = pidfd /\ Script("ptrace") = ptrace /\ Script("wait") = wait
    BY DEF Script
  <2>. QED
    BY <1>3, <2>2, <2>3, <2>4, <2>5, <2>6, <2>7, <2>8, <2>9, <2>10, <2>11, <2>12, <2>13,
               <2>14, <2>15 DEF TestNames
<1>. QED  BY <1>2, <1>3

-----------------------------------------------------------------------------
(* Part 3: the steps of the processes. *)

CodeOk == code = [p \in Proc |-> code[p]]

\* What a process knows of its child.
Kid(c) == IF life[c] \in {"none", "reaped"} THEN life[c] ELSE "forked"

\* The situation of the process that reports on the test.
Situation(p) ==
  <<code[p], fds[p], objs \ {"tmpdir"}, Kid(ChildOf[p]), lines, failed \cap WaitCalls>>

BadOf(L) == ToSet(L) \cap {"FAIL", "STUB"}

\* Processes outside Q are not touched.
Untouched(Q) ==
  \A q \in Proc \ Q : /\ code'[q] = code[q] /\ life'[q] = life[q] /\ fds'[q] = fds[q]
                      /\ bad'[q] = bad[q] /\ status'[q] = status[q]

\* What a step of a child leaves alone.
OutsideBooks ==
  /\ uid0' = uid0 /\ cur' = cur /\ lines' = lines
  /\ objs' \ {"tmpdir"} = objs \ {"tmpdir"}
  /\ failed' \cap WaitCalls = failed \cap WaitCalls /\ failed \subseteq failed'

LEMMA ProcFacts ==
  /\ Proc = {"main", "child", "grand"} /\ Sub = {"child", "grand"}
  /\ DOMAIN ChildOf = {"main", "child"}
  /\ ChildOf["main"] = "child" /\ ChildOf["child"] = "grand"
BY DEF Proc, Sub, ChildOf

LEMMA StatusFacts ==
  {"signal"} \in Status /\ {} \in Status /\ \A b \in SUBSET {"FAIL", "STUB"} : b \in Status
BY DEF Status

\* The code of a child, one call further.
LEMMA SubAt ==
  ASSUME NEW k, NEW c, SubOk(k, c), c # <<>>
  PROVE  \E J : /\ SubDisc(k, J) /\ c \in Seq(J) /\ Tail(c) \in Seq(J)
                /\ Head(c) \in J /\ SubCall(k, J, Head(c))
<1>1. PICK J : SubDisc(k, J) /\ c \in Seq(J)  BY Zenon DEF SubOk
<1>2. Head(c) \in J /\ Tail(c) \in Seq(J)  BY <1>1
<1>3. SubCall(k, J, Head(c))  BY <1>1, <1>2, Zenon DEF SubDisc
<1>. QED  BY <1>1, <1>2, <1>3, Zenon

\* What the calls of a child lead to.
LEMMA SubNext ==
  ASSUME NEW k, NEW c, SubOk(k, c), c # <<>>
  PROVE  LET i == Head(c) IN
         /\ SubOk(k, Tail(c))
         /\ i.op = "try" => SubOk(k, i.fail) /\ i.call \notin WaitCalls
         /\ i.op = "make" => SubOk(k, i.fail) /\ i.obj = "tmpdir"
         /\ i.op = "pipe" => SubOk(k, i.fail) /\ i.q \in PipeNames
         /\ i.op = "recv" => SubOk(k, i.none)
         /\ i.op \in {"on", "observe"} => SubOk(k, i.then)
         /\ i.op = "exit" => i.status \in Status
         /\ i.op = "check" => SubOk(k, <<Op("enter")>> \o c)
         /\ i.op = "enter" => SubOk(k, <<Op("pause")>> \o Tail(c))
         /\ i.op = "kill" => k = "child" /\ SubOk(k, i.fail)
         /\ i.op = "fork" => k = "child" /\ SubOk(k, i.fail) /\ SubOk("grand", i.child)
         /\ i.op \notin {"drop", "report", "waitok", "waitstop", "waitcounts", "cont",
                         "sigkill", "poll"}
<1>. DEFINE i == Head(c)
<1>1. PICK J : /\ SubDisc(k, J) /\ c \in Seq(J) /\ Tail(c) \in Seq(J)
               /\ i \in J /\ SubCall(k, J, i)
  BY SubAt, Zenon
<1>2. \A x : x \in Seq(J) => SubOk(k, x)  BY <1>1, Zenon DEF SubOk
<1>3. ASSUME NEW x, GrandOk(x) PROVE SubOk("grand", x)
  BY <1>3, Zenon DEF GrandOk, SubOk, SubDisc, SubCall
<1>4. i.op = "check" => <<Op("enter")>> \o c \in Seq(J)
  <2>1. SUFFICES ASSUME i.op = "check" PROVE <<Op("enter")>> \o c \in Seq(J)  OBVIOUS
  <2>2. Op("enter") \in J  BY <1>1, <2>1 DEF SubCall, PlainCall
  <2>. QED  BY <1>1, <2>2
<1>5. i.op = "enter" => <<Op("pause")>> \o Tail(c) \in Seq(J)
  <2>1. SUFFICES ASSUME i.op = "enter" PROVE <<Op("pause")>> \o Tail(c) \in Seq(J)  OBVIOUS
  <2>2. Op("pause") \in J  BY <1>1, <2>1 DEF SubCall, PlainCall
  <2>. QED  BY <1>1, <2>2
<1>. HIDE DEF i
<1>6. /\ i.op = "try" => i.fail \in Seq(J) /\ i.call \notin WaitCalls
      /\ i.op = "make" => i.fail \in Seq(J) /\ i.obj = "tmpdir"
      /\ i.op = "pipe" => i.fail \in Seq(J) /\ i.q \in PipeNames
      /\ i.op = "recv" => i.none \in Seq(J)
      /\ i.op \in {"on", "observe"} => i.then \in Seq(J)
      /\ i.op = "exit" => i.status \in Status
      /\ i.op = "kill" => k = "child" /\ i.fail \in Seq(J)
      /\ i.op = "fork" => k = "child" /\ i.fail \in Seq(J) /\ GrandOk(i.child)
      /\ i.op \notin {"drop", "report", "waitok", "waitstop", "waitcounts", "cont", "sigkill",
                      "poll"}
  BY <1>1 DEF SubCall, PlainCall
<1>. QED  BY <1>1, <1>2, <1>3, <1>4, <1>5, <1>6, Zenon DEF i

\* What the calls of a reporting process lead to.
LEMMA GoodNext ==
  ASSUME NEW t, NEW P, Closed(t, P),
         NEW c, NEW F, NEW O, NEW k, NEW L, NEW W, <<c, F, O, k, L, W>> \in P, c # <<>>
  PROVE  LET i == Head(c)
             r == Tail(c)
         IN
         /\ i.op = "try" => /\ <<r, F, O, k, L, W>> \in P
                            /\ <<i.fail, F, O, k, L, W \cup ({i.call} \cap WaitCalls)>> \in P
         /\ i.op = "make" => /\ t # "helper" /\ i.obj \in Objects
                             /\ <<r, F, O \cup {i.obj}, k, L, W>> \in P
                             /\ <<i.fail, F, O, k, L, W>> \in P
         /\ i.op = "drop" => t # "helper" /\ <<r, F, O \ {i.obj}, k, L, W>> \in P
         /\ i.op = "pipe" => /\ i.q \in PipeNames
                             /\ <<r, F \cup ({i.q} \X {"R", "W"}), O, k, L, W>> \in P
                             /\ <<i.fail, F, O, k, L, W>> \in P
         /\ i.op = "close" => <<r, F \ {i.fd}, O, k, L, W>> \in P
         /\ i.op = "fork" => /\ SubOk(Level(t), i.child)
                             /\ <<r, F, O, "forked", L, W>> \in P
                             /\ <<i.fail, F, O, k, L, W>> \in P
         /\ i.op = "send" => t # "helper" /\ <<r, F, O, k, L, W>> \in P
         /\ i.op = "recv" => <<r, F, O, k, L, W>> \in P /\ <<i.none, F, O, k, L, W>> \in P
         /\ i.op = "report" => i.res \in Result /\ <<r, F, O, k, Append(L, i.res), W>> \in P
         /\ i.op = "wait" => <<r, F, O, "reaped", L, W>> \in P
         /\ i.op = "waitok" => /\ <<r, F, O, "reaped", L, W>> \in P
                               /\ <<i.fail, F, O, "reaped", L, W>> \in P
         /\ i.op = "waitstop" => /\ <<r, F, O, k, L, W>> \in P
                                 /\ <<i.fail, F, O, "reaped", L, W>> \in P
         /\ i.op \in {"on", "observe"} => /\ <<r, F, O, k, L, W>> \in P
                                          /\ <<i.then, F, O, k, L, W>> \in P
         /\ i.op = "cont" => /\ t # "helper" /\ <<r, F, O, k, L, W>> \in P
                             /\ <<i.fail, F, O, k, L, W>> \in P
         /\ i.op \in {"sigkill", "poll"} => t # "helper" /\ <<r, F, O, k, L, W>> \in P
         /\ i.op \notin {"exit", "check", "enter", "stop", "kill", "waitcounts"}
<1>1. Local(t, P, c, F, O, k, L, W)  BY Zenon DEF Closed
<1>. DEFINE i == Head(c)
            r == Tail(c)
<1>. HIDE DEF i, r
<1>. QED  BY <1>1 DEF Local, i, r

LEMMA DiesType ==
  ASSUME TypeOK, NEW p \in Proc, NEW st \in Status, Dies(p, st),
         UNCHANGED <<uid0, cur, sig, bad, lines>>
  PROVE  TypeOK'
<1>1. life' \in [Proc -> {"none", "alive", "stopped", "dead", "reaped"}]
  BY DEF TypeOK, Dies
<1>2. status' \in [Proc -> Status]  BY DEF TypeOK, Dies
<1>3. fds' \in [Proc -> SUBSET PipeEnd]  BY DEF TypeOK, Dies
<1>. QED  BY <1>1, <1>2, <1>3 DEF TypeOK

\* A child goes on with x, or dies.
LEMMA SubGoes ==
  ASSUME CodeOk, NEW p \in Sub, NEW x, SubOk(p, x), SubOk("grand", code["grand"]), Goto(p, x)
  PROVE  /\ CodeOk' /\ \A q \in Proc \ {p} : code'[q] = code[q]
         /\ SubOk(p, code'[p]) /\ SubOk("grand", code'["grand"])
<1>1. p \in Proc /\ "grand" \in Proc  BY ProcFacts
<1>2. code'[p] = x /\ \A q \in Proc \ {p} : code'[q] = code[q]
  BY <1>1 DEF Goto, CodeOk
<1>3. CodeOk'  BY DEF Goto, CodeOk
<1>4. SubOk("grand", code'["grand"])
  <2>1. CASE p = "grand"  BY <1>2, <2>1
  <2>2. CASE p # "grand"
    <3>1. code'["grand"] = code["grand"]  BY <1>1, <1>2, <2>2
    <3>. QED  BY <3>1
  <2>. QED  BY <2>1, <2>2
<1>. QED  BY <1>2, <1>3, <1>4

LEMMA SubDies ==
  ASSUME TypeOK, CodeOk, NEW p \in Sub, NEW st \in Status, SubOk("grand", code["grand"]),
         Dies(p, st), UNCHANGED <<uid0, cur, sig, bad, lines>>
  PROVE  /\ TypeOK' /\ CodeOk' /\ Untouched({p, "grand"}) /\ life'[p] = "dead"
         /\ SubOk(p, code'[p]) /\ SubOk("grand", code'["grand"])
<1>1. p \in Proc  BY ProcFacts
<1>2. TypeOK'  BY <1>1, DiesType
<1>3. Goto(p, <<>>)  BY DEF Dies
<1>4. SubOk(p, <<>>)  BY SubEmpty, Zenon
<1>5. /\ CodeOk' /\ \A q \in Proc \ {p} : code'[q] = code[q]
      /\ SubOk(p, code'[p]) /\ SubOk("grand", code'["grand"])
  BY <1>3, <1>4, SubGoes
<1>6. life'[p] = "dead" /\ \A q \in Proc \ {p} : life'[q] = life[q]
  BY <1>1 DEF Dies, TypeOK
<1>7. \A q \in Proc \ {p} : status'[q] = status[q] /\ fds'[q] = fds[q]
  BY <1>1 DEF Dies, TypeOK
<1>8. Untouched({p, "grand"})  BY <1>5, <1>6, <1>7 DEF Untouched
<1>. QED  BY <1>2, <1>5, <1>6, <1>8

\* A step of a child that does not report keeps to its own books.
LEMMA SubStep ==
  ASSUME TypeOK, CodeOk, NEW p \in Sub, SubOk(p, code[p]), SubOk("grand", code["grand"]),
         Step(p)
  PROVE  /\ TypeOK' /\ CodeOk' /\ OutsideBooks /\ Untouched({p, "grand"})
         /\ SubOk(p, code'[p]) /\ SubOk("grand", code'["grand"])
         /\ life[p] = "alive" /\ life'[p] \in {"alive", "stopped", "dead"}
<1>. DEFINE i == Head(code[p])
            r == Tail(code[p])
            Goal == /\ TypeOK' /\ CodeOk' /\ OutsideBooks /\ Untouched({p, "grand"})
                    /\ SubOk(p, code'[p]) /\ SubOk("grand", code'["grand"])
                    /\ life[p] = "alive" /\ life'[p] \in {"alive", "stopped", "dead"}
<1>a. /\ p \in {"child", "grand"} /\ Proc = {"main", "child", "grand"}
      /\ ChildOf["child"] = "grand" /\ DOMAIN ChildOf = {"main", "child"}
  BY ProcFacts
<1>b. code[p] # <<>> =>
         /\ SubOk(p, r)
         /\ i.op = "try" => SubOk(p, i.fail) /\ i.call \notin WaitCalls
         /\ i.op = "make" => SubOk(p, i.fail) /\ i.obj = "tmpdir"
         /\ i.op = "pipe" => SubOk(p, i.fail) /\ i.q \in PipeNames
         /\ i.op = "recv" => SubOk(p, i.none)
         /\ i.op \in {"on", "observe"} => SubOk(p, i.then)
         /\ i.op = "exit" => i.status \in Status
         /\ i.op = "check" => SubOk(p, <<Op("enter")>> \o code[p])
         /\ i.op = "enter" => SubOk(p, <<Op("pause")>> \o r)
         /\ i.op = "kill" => p = "child" /\ SubOk(p, i.fail)
         /\ i.op = "fork" => p = "child" /\ SubOk(p, i.fail) /\ SubOk("grand", i.child)
         /\ i.op \notin {"drop", "report", "waitok", "waitstop", "waitcounts", "cont",
                         "sigkill", "poll"}
  BY SubNext, Zenon
<1>c. SubOk(p, <<>>)  BY SubEmpty, Zenon
<1>d. /\ "tmpdir" \notin WaitCalls /\ "pipe" \notin WaitCalls /\ "fork" \notin WaitCalls
      /\ "sigpipe" \notin WaitCalls /\ "kill" \notin WaitCalls
  BY DEF WaitCalls
<1>. HIDE DEF i, r, Goal
<1>1. CASE TryCall(p)
  <2>1. TypeOK'
    BY <1>1, <1>a, <1>b DEF TryCall, At, Advance, Goto, Rest, I, Fail, kernelVars, i, r, TypeOK
  <2>2. CodeOk'
    BY <1>1, <1>a, <1>b
    DEF TryCall, At, Advance, Goto, Rest, I, Fail, kernelVars, i, CodeOk
  <2>3. OutsideBooks
    BY <1>1, <1>b, <1>d
    DEF TryCall, At, Advance, Goto, Rest, I, Fail, kernelVars, i, OutsideBooks
  <2>4. Untouched({p, "grand"})
    BY <1>1, <1>a, <1>b
    DEF TryCall, At, Advance, Goto, Rest, I, Fail, kernelVars, i, CodeOk, TypeOK, Untouched
  <2>5. SubOk(p, code'[p]) /\ SubOk("grand", code'["grand"])
    BY <1>1, <1>a, <1>b, <1>c
    DEF TryCall, At, Advance, Goto, Rest, I, Fail, kernelVars, i, r, CodeOk
  <2>6. life[p] = "alive" /\ life'[p] \in {"alive", "stopped", "dead"}
    BY <1>1, <1>a, <1>b DEF TryCall, At, Advance, Goto, Rest, I, Fail, kernelVars, i, TypeOK
  <2>. QED  BY <2>1, <2>2, <2>3, <2>4, <2>5, <2>6 DEF Goal
<1>2. CASE MakeObj(p)
  <2>1. TypeOK'
    BY <1>2, <1>a, <1>b DEF MakeObj, At, Advance, Goto, Rest, I, Fail, kernelVars, i, r, TypeOK
  <2>2. CodeOk'
    BY <1>2, <1>a, <1>b
    DEF MakeObj, At, Advance, Goto, Rest, I, Fail, kernelVars, i, CodeOk
  <2>3. OutsideBooks
    BY <1>2, <1>b, <1>d
    DEF MakeObj, At, Advance, Goto, Rest, I, Fail, kernelVars, i, OutsideBooks
  <2>4. Untouched({p, "grand"})
    BY <1>2, <1>a, <1>b
    DEF MakeObj, At, Advance, Goto, Rest, I, Fail, kernelVars, i, CodeOk, TypeOK, Untouched
  <2>5. SubOk(p, code'[p]) /\ SubOk("grand", code'["grand"])
    BY <1>2, <1>a, <1>b, <1>c
    DEF MakeObj, At, Advance, Goto, Rest, I, Fail, kernelVars, i, r, CodeOk
  <2>6. life[p] = "alive" /\ life'[p] \in {"alive", "stopped", "dead"}
    BY <1>2, <1>a, <1>b DEF MakeObj, At, Advance, Goto, Rest, I, Fail, kernelVars, i, TypeOK
  <2>. QED  BY <2>1, <2>2, <2>3, <2>4, <2>5, <2>6 DEF Goal
<1>3. CASE DropObj(p)  BY <1>3, <1>b DEF DropObj, At, i
<1>4. CASE MakePipe(p)
  <2>1. TypeOK'
    BY <1>4, <1>a, <1>b
    DEF MakePipe, At, Advance, Goto, Rest, I, Fail, kernelVars, i, r, TypeOK, PipeNames,
        PipeEnd
  <2>2. CodeOk'
    BY <1>4, <1>a, <1>b
    DEF MakePipe, At, Advance, Goto, Rest, I, Fail, kernelVars, i, CodeOk
  <2>3. OutsideBooks
    BY <1>4, <1>b, <1>d
    DEF MakePipe, At, Advance, Goto, Rest, I, Fail, kernelVars, i, OutsideBooks
  <2>4. Untouched({p, "grand"})
    BY <1>4, <1>a, <1>b
    DEF MakePipe, At, Advance, Goto, Rest, I, Fail, kernelVars, i, CodeOk, TypeOK, Untouched
  <2>5. SubOk(p, code'[p]) /\ SubOk("grand", code'["grand"])
    BY <1>4, <1>a, <1>b, <1>c
    DEF MakePipe, At, Advance, Goto, Rest, I, Fail, kernelVars, i, r, CodeOk
  <2>6. life[p] = "alive" /\ life'[p] \in {"alive", "stopped", "dead"}
    BY <1>4, <1>a, <1>b DEF MakePipe, At, Advance, Goto, Rest, I, Fail, kernelVars, i, TypeOK
  <2>. QED  BY <2>1, <2>2, <2>3, <2>4, <2>5, <2>6 DEF Goal
<1>5. CASE CloseFd(p)
  <2>1. TypeOK'
    BY <1>5, <1>a, <1>b
    DEF CloseFd, At, Advance, Goto, Rest, I, kernelVars, histVars, i, r, TypeOK
  <2>2. CodeOk'
    BY <1>5, <1>a, <1>b
    DEF CloseFd, At, Advance, Goto, Rest, I, kernelVars, histVars, i, CodeOk
  <2>3. OutsideBooks
    BY <1>5, <1>b, <1>d
    DEF CloseFd, At, Advance, Goto, Rest, I, kernelVars, histVars, i, OutsideBooks
  <2>4. Untouched({p, "grand"})
    BY <1>5, <1>a, <1>b
    DEF CloseFd, At, Advance, Goto, Rest, I, kernelVars, histVars, i, CodeOk, TypeOK, Untouched
  <2>5. SubOk(p, code'[p]) /\ SubOk("grand", code'["grand"])
    BY <1>5, <1>a, <1>b, <1>c
    DEF CloseFd, At, Advance, Goto, Rest, I, kernelVars, histVars, i, r, CodeOk
  <2>6. life[p] = "alive" /\ life'[p] \in {"alive", "stopped", "dead"}
    BY <1>5, <1>a, <1>b
    DEF CloseFd, At, Advance, Goto, Rest, I, kernelVars, histVars, i, TypeOK
  <2>. QED  BY <2>1, <2>2, <2>3, <2>4, <2>5, <2>6 DEF Goal
<1>6. CASE ForkChild(p)
  <2>1. TypeOK'
    BY <1>6, <1>a, <1>b, StatusFacts
    DEF ForkChild, At, Goto, Rest, I, Fail, kernelVars, i, r, TypeOK
  <2>2. CodeOk'
    BY <1>6, <1>a, <1>b
    DEF ForkChild, At, Goto, Rest, I, Fail, kernelVars, i, CodeOk
  <2>3. OutsideBooks
    BY <1>6, <1>b, <1>d
    DEF ForkChild, At, Goto, Rest, I, Fail, kernelVars, i, OutsideBooks
  <2>4. Untouched({p, "grand"})
    BY <1>6, <1>a, <1>b
    DEF ForkChild, At, Goto, Rest, I, Fail, kernelVars, i, CodeOk, TypeOK, Untouched
  <2>5. SubOk(p, code'[p]) /\ SubOk("grand", code'["grand"])
    BY <1>6, <1>a, <1>b, <1>c DEF ForkChild, At, Goto, Rest, I, Fail, kernelVars, i, r, CodeOk
  <2>6. life[p] = "alive" /\ life'[p] \in {"alive", "stopped", "dead"}
    BY <1>6, <1>a, <1>b DEF ForkChild, At, Goto, Rest, I, Fail, kernelVars, i, TypeOK
  <2>. QED  BY <2>1, <2>2, <2>3, <2>4, <2>5, <2>6 DEF Goal
<1>7. CASE SendMsg(p)
  <2>1. life[p] = "alive" /\ code[p] # <<>>  BY <1>7 DEF SendMsg, At
  <2>2. SubOk(p, r)  BY <1>b, <2>1
  <2>3. /\ UNCHANGED <<uid0, cur, sig, bad, lines, objs>>
        /\ \/ Goto(p, r) /\ UNCHANGED <<life, status, fds, failed>>
           \/ Dies(p, {"signal"}) /\ failed' = failed \cup {"sigpipe"}
    BY <1>7 DEF SendMsg, Advance, Rest, r, kernelVars
  <2>4. OutsideBooks  BY <1>d, <2>3 DEF OutsideBooks
  <2>5. CASE Goto(p, r) /\ UNCHANGED <<life, status, fds, failed>>
    <3>1. TypeOK'  BY <2>3, <2>5 DEF TypeOK
    <3>2. /\ CodeOk' /\ \A q \in Proc \ {p} : code'[q] = code[q]
          /\ SubOk(p, code'[p]) /\ SubOk("grand", code'["grand"])
      BY <2>2, <2>5, SubGoes
    <3>3. Untouched({p, "grand"})  BY <2>3, <2>5, <3>2 DEF Untouched
    <3>. QED  BY <2>1, <2>4, <2>5, <3>1, <3>2, <3>3 DEF Goal
  <2>6. CASE Dies(p, {"signal"})
    <3>1. {"signal"} \in Status  BY StatusFacts
    <3>2. /\ TypeOK' /\ CodeOk' /\ Untouched({p, "grand"}) /\ life'[p] = "dead"
          /\ SubOk(p, code'[p]) /\ SubOk("grand", code'["grand"])
      BY <2>3, <2>6, <3>1, SubDies
    <3>. QED  BY <2>1, <2>4, <3>2 DEF Goal
  <2>. QED  BY <2>3, <2>5, <2>6
<1>8. CASE RecvMsg(p)
  <2>1. life[p] = "alive" /\ code[p] # <<>> /\ i.op = "recv"  BY <1>8 DEF RecvMsg, At, i
  <2>2. /\ UNCHANGED <<uid0, cur, sig, bad, lines, objs, life, status, fds, failed>>
        /\ Goto(p, r) \/ Goto(p, i.none)
    BY <1>8 DEF RecvMsg, Advance, Rest, I, i, r, kernelVars, histVars
  <2>3. PICK x : SubOk(p, x) /\ Goto(p, x)  BY <1>b, <2>1, <2>2, Zenon
  <2>4. /\ CodeOk' /\ \A q \in Proc \ {p} : code'[q] = code[q]
        /\ SubOk(p, code'[p]) /\ SubOk("grand", code'["grand"])
    BY <2>3, SubGoes
  <2>5. TypeOK'  BY <2>2 DEF TypeOK
  <2>6. OutsideBooks  BY <2>2 DEF OutsideBooks
  <2>7. Untouched({p, "grand"})  BY <2>2, <2>4 DEF Untouched
  <2>. QED  BY <2>1, <2>2, <2>4, <2>5, <2>6, <2>7 DEF Goal
<1>9. CASE ReportLine(p)  BY <1>9, <1>b DEF ReportLine, At, i
<1>10. CASE Branch(p)
  <2>1. life[p] = "alive" /\ code[p] # <<>>  BY <1>10 DEF Branch, At
  <2>2. /\ UNCHANGED <<uid0, cur, sig, bad, lines, objs, life, status, fds, failed>>
        /\ \/ Goto(p, r)
           \/ i.op \in {"on", "observe"} /\ Goto(p, i.then)
           \/ i.op = "check" /\ Goto(p, <<Op("enter")>> \o code[p])
           \/ i.op = "enter" /\ Goto(p, <<Op("pause")>> \o r)
    BY <1>10 DEF Branch, At, I, Rest, i, r, kernelVars, histVars
  <2>3. PICK x : SubOk(p, x) /\ Goto(p, x)  BY <1>b, <2>1, <2>2, Zenon
  <2>4. /\ CodeOk' /\ \A q \in Proc \ {p} : code'[q] = code[q]
        /\ SubOk(p, code'[p]) /\ SubOk("grand", code'["grand"])
    BY <2>3, SubGoes
  <2>5. TypeOK'  BY <2>2 DEF TypeOK
  <2>6. OutsideBooks  BY <2>2 DEF OutsideBooks
  <2>7. Untouched({p, "grand"})  BY <2>2, <2>4 DEF Untouched
  <2>. QED  BY <2>1, <2>2, <2>4, <2>5, <2>6, <2>7 DEF Goal
<1>11. CASE ExitProc(p)
  <2>1. life[p] = "alive"  BY <1>11 DEF ExitProc, At
  <2>2. /\ UNCHANGED <<uid0, cur, sig, bad, lines, objs, failed>>
        /\ \/ Dies(p, ReturnStatus(p))
           \/ Dies(p, i.status) /\ code[p] # <<>> /\ i.op = "exit"
    BY <1>11 DEF ExitProc, At, I, i, kernelVars, histVars
  <2>3. ReturnStatus(p) \in Status
    <3>1. bad[p] \in SUBSET {"FAIL", "STUB"}  BY <1>a DEF TypeOK
    <3>. QED  BY <3>1, StatusFacts DEF ReturnStatus
  <2>4. PICK st \in Status : Dies(p, st)  BY <1>b, <2>2, <2>3, Zenon
  <2>5. /\ TypeOK' /\ CodeOk' /\ Untouched({p, "grand"}) /\ life'[p] = "dead"
        /\ SubOk(p, code'[p]) /\ SubOk("grand", code'["grand"])
    BY <2>2, <2>4, SubDies
  <2>6. OutsideBooks  BY <2>2 DEF OutsideBooks
  <2>. QED  BY <2>1, <2>5, <2>6 DEF Goal
<1>12. CASE WaitChild(p)
  <2>1. p = "child" /\ life[p] = "alive" /\ code[p] # <<>>
    BY <1>12, <1>a DEF WaitChild, At
  <2>2. i.op \notin {"waitok", "waitstop", "waitcounts"} /\ SubOk(p, r)  BY <1>b, <2>1
  <2>3. /\ Goto(p, r) /\ life' = [life EXCEPT !["grand"] = "reaped"]
        /\ UNCHANGED <<uid0, cur, sig, bad, lines, objs, status, fds, failed>>
    BY <1>12, <1>a, <2>1, <2>2
    DEF WaitChild, At, Advance, Rest, Reaped, i, r, kernelVars, histVars
  <2>4. /\ CodeOk' /\ \A q \in Proc \ {p} : code'[q] = code[q]
        /\ SubOk(p, code'[p]) /\ SubOk("grand", code'["grand"])
    BY <2>2, <2>3, SubGoes
  <2>5. TypeOK'  BY <2>3 DEF TypeOK
  <2>6. life'[p] = life[p] /\ \A q \in Proc \ {"grand"} : life'[q] = life[q]
    BY <1>a, <2>1, <2>3 DEF TypeOK
  <2>7. OutsideBooks  BY <2>3 DEF OutsideBooks
  <2>8. Untouched({p, "grand"})  BY <2>3, <2>4, <2>6 DEF Untouched
  <2>. QED  BY <2>1, <2>4, <2>5, <2>6, <2>7, <2>8 DEF Goal
<1>13. CASE StopSelf(p)
  <2>1. life[p] = "alive" /\ code[p] # <<>>  BY <1>13 DEF StopSelf, At
  <2>2. /\ Goto(p, r) /\ life' = [life EXCEPT ![p] = "stopped"]
        /\ UNCHANGED <<uid0, cur, sig, bad, lines, objs, status, fds, failed>>
    BY <1>13 DEF StopSelf, Advance, Rest, r, kernelVars, histVars
  <2>3. SubOk(p, r)  BY <1>b, <2>1
  <2>4. /\ CodeOk' /\ \A q \in Proc \ {p} : code'[q] = code[q]
        /\ SubOk(p, code'[p]) /\ SubOk("grand", code'["grand"])
    BY <2>2, <2>3, SubGoes
  <2>5. TypeOK'  BY <2>2 DEF TypeOK
  <2>6. life'[p] = "stopped" /\ \A q \in Proc \ {p} : life'[q] = life[q]
    BY <1>a, <2>2 DEF TypeOK
  <2>7. OutsideBooks  BY <2>2 DEF OutsideBooks
  <2>8. Untouched({p, "grand"})  BY <2>2, <2>4, <2>6 DEF Untouched
  <2>. QED  BY <2>1, <2>4, <2>5, <2>6, <2>7, <2>8 DEF Goal
<1>14. CASE ContChild(p)  BY <1>14, <1>b DEF ContChild, At, i
<1>15. CASE KillGrand(p)
  <2>g. At("grand", "pause") => SubOk("grand", Tail(code["grand"]))
    BY SubNext, Zenon DEF At
  <2>1. TypeOK'
    BY <1>15, <1>a, <1>b
    DEF KillGrand, At, Advance, Goto, Rest, I, Fail, kernelVars, i, r, TypeOK
  <2>2. CodeOk'
    BY <1>15, <1>a, <1>b
    DEF KillGrand, At, Advance, Goto, Rest, I, Fail, kernelVars, i, CodeOk
  <2>3. OutsideBooks
    BY <1>15, <1>b, <1>d
    DEF KillGrand, At, Advance, Goto, Rest, I, Fail, kernelVars, i, OutsideBooks
  <2>4. Untouched({p, "grand"})
    BY <1>15, <1>a, <1>b
    DEF KillGrand, At, Advance, Goto, Rest, I, Fail, kernelVars, i, CodeOk, TypeOK, Untouched
  <2>5. SubOk(p, code'[p]) /\ SubOk("grand", code'["grand"])
    BY <1>15, <1>a, <1>b, <1>c, <2>g
    DEF KillGrand, At, Advance, Goto, Rest, I, Fail, kernelVars, i, r, CodeOk
  <2>6. life[p] = "alive" /\ life'[p] \in {"alive", "stopped", "dead"}
    BY <1>15, <1>a, <1>b DEF KillGrand, At, Advance, Goto, Rest, I, Fail, kernelVars, i, TypeOK
  <2>. QED  BY <2>1, <2>2, <2>3, <2>4, <2>5, <2>6 DEF Goal
<1>16. CASE KillChild(p)  BY <1>16, <1>b DEF KillChild, At, i
<1>17. CASE PollPidfd(p)  BY <1>17, <1>b DEF PollPidfd, At, i
<1>. QED  BY <1>1, <1>2, <1>3, <1>4, <1>5, <1>6, <1>7, <1>8, <1>9,
           <1>10, <1>11, <1>12, <1>13, <1>14, <1>15, <1>16, <1>17 DEF Step, Goal

\* A child killed from outside.
LEMMA KilledStep ==
  ASSUME TypeOK, CodeOk, NEW p \in Sub, Killed(p)
  PROVE  /\ TypeOK' /\ CodeOk' /\ OutsideBooks /\ Untouched({p})
         /\ life[p] \in {"alive", "stopped"} /\ life'[p] = "dead"
         /\ code'[p] = <<>> /\ status'[p] = {"signal"}
         /\ p = "child" => "killchild" \in failed'
<1>1. p \in {"child", "grand"} /\ Proc = {"main", "child", "grand"}  BY ProcFacts
<1>2. TypeOK'
  <2>1. {"signal"} \in Status /\ p \in Proc  BY StatusFacts, <1>1
  <2>2. Dies(p, {"signal"}) /\ UNCHANGED <<uid0, cur, sig, bad, lines>>
    BY DEF Killed, kernelVars
  <2>. QED  BY <2>1, <2>2, DiesType
<1>3. CodeOk'  BY <1>1 DEF Killed, Dies, Goto, CodeOk
<1>4. OutsideBooks
  BY <1>1 DEF Killed, OutsideBooks, kernelVars, KillMark, WaitCalls
<1>5. Untouched({p})
  BY <1>1 DEF Killed, Dies, Goto, CodeOk, TypeOK, Untouched
<1>6. life[p] \in {"alive", "stopped"} /\ life'[p] = "dead"
  BY <1>1 DEF Killed, Dies, TypeOK
<1>7. code'[p] = <<>> /\ status'[p] = {"signal"}
  BY <1>1 DEF Killed, Dies, Goto, CodeOk, TypeOK
<1>8. p = "child" => "killchild" \in failed'  BY DEF Killed, KillMark
<1>. QED  BY <1>2, <1>3, <1>4, <1>5, <1>6, <1>7, <1>8

LEMMA BadAppend ==
  ASSUME NEW s \in Seq(Result), NEW x \in Result
  PROVE  BadOf(Append(s, x)) = BadOf(s) \cup ({x} \cap {"FAIL", "STUB"})
<1>. DEFINE u == Append(s, x)
<1>1. /\ Len(s) \in Nat /\ DOMAIN s = 1..Len(s) /\ DOMAIN u = 1..(Len(s) + 1)
      /\ u[Len(s) + 1] = x /\ \A j \in 1..Len(s) : u[j] = s[j]
  OBVIOUS
<1>. HIDE DEF u
<1>2. ASSUME NEW y \in ToSet(u) PROVE y \in ToSet(s) \cup {x}
  <2>1. PICK j \in DOMAIN u : y = u[j]  BY DEF ToSet
  <2>2. j \in 1..Len(s) \/ j = Len(s) + 1  BY <1>1, <2>1
  <2>. QED  BY <1>1, <2>1, <2>2 DEF ToSet
<1>3. ASSUME NEW y \in ToSet(s) PROVE y \in ToSet(u)
  <2>1. PICK j \in DOMAIN s : y = s[j]  BY DEF ToSet
  <2>2. j \in DOMAIN u /\ u[j] = y  BY <1>1, <2>1
  <2>. QED  BY <2>2 DEF ToSet
<1>4. x \in ToSet(u)
  <2>1. Len(s) + 1 \in DOMAIN u  BY <1>1
  <2>. QED  BY <1>1, <2>1 DEF ToSet
<1>5. ToSet(u) = ToSet(s) \cup {x}  BY <1>2, <1>3, <1>4
<1>. QED  BY <1>5 DEF BadOf, u

\* What a step of the reporting process p (of test t, or of "helper") leaves
\* alone ...
Keeps(p, t) ==
  /\ TypeOK' /\ CodeOk' /\ Untouched({p, ChildOf[p]})
  /\ uid0' = uid0 /\ cur' = cur /\ failed \subseteq failed'
  /\ t = "helper" => objs' = objs

\* ... and how it can go on: with the next call ...
Continues(p, t, P) ==
  /\ life'[p] = "alive" /\ Situation(p)' \in P /\ bad'[p] = BadOf(lines')
  /\ \/ code'[ChildOf[p]] = code[ChildOf[p]]
     \/ SubOk(Level(t), code'[ChildOf[p]])

\* ... or, for main(), with its death by SIGPIPE, or with the return of the
\* helper.
Leaves(p, t) ==
  /\ life'[p] = "dead" /\ lines' = lines /\ bad' = bad
  /\ code'[p] = <<>> /\ code'[ChildOf[p]] = code[ChildOf[p]]
  /\ t = "helper" => code[p] = <<>> /\ status'[p] = ReturnStatus(p)

LEMMA ReporterStep ==
  ASSUME TypeOK, CodeOk, NEW p \in {"main", "child"}, NEW t, t = "helper" <=> p = "child",
         NEW P, Closed(t, P), Situation(p) \in P, bad[p] = BadOf(lines), Step(p)
  PROVE  Keeps(p, t) /\ (Continues(p, t, P) \/ Leaves(p, t)) /\ life[p] = "alive"
<1>. DEFINE i == Head(code[p])
            r == Tail(code[p])
            c == ChildOf[p]
            F == fds[p]
            O == objs \ {"tmpdir"}
            k == Kid(c)
            W == failed \cap WaitCalls
            Now(cc, FF, OO, kk, LL, WW) ==
              /\ code'[p] = cc /\ fds'[p] = FF /\ objs' \ {"tmpdir"} = OO
              /\ Kid(c)' = kk /\ lines' = LL /\ failed' \cap WaitCalls = WW
            Goal == Keeps(p, t) /\ (Continues(p, t, P) \/ Leaves(p, t)) /\ life[p] = "alive"
<1>a. /\ Proc = {"main", "child", "grand"} /\ Sub = {"child", "grand"}
      /\ DOMAIN ChildOf = {"main", "child"}
      /\ c \in {"child", "grand"} /\ p # c /\ p \in Proc /\ c \in Proc
      /\ p = "main" => c = "child"
  BY ProcFacts
<1>b. <<code[p], F, O, k, lines, W>> \in P  BY DEF Situation
<1>. HIDE DEF c
<1>c. code[p] # <<>> =>
         /\ i.op = "try" => /\ <<r, F, O, k, lines, W>> \in P
                            /\ <<i.fail, F, O, k, lines, W \cup ({i.call} \cap WaitCalls)>> \in P
         /\ i.op = "make" => /\ t # "helper" /\ i.obj \in Objects
                             /\ <<r, F, O \cup {i.obj}, k, lines, W>> \in P
                             /\ <<i.fail, F, O, k, lines, W>> \in P
         /\ i.op = "drop" => t # "helper" /\ <<r, F, O \ {i.obj}, k, lines, W>> \in P
         /\ i.op = "pipe" => /\ i.q \in PipeNames
                             /\ <<r, F \cup ({i.q} \X {"R", "W"}), O, k, lines, W>> \in P
                             /\ <<i.fail, F, O, k, lines, W>> \in P
         /\ i.op = "close" => <<r, F \ {i.fd}, O, k, lines, W>> \in P
         /\ i.op = "fork" => /\ SubOk(Level(t), i.child)
                             /\ <<r, F, O, "forked", lines, W>> \in P
                             /\ <<i.fail, F, O, k, lines, W>> \in P
         /\ i.op = "send" => t # "helper" /\ <<r, F, O, k, lines, W>> \in P
         /\ i.op = "recv" => /\ <<r, F, O, k, lines, W>> \in P
                             /\ <<i.none, F, O, k, lines, W>> \in P
         /\ i.op = "report" => /\ i.res \in Result
                               /\ <<r, F, O, k, Append(lines, i.res), W>> \in P
         /\ i.op = "wait" => <<r, F, O, "reaped", lines, W>> \in P
         /\ i.op = "waitok" => /\ <<r, F, O, "reaped", lines, W>> \in P
                               /\ <<i.fail, F, O, "reaped", lines, W>> \in P
         /\ i.op = "waitstop" => /\ <<r, F, O, k, lines, W>> \in P
                                 /\ <<i.fail, F, O, "reaped", lines, W>> \in P
         /\ i.op \in {"on", "observe"} => /\ <<r, F, O, k, lines, W>> \in P
                                          /\ <<i.then, F, O, k, lines, W>> \in P
         /\ i.op = "cont" => /\ t # "helper" /\ <<r, F, O, k, lines, W>> \in P
                             /\ <<i.fail, F, O, k, lines, W>> \in P
         /\ i.op \in {"sigkill", "poll"} => t # "helper" /\ <<r, F, O, k, lines, W>> \in P
         /\ i.op \notin {"exit", "check", "enter", "stop", "kill", "waitcounts"}
  <2>. HIDE DEF F, O, k, W
  <2>. QED  BY <1>b, GoodNext, Zenon
<1>d. /\ "pipe" \notin WaitCalls /\ "fork" \notin WaitCalls /\ "cont" \notin WaitCalls
      /\ "timeout" \notin WaitCalls /\ "sigpipe" \notin WaitCalls
      /\ \A x \in Objects : x \notin WaitCalls /\ x # "tmpdir"
  BY DEF WaitCalls, Objects
<1>e. ASSUME NEW cc, NEW FF, NEW OO, NEW kk, NEW LL, NEW WW,
             Now(cc, FF, OO, kk, LL, WW), <<cc, FF, OO, kk, LL, WW>> \in P
      PROVE  Situation(p)' \in P
  BY <1>e DEF Situation, c
<1>f. SubOk(Level(t), <<>>)  BY SubEmpty, Zenon
<1>. HIDE DEF i, r, F, O, k, W, Now, Goal
<1>1. CASE TryCall(p)
  <2>a. life[p] = "alive" /\ code[p] # <<>>  BY <1>1 DEF TryCall, At
  <2>b. i.op = "try"  BY <1>1 DEF TryCall, At, i
  <2>1. TypeOK'
    BY <1>1, <1>a, <1>c, <2>a, <2>b
    DEF TryCall, At, Advance, Goto, Rest, I, Fail, kernelVars, histVars, TypeOK, i, c
  <2>2. CodeOk'
    BY <1>1, <1>a
    DEF TryCall, At, Advance, Goto, Rest, I, Fail, kernelVars, histVars, CodeOk, c
  <2>3. Untouched({p, c})
    BY <1>1, <1>a, <1>c, <2>a, <2>b
    DEF TryCall, At, Advance, Goto, Rest, I, Fail, kernelVars, histVars, CodeOk, TypeOK,
        Untouched, c
  <2>4. /\ uid0' = uid0 /\ cur' = cur /\ failed \subseteq failed'
        /\ t = "helper" => objs' = objs
    BY <1>1, <1>c, <2>a, <2>b
    DEF TryCall, At, Advance, Goto, Rest, I, Fail, kernelVars, histVars, i
  <2>5. life'[p] = "alive"
    BY <1>1, <1>a, <1>c, <2>a, <2>b
    DEF TryCall, At, Advance, Goto, Rest, I, Fail, kernelVars, histVars, TypeOK, c
  <2>6. bad'[p] = BadOf(lines')
    BY <1>1, <1>a
    DEF TryCall, At, Advance, Goto, Rest, I, Fail, kernelVars, histVars, TypeOK, c
  <2>7. \/ code'[c] = code[c]
        \/ SubOk(Level(t), code'[c])
    BY <1>1, <1>a, <1>c, <1>f, <2>a, <2>b
    DEF TryCall, At, Advance, Goto, Rest, I, Fail, kernelVars, histVars, CodeOk, c, i
  <2>8. \/ /\ Now(r, F, O, k, lines, W)
           /\ <<r, F, O, k, lines, W>> \in P
        \/ /\ Now(i.fail, F, O, k, lines, W \cup ({i.call} \cap WaitCalls))
           /\ <<i.fail, F, O, k, lines, W \cup ({i.call} \cap WaitCalls)>> \in P
    BY <1>1, <1>a, <1>c, <1>d, <2>a, <2>b
    DEF TryCall, At, Advance, Goto, Rest, I, Fail, kernelVars, histVars, CodeOk, TypeOK, c,
        Now, i, r, F, O, k, W, Kid
  <2>9. Situation(p)' \in P  BY <1>e, <2>8
  <2>. QED  BY <2>a, <2>1, <2>2, <2>3, <2>4, <2>5, <2>6, <2>7, <2>9
       DEF Goal, Keeps, Continues, c
<1>2. CASE MakeObj(p)
  <2>a. life[p] = "alive" /\ code[p] # <<>>  BY <1>2 DEF MakeObj, At
  <2>b. i.op = "make"  BY <1>2 DEF MakeObj, At, i
  <2>1. TypeOK'
    BY <1>2, <1>a, <1>c, <2>a, <2>b
    DEF MakeObj, At, Advance, Goto, Rest, I, Fail, kernelVars, histVars, TypeOK, i, c
  <2>2. CodeOk'
    BY <1>2, <1>a
    DEF MakeObj, At, Advance, Goto, Rest, I, Fail, kernelVars, histVars, CodeOk, c
  <2>3. Untouched({p, c})
    BY <1>2, <1>a, <1>c, <2>a, <2>b
    DEF MakeObj, At, Advance, Goto, Rest, I, Fail, kernelVars, histVars, CodeOk, TypeOK,
        Untouched, c
  <2>4. /\ uid0' = uid0 /\ cur' = cur /\ failed \subseteq failed'
        /\ t = "helper" => objs' = objs
    BY <1>2, <1>c, <2>a, <2>b
    DEF MakeObj, At, Advance, Goto, Rest, I, Fail, kernelVars, histVars, i
  <2>5. life'[p] = "alive"
    BY <1>2, <1>a, <1>c, <2>a, <2>b
    DEF MakeObj, At, Advance, Goto, Rest, I, Fail, kernelVars, histVars, TypeOK, c
  <2>6. bad'[p] = BadOf(lines')
    BY <1>2, <1>a
    DEF MakeObj, At, Advance, Goto, Rest, I, Fail, kernelVars, histVars, TypeOK, c
  <2>7. \/ code'[c] = code[c]
        \/ SubOk(Level(t), code'[c])
    BY <1>2, <1>a, <1>c, <1>f, <2>a, <2>b
    DEF MakeObj, At, Advance, Goto, Rest, I, Fail, kernelVars, histVars, CodeOk, c, i
  <2>8a. <<r, F, O \cup {i.obj}, k, lines, W>> \in P /\ <<i.fail, F, O, k, lines, W>> \in P
    BY <1>c, <2>a, <2>b
  <2>8b. Now(r, F, O \cup {i.obj}, k, lines, W) \/ Now(i.fail, F, O, k, lines, W)
    <3>u. UNCHANGED <<fds, life, lines>>  BY <1>2 DEF MakeObj, kernelVars, histVars
    <3>1. CASE Advance(p) /\ objs' = objs \cup {I(p).obj} /\ UNCHANGED failed
      BY <3>1, <3>u, <1>a, <1>c, <1>d, <2>a, <2>b
      DEF Advance, Goto, Rest, I, CodeOk, TypeOK, Now, i, r, F, O, k, W, Kid, c
    <3>2. CASE Fail(p, I(p).obj) /\ UNCHANGED objs
      BY <3>2, <3>u, <1>a, <1>c, <1>d, <2>a, <2>b
      DEF Fail, Goto, I, CodeOk, TypeOK, Now, i, r, F, O, k, W, Kid, c
    <3>. QED  BY <1>2, <3>1, <3>2 DEF MakeObj, c
  <2>9. Situation(p)' \in P  BY <1>e, <2>8a, <2>8b
  <2>. QED  BY <2>a, <2>1, <2>2, <2>3, <2>4, <2>5, <2>6, <2>7, <2>9
       DEF Goal, Keeps, Continues, c
<1>3. CASE DropObj(p)
  <2>a. life[p] = "alive" /\ code[p] # <<>>  BY <1>3 DEF DropObj, At
  <2>b. i.op = "drop"  BY <1>3 DEF DropObj, At, i
  <2>1. TypeOK'
    BY <1>3, <1>a, <1>c, <2>a, <2>b
    DEF DropObj, At, Advance, Goto, Rest, I, Fail, kernelVars, histVars, TypeOK, i, c
  <2>2. CodeOk'
    BY <1>3, <1>a
    DEF DropObj, At, Advance, Goto, Rest, I, Fail, kernelVars, histVars, CodeOk, c
  <2>3. Untouched({p, c})
    BY <1>3, <1>a, <1>c, <2>a, <2>b
    DEF DropObj, At, Advance, Goto, Rest, I, Fail, kernelVars, histVars, CodeOk, TypeOK,
        Untouched, c
  <2>4. /\ uid0' = uid0 /\ cur' = cur /\ failed \subseteq failed'
        /\ t = "helper" => objs' = objs
    BY <1>3, <1>c, <2>a, <2>b
    DEF DropObj, At, Advance, Goto, Rest, I, Fail, kernelVars, histVars, i
  <2>5. life'[p] = "alive"
    BY <1>3, <1>a, <1>c, <2>a, <2>b
    DEF DropObj, At, Advance, Goto, Rest, I, Fail, kernelVars, histVars, TypeOK, c
  <2>6. bad'[p] = BadOf(lines')
    BY <1>3, <1>a
    DEF DropObj, At, Advance, Goto, Rest, I, Fail, kernelVars, histVars, TypeOK, c
  <2>7. \/ code'[c] = code[c]
        \/ SubOk(Level(t), code'[c])
    BY <1>3, <1>a, <1>c, <1>f, <2>a, <2>b
    DEF DropObj, At, Advance, Goto, Rest, I, Fail, kernelVars, histVars, CodeOk, c, i
  <2>8. \/ /\ Now(r, F, O \ {i.obj}, k, lines, W)
           /\ <<r, F, O \ {i.obj}, k, lines, W>> \in P
    BY <1>3, <1>a, <1>c, <1>d, <2>a, <2>b
    DEF DropObj, At, Advance, Goto, Rest, I, Fail, kernelVars, histVars, CodeOk, TypeOK, c,
        Now, i, r, F, O, k, W, Kid
  <2>9. Situation(p)' \in P  BY <1>e, <2>8
  <2>. QED  BY <2>a, <2>1, <2>2, <2>3, <2>4, <2>5, <2>6, <2>7, <2>9
       DEF Goal, Keeps, Continues, c
<1>4. CASE MakePipe(p)
  <2>a. life[p] = "alive" /\ code[p] # <<>>  BY <1>4 DEF MakePipe, At
  <2>b. i.op = "pipe"  BY <1>4 DEF MakePipe, At, i
  <2>c. {i.q} \X {"R", "W"} \subseteq PipeEnd  BY <1>c, <2>a, <2>b DEF PipeNames, PipeEnd
  <2>d. fds' \in [Proc -> SUBSET PipeEnd]
    BY <1>4, <1>a, <2>c DEF MakePipe, I, i, TypeOK
  <2>1. TypeOK'  BY <1>4, <2>d DEF MakePipe, kernelVars, TypeOK
  <2>2. CodeOk'
    BY <1>4, <1>a
    DEF MakePipe, At, Advance, Goto, Rest, I, Fail, kernelVars, histVars, CodeOk, c
  <2>3. Untouched({p, c})
    BY <1>4, <1>a, <1>c, <2>a, <2>b
    DEF MakePipe, At, Advance, Goto, Rest, I, Fail, kernelVars, histVars, CodeOk, TypeOK,
        Untouched, c
  <2>4. /\ uid0' = uid0 /\ cur' = cur /\ failed \subseteq failed'
        /\ t = "helper" => objs' = objs
    BY <1>4, <1>c, <2>a, <2>b
    DEF MakePipe, At, Advance, Goto, Rest, I, Fail, kernelVars, histVars, i
  <2>5. life'[p] = "alive"
    BY <1>4, <1>a, <1>c, <2>a, <2>b
    DEF MakePipe, At, Advance, Goto, Rest, I, Fail, kernelVars, histVars, TypeOK, c
  <2>6. bad'[p] = BadOf(lines')
    BY <1>4, <1>a
    DEF MakePipe, At, Advance, Goto, Rest, I, Fail, kernelVars, histVars, TypeOK, c
  <2>7. \/ code'[c] = code[c]
        \/ SubOk(Level(t), code'[c])
    BY <1>4, <1>a, <1>c, <1>f, <2>a, <2>b
    DEF MakePipe, At, Advance, Goto, Rest, I, Fail, kernelVars, histVars, CodeOk, c, i
  <2>8a. <<r, F \cup ({i.q} \X {"R", "W"}), O, k, lines, W>> \in P /\ <<i.fail, F, O, k, lines, W>> \in P
    BY <1>c, <2>a, <2>b
  <2>8b. Now(r, F \cup ({i.q} \X {"R", "W"}), O, k, lines, W) \/ Now(i.fail, F, O, k, lines, W)
    <3>u. UNCHANGED <<objs, life, lines>>  BY <1>4 DEF MakePipe, kernelVars, histVars
    <3>1. CASE /\ Advance(p)
                  /\ fds' = [fds EXCEPT ![p] = @ \cup ({I(p).q} \X {"R", "W"})]
                  /\ UNCHANGED failed
      BY <3>1, <3>u, <1>a, <1>c, <1>d, <2>a, <2>b
      DEF Advance, Goto, Rest, I, CodeOk, TypeOK, Now, i, r, F, O, k, W, Kid, c
    <3>2. CASE Fail(p, "pipe") /\ UNCHANGED fds
      BY <3>2, <3>u, <1>a, <1>c, <1>d, <2>a, <2>b
      DEF Fail, Goto, I, CodeOk, TypeOK, Now, i, r, F, O, k, W, Kid, c
    <3>. QED  BY <1>4, <3>1, <3>2 DEF MakePipe, c
  <2>9. Situation(p)' \in P  BY <1>e, <2>8a, <2>8b
  <2>. QED  BY <2>a, <2>1, <2>2, <2>3, <2>4, <2>5, <2>6, <2>7, <2>9
       DEF Goal, Keeps, Continues, c
<1>5. CASE CloseFd(p)
  <2>a. life[p] = "alive" /\ code[p] # <<>>  BY <1>5 DEF CloseFd, At
  <2>b. i.op = "close"  BY <1>5 DEF CloseFd, At, i
  <2>1. TypeOK'
    BY <1>5, <1>a, <1>c, <2>a, <2>b
    DEF CloseFd, At, Advance, Goto, Rest, I, Fail, kernelVars, histVars, TypeOK, i, c
  <2>2. CodeOk'
    BY <1>5, <1>a
    DEF CloseFd, At, Advance, Goto, Rest, I, Fail, kernelVars, histVars, CodeOk, c
  <2>3. Untouched({p, c})
    BY <1>5, <1>a, <1>c, <2>a, <2>b
    DEF CloseFd, At, Advance, Goto, Rest, I, Fail, kernelVars, histVars, CodeOk, TypeOK,
        Untouched, c
  <2>4. /\ uid0' = uid0 /\ cur' = cur /\ failed \subseteq failed'
        /\ t = "helper" => objs' = objs
    BY <1>5, <1>c, <2>a, <2>b
    DEF CloseFd, At, Advance, Goto, Rest, I, Fail, kernelVars, histVars, i
  <2>5. life'[p] = "alive"
    BY <1>5, <1>a, <1>c, <2>a, <2>b
    DEF CloseFd, At, Advance, Goto, Rest, I, Fail, kernelVars, histVars, TypeOK, c
  <2>6. bad'[p] = BadOf(lines')
    BY <1>5, <1>a
    DEF CloseFd, At, Advance, Goto, Rest, I, Fail, kernelVars, histVars, TypeOK, c
  <2>7. \/ code'[c] = code[c]
        \/ SubOk(Level(t), code'[c])
    BY <1>5, <1>a, <1>c, <1>f, <2>a, <2>b
    DEF CloseFd, At, Advance, Goto, Rest, I, Fail, kernelVars, histVars, CodeOk, c, i
  <2>8. \/ /\ Now(r, F \ {i.fd}, O, k, lines, W)
           /\ <<r, F \ {i.fd}, O, k, lines, W>> \in P
    BY <1>5, <1>a, <1>c, <1>d, <2>a, <2>b
    DEF CloseFd, At, Advance, Goto, Rest, I, Fail, kernelVars, histVars, CodeOk, TypeOK, c,
        Now, i, r, F, O, k, W, Kid
  <2>9. Situation(p)' \in P  BY <1>e, <2>8
  <2>. QED  BY <2>a, <2>1, <2>2, <2>3, <2>4, <2>5, <2>6, <2>7, <2>9
       DEF Goal, Keeps, Continues, c
<1>6. CASE ForkChild(p)
  <2>a. life[p] = "alive" /\ code[p] # <<>>  BY <1>6 DEF ForkChild, At
  <2>b. i.op = "fork"  BY <1>6 DEF ForkChild, At, i
  <2>1. TypeOK'
    BY <1>6, <1>a, <1>c, <2>a, <2>b, StatusFacts
    DEF ForkChild, At, Advance, Goto, Rest, I, Fail, kernelVars, histVars, TypeOK, i, c
  <2>2. CodeOk'
    BY <1>6, <1>a
    DEF ForkChild, At, Advance, Goto, Rest, I, Fail, kernelVars, histVars, CodeOk, c
  <2>3. Untouched({p, c})
    BY <1>6, <1>a, <1>c, <2>a, <2>b
    DEF ForkChild, At, Advance, Goto, Rest, I, Fail, kernelVars, histVars, CodeOk, TypeOK,
        Untouched, c
  <2>4. /\ uid0' = uid0 /\ cur' = cur /\ failed \subseteq failed'
        /\ t = "helper" => objs' = objs
    BY <1>6, <1>c, <2>a, <2>b
    DEF ForkChild, At, Advance, Goto, Rest, I, Fail, kernelVars, histVars, i
  <2>5. life'[p] = "alive"
    BY <1>6, <1>a, <1>c, <2>a, <2>b
    DEF ForkChild, At, Advance, Goto, Rest, I, Fail, kernelVars, histVars, TypeOK, c
  <2>6. bad'[p] = BadOf(lines')
    BY <1>6, <1>a
    DEF ForkChild, At, Advance, Goto, Rest, I, Fail, kernelVars, histVars, TypeOK, c
  <2>7. \/ code'[c] = code[c]
        \/ SubOk(Level(t), code'[c])
    BY <1>6, <1>a, <1>c, <1>f, <2>a, <2>b
    DEF ForkChild, At, Advance, Goto, Rest, I, Fail, kernelVars, histVars, CodeOk, c, i
  <2>8a. <<r, F, O, "forked", lines, W>> \in P /\ <<i.fail, F, O, k, lines, W>> \in P
    BY <1>c, <2>a, <2>b
  <2>8b. Now(r, F, O, "forked", lines, W) \/ Now(i.fail, F, O, k, lines, W)
    <3>u. UNCHANGED <<objs, lines>>  BY <1>6 DEF ForkChild, kernelVars, histVars
    <3>1. CASE /\ code' = [code EXCEPT ![p] = Rest(p), ![c] = I(p).child]
                  /\ life' = [life EXCEPT ![c] = "alive"]
                  /\ fds' = [fds EXCEPT ![c] = fds[p]]
                  /\ UNCHANGED failed
      BY <3>1, <3>u, <1>a, <1>c, <1>d, <2>a, <2>b
      DEF Rest, I, CodeOk, TypeOK, Now, i, r, F, O, k, W, Kid, c
    <3>2. CASE Fail(p, "fork") /\ UNCHANGED <<life, status, fds, bad>>
      BY <3>2, <3>u, <1>a, <1>c, <1>d, <2>a, <2>b
      DEF Fail, Goto, I, CodeOk, TypeOK, Now, i, r, F, O, k, W, Kid, c
    <3>. QED  BY <1>6, <3>1, <3>2 DEF ForkChild, c
  <2>9. Situation(p)' \in P  BY <1>e, <2>8a, <2>8b
  <2>. QED  BY <2>a, <2>1, <2>2, <2>3, <2>4, <2>5, <2>6, <2>7, <2>9
       DEF Goal, Keeps, Continues, c
<1>7. CASE SendMsg(p)
  <2>a. life[p] = "alive" /\ code[p] # <<>> /\ i.op = "send"  BY <1>7 DEF SendMsg, At, i
  <2>b. t # "helper" /\ <<r, F, O, k, lines, W>> \in P  BY <1>c, <2>a
  <2>1. uid0' = uid0 /\ cur' = cur /\ failed \subseteq failed' /\ sig' = sig /\ bad' = bad /\ lines' = lines
    BY <1>7 DEF SendMsg, kernelVars
  <2>2. CASE Advance(p) /\ UNCHANGED <<life, status, fds, failed>>
    <3>1. TypeOK'  BY <2>1, <2>2 DEF TypeOK
    <3>2. CodeOk' /\ Untouched({p, c}) /\ code'[c] = code[c]
      BY <1>a, <2>1, <2>2 DEF Advance, Goto, CodeOk, Untouched
    <3>3. Now(r, F, O, k, lines, W)
      BY <1>7, <1>a, <2>1, <2>2
      DEF SendMsg, Advance, Goto, Rest, CodeOk, Now, r, F, O, k, W, Kid
    <3>4. Situation(p)' \in P  BY <1>e, <2>b, <3>3
    <3>. QED  BY <2>a, <2>b, <2>1, <2>2, <3>1, <3>2, <3>4 DEF Goal, Keeps, Continues, c
  <2>3. CASE Dies(p, {"signal"})
    <3>1. TypeOK'
      <4>1. {"signal"} \in Status  BY StatusFacts
      <4>. QED  BY <1>a, <2>1, <2>3, <4>1, DiesType
    <3>2. CodeOk' /\ Untouched({p, c}) /\ code'[c] = code[c] /\ code'[p] = <<>> /\ life'[p] = "dead"
      BY <1>a, <2>1, <2>3 DEF Dies, Goto, CodeOk, Untouched, TypeOK
    <3>. QED  BY <2>a, <2>b, <2>1, <3>1, <3>2 DEF Goal, Keeps, Leaves, c
  <2>. QED  BY <1>7, <2>2, <2>3 DEF SendMsg
<1>8. CASE RecvMsg(p)
  <2>a. life[p] = "alive" /\ code[p] # <<>>  BY <1>8 DEF RecvMsg, At
  <2>b. i.op = "recv"  BY <1>8 DEF RecvMsg, At, i
  <2>1. TypeOK'
    BY <1>8, <1>a, <1>c, <2>a, <2>b
    DEF RecvMsg, At, Advance, Goto, Rest, I, Fail, kernelVars, histVars, TypeOK, i, c
  <2>2. CodeOk'
    BY <1>8, <1>a
    DEF RecvMsg, At, Advance, Goto, Rest, I, Fail, kernelVars, histVars, CodeOk, c
  <2>3. Untouched({p, c})
    BY <1>8, <1>a, <1>c, <2>a, <2>b
    DEF RecvMsg, At, Advance, Goto, Rest, I, Fail, kernelVars, histVars, CodeOk, TypeOK,
        Untouched, c
  <2>4. /\ uid0' = uid0 /\ cur' = cur /\ failed \subseteq failed'
        /\ t = "helper" => objs' = objs
    BY <1>8, <1>c, <2>a, <2>b
    DEF RecvMsg, At, Advance, Goto, Rest, I, Fail, kernelVars, histVars, i
  <2>5. life'[p] = "alive"
    BY <1>8, <1>a, <1>c, <2>a, <2>b
    DEF RecvMsg, At, Advance, Goto, Rest, I, Fail, kernelVars, histVars, TypeOK, c
  <2>6. bad'[p] = BadOf(lines')
    BY <1>8, <1>a
    DEF RecvMsg, At, Advance, Goto, Rest, I, Fail, kernelVars, histVars, TypeOK, c
  <2>7. \/ code'[c] = code[c]
        \/ SubOk(Level(t), code'[c])
    BY <1>8, <1>a, <1>c, <1>f, <2>a, <2>b
    DEF RecvMsg, At, Advance, Goto, Rest, I, Fail, kernelVars, histVars, CodeOk, c, i
  <2>8. \/ /\ Now(r, F, O, k, lines, W)
           /\ <<r, F, O, k, lines, W>> \in P
        \/ /\ Now(i.none, F, O, k, lines, W)
           /\ <<i.none, F, O, k, lines, W>> \in P
    BY <1>8, <1>a, <1>c, <1>d, <2>a, <2>b
    DEF RecvMsg, At, Advance, Goto, Rest, I, Fail, kernelVars, histVars, CodeOk, TypeOK, c,
        Now, i, r, F, O, k, W, Kid
  <2>9. Situation(p)' \in P  BY <1>e, <2>8
  <2>. QED  BY <2>a, <2>1, <2>2, <2>3, <2>4, <2>5, <2>6, <2>7, <2>9
       DEF Goal, Keeps, Continues, c
<1>9. CASE ReportLine(p)
  <2>a. life[p] = "alive" /\ code[p] # <<>>  BY <1>9 DEF ReportLine, At
  <2>b. i.op = "report"  BY <1>9 DEF ReportLine, At, i
  <2>ap. Append(lines, i.res) \in Seq(Result)  BY <1>c, <2>a, <2>b DEF TypeOK
  <2>1. TypeOK'
    BY <1>9, <1>a, <1>c, <2>a, <2>b, <2>ap
    DEF ReportLine, At, Advance, Goto, Rest, I, Fail, kernelVars, histVars, TypeOK, i, c
  <2>2. CodeOk'
    BY <1>9, <1>a
    DEF ReportLine, At, Advance, Goto, Rest, I, Fail, kernelVars, histVars, CodeOk, c
  <2>3. Untouched({p, c})
    BY <1>9, <1>a, <1>c, <2>a, <2>b
    DEF ReportLine, At, Advance, Goto, Rest, I, Fail, kernelVars, histVars, CodeOk, TypeOK,
        Untouched, c
  <2>4. /\ uid0' = uid0 /\ cur' = cur /\ failed \subseteq failed'
        /\ t = "helper" => objs' = objs
    BY <1>9, <1>c, <2>a, <2>b
    DEF ReportLine, At, Advance, Goto, Rest, I, Fail, kernelVars, histVars, i
  <2>5. life'[p] = "alive"
    BY <1>9, <1>a, <1>c, <2>a, <2>b
    DEF ReportLine, At, Advance, Goto, Rest, I, Fail, kernelVars, histVars, TypeOK, c
  <2>6. bad'[p] = BadOf(lines')
    <3>1. bad'[p] = bad[p] \cup ({i.res} \cap {"FAIL", "STUB"}) /\ lines' = Append(lines, i.res)
      BY <1>9, <1>a
      DEF ReportLine, At, Advance, Goto, Rest, I, Fail, kernelVars, histVars, TypeOK, i
    <3>. QED  BY <3>1, <1>c, <2>a, <2>b, BadAppend DEF TypeOK
  <2>7. \/ code'[c] = code[c]
        \/ SubOk(Level(t), code'[c])
    BY <1>9, <1>a, <1>c, <1>f, <2>a, <2>b
    DEF ReportLine, At, Advance, Goto, Rest, I, Fail, kernelVars, histVars, CodeOk, c, i
  <2>8. \/ /\ Now(r, F, O, k, Append(lines, i.res), W)
           /\ <<r, F, O, k, Append(lines, i.res), W>> \in P
    BY <1>9, <1>a, <1>c, <1>d, <2>a, <2>b
    DEF ReportLine, At, Advance, Goto, Rest, I, Fail, kernelVars, histVars, CodeOk, TypeOK, c,
        Now, i, r, F, O, k, W, Kid
  <2>9. Situation(p)' \in P  BY <1>e, <2>8
  <2>. QED  BY <2>a, <2>1, <2>2, <2>3, <2>4, <2>5, <2>6, <2>7, <2>9
       DEF Goal, Keeps, Continues, c
<1>10. CASE Branch(p)
  <2>a. life[p] = "alive" /\ code[p] # <<>>  BY <1>10 DEF Branch, At
  <2>1. TypeOK'
    BY <1>10, <1>a, <1>c, <2>a
    DEF Branch, At, Advance, Goto, Rest, I, Fail, kernelVars, histVars, TypeOK, i, c
  <2>2. CodeOk'
    BY <1>10, <1>a
    DEF Branch, At, Advance, Goto, Rest, I, Fail, kernelVars, histVars, CodeOk, c
  <2>3. Untouched({p, c})
    BY <1>10, <1>a, <1>c, <2>a
    DEF Branch, At, Advance, Goto, Rest, I, Fail, kernelVars, histVars, CodeOk, TypeOK,
        Untouched, c
  <2>4. /\ uid0' = uid0 /\ cur' = cur /\ failed \subseteq failed'
        /\ t = "helper" => objs' = objs
    BY <1>10, <1>c, <2>a DEF Branch, At, Advance, Goto, Rest, I, Fail, kernelVars, histVars, i
  <2>5. life'[p] = "alive"
    BY <1>10, <1>a, <1>c, <2>a
    DEF Branch, At, Advance, Goto, Rest, I, Fail, kernelVars, histVars, TypeOK, c
  <2>6. bad'[p] = BadOf(lines')
    BY <1>10, <1>a
    DEF Branch, At, Advance, Goto, Rest, I, Fail, kernelVars, histVars, TypeOK, c
  <2>7. \/ code'[c] = code[c]
        \/ SubOk(Level(t), code'[c])
    BY <1>10, <1>a, <1>c, <1>f, <2>a
    DEF Branch, At, Advance, Goto, Rest, I, Fail, kernelVars, histVars, CodeOk, c, i
  <2>8. \/ /\ Now(r, F, O, k, lines, W)
           /\ <<r, F, O, k, lines, W>> \in P
        \/ /\ Now(i.then, F, O, k, lines, W)
           /\ <<i.then, F, O, k, lines, W>> \in P
    BY <1>10, <1>a, <1>c, <1>d, <2>a
    DEF Branch, At, Advance, Goto, Rest, I, Fail, kernelVars, histVars, CodeOk, TypeOK, c, Now,
        i, r, F, O, k, W, Kid
  <2>9. Situation(p)' \in P  BY <1>e, <2>8
  <2>. QED  BY <2>a, <2>1, <2>2, <2>3, <2>4, <2>5, <2>6, <2>7, <2>9
       DEF Goal, Keeps, Continues, c
<1>11. CASE ExitProc(p)
  <2>1. /\ p = "child" /\ life[p] = "alive" /\ code[p] = <<>> /\ Dies(p, ReturnStatus(p))
        /\ UNCHANGED <<uid0, cur, sig, bad, lines, failed, objs>>
    BY <1>11, <1>a, <1>c DEF ExitProc, At, i, kernelVars, histVars
  <2>2. ReturnStatus(p) \in Status  BY StatusFacts, <1>a DEF ReturnStatus, TypeOK
  <2>3. TypeOK'  BY <1>a, <2>1, <2>2, DiesType
  <2>4. /\ CodeOk' /\ Untouched({p, c}) /\ code'[c] = code[c] /\ code'[p] = <<>>
        /\ life'[p] = "dead" /\ status'[p] = ReturnStatus(p)
    BY <1>a, <2>1 DEF Dies, Goto, CodeOk, Untouched, TypeOK
  <2>. QED  BY <2>1, <2>3, <2>4 DEF Goal, Keeps, Leaves, c
<1>12. CASE WaitChild(p)
  <2>a. life[p] = "alive" /\ code[p] # <<>>  BY <1>12 DEF WaitChild, At
  <2>1. TypeOK'
    BY <1>12, <1>a, <1>c, <2>a
    DEF WaitChild, At, Advance, Goto, Rest, I, Fail, kernelVars, histVars, Reaped, TypeOK, i, c
  <2>2. CodeOk'
    BY <1>12, <1>a
    DEF WaitChild, At, Advance, Goto, Rest, I, Fail, kernelVars, histVars, Reaped, CodeOk, c
  <2>3. Untouched({p, c})
    BY <1>12, <1>a, <1>c, <2>a
    DEF WaitChild, At, Advance, Goto, Rest, I, Fail, kernelVars, histVars, Reaped, CodeOk,
        TypeOK, Untouched, c
  <2>4. /\ uid0' = uid0 /\ cur' = cur /\ failed \subseteq failed'
        /\ t = "helper" => objs' = objs
    BY <1>12, <1>c, <2>a
    DEF WaitChild, At, Advance, Goto, Rest, I, Fail, kernelVars, histVars, Reaped, i
  <2>5. life'[p] = "alive"
    BY <1>12, <1>a, <1>c, <2>a
    DEF WaitChild, At, Advance, Goto, Rest, I, Fail, kernelVars, histVars, Reaped, TypeOK, c
  <2>6. bad'[p] = BadOf(lines')
    BY <1>12, <1>a, <1>c, <2>a
    DEF WaitChild, At, Advance, Goto, Rest, I, Fail, kernelVars, histVars, Reaped, i
  <2>7. \/ code'[c] = code[c]
        \/ SubOk(Level(t), code'[c])
    BY <1>12, <1>a, <1>c, <1>f, <2>a
    DEF WaitChild, At, Advance, Goto, Rest, I, Fail, kernelVars, histVars, Reaped, CodeOk, c, i
  <2>8. \/ /\ Now(r, F, O, "reaped", lines, W)
           /\ <<r, F, O, "reaped", lines, W>> \in P
        \/ /\ Now(i.fail, F, O, "reaped", lines, W)
           /\ <<i.fail, F, O, "reaped", lines, W>> \in P
        \/ /\ Now(r, F, O, k, lines, W)
           /\ <<r, F, O, k, lines, W>> \in P
    BY <1>12, <1>a, <1>c, <1>d, <2>a
    DEF WaitChild, At, Advance, Goto, Rest, I, Fail, kernelVars, histVars, Reaped, CodeOk,
        TypeOK, c, Now, i, r, F, O, k, W, Kid
  <2>9. Situation(p)' \in P  BY <1>e, <2>8
  <2>. QED  BY <2>a, <2>1, <2>2, <2>3, <2>4, <2>5, <2>6, <2>7, <2>9
       DEF Goal, Keeps, Continues, c
<1>13. CASE StopSelf(p)  BY <1>13, <1>c DEF StopSelf, At, i
<1>14. CASE ContChild(p)
  <2>a. life[p] = "alive" /\ code[p] # <<>>  BY <1>14 DEF ContChild, At
  <2>b. i.op = "cont"  BY <1>14 DEF ContChild, At, i
  <2>1. TypeOK'
    BY <1>14, <1>a, <1>c, <2>a, <2>b
    DEF ContChild, At, Advance, Goto, Rest, I, Fail, kernelVars, histVars, TypeOK, i, c
  <2>2. CodeOk'
    BY <1>14, <1>a
    DEF ContChild, At, Advance, Goto, Rest, I, Fail, kernelVars, histVars, CodeOk, c
  <2>3. Untouched({p, c})
    BY <1>14, <1>a, <1>c, <2>a, <2>b
    DEF ContChild, At, Advance, Goto, Rest, I, Fail, kernelVars, histVars, CodeOk, TypeOK,
        Untouched, c
  <2>4. /\ uid0' = uid0 /\ cur' = cur /\ failed \subseteq failed'
        /\ t = "helper" => objs' = objs
    BY <1>14, <1>c, <2>a, <2>b
    DEF ContChild, At, Advance, Goto, Rest, I, Fail, kernelVars, histVars, i
  <2>5. life'[p] = "alive"
    BY <1>14, <1>a, <1>c, <2>a, <2>b
    DEF ContChild, At, Advance, Goto, Rest, I, Fail, kernelVars, histVars, TypeOK, c
  <2>6. bad'[p] = BadOf(lines')
    BY <1>14, <1>a
    DEF ContChild, At, Advance, Goto, Rest, I, Fail, kernelVars, histVars, TypeOK, c
  <2>7. \/ code'[c] = code[c]
        \/ SubOk(Level(t), code'[c])
    BY <1>14, <1>a, <1>c, <1>f, <2>a, <2>b
    DEF ContChild, At, Advance, Goto, Rest, I, Fail, kernelVars, histVars, CodeOk, c, i
  <2>8a. <<r, F, O, k, lines, W>> \in P /\ <<i.fail, F, O, k, lines, W>> \in P
    BY <1>c, <2>a, <2>b
  <2>8b. Now(r, F, O, k, lines, W) \/ Now(i.fail, F, O, k, lines, W)
    <3>u. UNCHANGED <<fds, objs, lines>>  BY <1>14 DEF ContChild, kernelVars, histVars
    <3>1. CASE /\ life["child"] = "stopped" /\ Advance(p)
                  /\ life' = [life EXCEPT !["child"] = "alive"] /\ UNCHANGED failed
      BY <3>1, <3>u, <1>a, <1>c, <1>d, <2>a, <2>b
      DEF Advance, Goto, Rest, I, CodeOk, TypeOK, Now, i, r, F, O, k, W, Kid, c
    <3>2. CASE Fail(p, "cont") /\ UNCHANGED life
      BY <3>2, <3>u, <1>a, <1>c, <1>d, <2>a, <2>b
      DEF Fail, Goto, I, CodeOk, TypeOK, Now, i, r, F, O, k, W, Kid, c
    <3>. QED  BY <1>14, <3>1, <3>2 DEF ContChild, c
  <2>9. Situation(p)' \in P  BY <1>e, <2>8a, <2>8b
  <2>. QED  BY <2>a, <2>1, <2>2, <2>3, <2>4, <2>5, <2>6, <2>7, <2>9
       DEF Goal, Keeps, Continues, c
<1>15. CASE KillGrand(p)  BY <1>15, <1>c DEF KillGrand, At, i
<1>16. CASE KillChild(p)
  <2>a. life[p] = "alive" /\ code[p] # <<>>  BY <1>16 DEF KillChild, At
  <2>b. i.op = "sigkill"  BY <1>16 DEF KillChild, At, i
  <2>c. life' \in [Proc -> {"none", "alive", "stopped", "dead", "reaped"}]
    BY <1>16 DEF KillChild, TypeOK
  <2>d. status' \in [Proc -> Status]
    <3>1. {"signal"} \in Status  BY StatusFacts
    <3>2. status' = status \/ status' = [status EXCEPT !["child"] = {"signal"}]
      BY <1>16 DEF KillChild
    <3>. QED  BY <3>1, <3>2 DEF TypeOK
  <2>1. TypeOK'  BY <1>16, <2>c, <2>d DEF KillChild, kernelVars, histVars, TypeOK
  <2>2. CodeOk'
    BY <1>16, <1>a
    DEF KillChild, At, Advance, Goto, Rest, I, Fail, kernelVars, histVars, CodeOk, c
  <2>3. Untouched({p, c})
    BY <1>16, <1>a, <1>c, <2>a, <2>b
    DEF KillChild, At, Advance, Goto, Rest, I, Fail, kernelVars, histVars, CodeOk, TypeOK,
        Untouched, c
  <2>4. /\ uid0' = uid0 /\ cur' = cur /\ failed \subseteq failed'
        /\ t = "helper" => objs' = objs
    BY <1>16, <1>c, <2>a, <2>b
    DEF KillChild, At, Advance, Goto, Rest, I, Fail, kernelVars, histVars, i
  <2>5. life'[p] = "alive"
    BY <1>16, <1>a, <1>c, <2>a, <2>b
    DEF KillChild, At, Advance, Goto, Rest, I, Fail, kernelVars, histVars, TypeOK, c
  <2>6. bad'[p] = BadOf(lines')
    BY <1>16, <1>a
    DEF KillChild, At, Advance, Goto, Rest, I, Fail, kernelVars, histVars, TypeOK, c
  <2>7. \/ code'[c] = code[c]
        \/ SubOk(Level(t), code'[c])
    BY <1>16, <1>a, <1>c, <1>f, <2>a, <2>b
    DEF KillChild, At, Advance, Goto, Rest, I, Fail, kernelVars, histVars, CodeOk, c, i
  <2>8a. <<r, F, O, k, lines, W>> \in P  BY <1>c, <2>a, <2>b
  <2>8b. Now(r, F, O, k, lines, W)
    <3>u. UNCHANGED <<fds, objs, lines, failed>>  BY <1>16 DEF KillChild, kernelVars, histVars
    <3>1. CASE /\ life["child"] \in {"alive", "stopped"}
                  /\ code' = [code EXCEPT ![p] = Rest(p), !["child"] = <<>>]
                  /\ life' = [life EXCEPT !["child"] = "dead"]
      BY <3>1, <3>u, <1>a, <1>c, <1>d, <2>a, <2>b
      DEF Rest, I, CodeOk, TypeOK, Now, i, r, F, O, k, W, Kid, c
    <3>2. CASE Advance(p) /\ UNCHANGED life
      BY <3>2, <3>u, <1>a, <1>c, <1>d, <2>a, <2>b
      DEF Advance, Goto, Rest, I, CodeOk, TypeOK, Now, i, r, F, O, k, W, Kid, c
    <3>. QED  BY <1>16, <3>1, <3>2 DEF KillChild, c
  <2>9. Situation(p)' \in P  BY <1>e, <2>8a, <2>8b
  <2>. QED  BY <2>a, <2>1, <2>2, <2>3, <2>4, <2>5, <2>6, <2>7, <2>9
       DEF Goal, Keeps, Continues, c
<1>17. CASE PollPidfd(p)
  <2>a. life[p] = "alive" /\ code[p] # <<>>  BY <1>17 DEF PollPidfd, At
  <2>b. i.op = "poll"  BY <1>17 DEF PollPidfd, At, i
  <2>1. TypeOK'
    BY <1>17, <1>a, <1>c, <2>a, <2>b
    DEF PollPidfd, At, Advance, Goto, Rest, I, Fail, kernelVars, histVars, TypeOK, i, c
  <2>2. CodeOk'
    BY <1>17, <1>a
    DEF PollPidfd, At, Advance, Goto, Rest, I, Fail, kernelVars, histVars, CodeOk, c
  <2>3. Untouched({p, c})
    BY <1>17, <1>a, <1>c, <2>a, <2>b
    DEF PollPidfd, At, Advance, Goto, Rest, I, Fail, kernelVars, histVars, CodeOk, TypeOK,
        Untouched, c
  <2>4. /\ uid0' = uid0 /\ cur' = cur /\ failed \subseteq failed'
        /\ t = "helper" => objs' = objs
    BY <1>17, <1>c, <2>a, <2>b
    DEF PollPidfd, At, Advance, Goto, Rest, I, Fail, kernelVars, histVars, i
  <2>5. life'[p] = "alive"
    BY <1>17, <1>a, <1>c, <2>a, <2>b
    DEF PollPidfd, At, Advance, Goto, Rest, I, Fail, kernelVars, histVars, TypeOK, c
  <2>6. bad'[p] = BadOf(lines')
    BY <1>17, <1>a
    DEF PollPidfd, At, Advance, Goto, Rest, I, Fail, kernelVars, histVars, TypeOK, c
  <2>7. \/ code'[c] = code[c]
        \/ SubOk(Level(t), code'[c])
    BY <1>17, <1>a, <1>c, <1>f, <2>a, <2>b
    DEF PollPidfd, At, Advance, Goto, Rest, I, Fail, kernelVars, histVars, CodeOk, c, i
  <2>8. \/ /\ Now(r, F, O, k, lines, W)
           /\ <<r, F, O, k, lines, W>> \in P
    BY <1>17, <1>a, <1>c, <1>d, <2>a, <2>b
    DEF PollPidfd, At, Advance, Goto, Rest, I, Fail, kernelVars, histVars, CodeOk, TypeOK, c,
        Now, i, r, F, O, k, W, Kid
  <2>9. Situation(p)' \in P  BY <1>e, <2>8
  <2>. QED  BY <2>a, <2>1, <2>2, <2>3, <2>4, <2>5, <2>6, <2>7, <2>9
       DEF Goal, Keeps, Continues, c
<1>. QED  BY <1>1, <1>2, <1>3, <1>4, <1>5, <1>6, <1>7, <1>8, <1>9,
           <1>10, <1>11, <1>12, <1>13, <1>14, <1>15, <1>16, <1>17 DEF Step, Goal

-----------------------------------------------------------------------------
(* The inductive invariant. *)

\* shadow_checker_user() in the throwaway process of run_as_uid1().
Helper == Order[cur] = "user" /\ uid0

GoodIn(t, p) ==
  Good(t, code[p], fds[p], objs \ {"tmpdir"}, Kid(ChildOf[p]), lines, failed \cap WaitCalls)

\* main() reports itself.
MainReports ==
  /\ life["main"] \in {"alive", "dead"}
  /\ life["main"] = "alive" => GoodIn(Order[cur], "main") /\ bad["main"] = BadOf(lines)
  /\ SubOk("child", code["child"]) /\ SubOk("grand", code["grand"])

\* The helper reports: it is not forked yet, could not be forked, runs, is dead,
\* or all is over.
Unforked ==
  /\ code["main"] = run_as_uid1(userTest) /\ lines = <<>> /\ bad["main"] = {}
  /\ life["child"] = "none" /\ life["grand"] = "none" /\ failed \cap WaitCalls = {}
NoFork ==
  /\ code["main"] = Say("SKIP") /\ lines = <<>> /\ bad["main"] = {}
  /\ life["child"] = "none"
Running ==
  /\ code["main"] = <<Op("waitcounts")>> /\ bad["main"] = {}
  /\ life["child"] = "alive" /\ GoodIn("helper", "child") /\ bad["child"] = BadOf(lines)
Died ==
  /\ code["main"] = <<Op("waitcounts")>> /\ bad["main"] = {}
  /\ life["child"] = "dead"
  /\ \/ status["child"] = {"signal"} /\ "killchild" \in failed
     \/ status["child"] = BadOf(lines) /\ Len(lines) = 1
Over ==
  /\ code["main"] = <<>> /\ life["child"] \in {"none", "reaped"}
  /\ "killchild" \in failed \/ (Len(lines) = 1 /\ bad["main"] = BadOf(lines))

HelperReports ==
  /\ life["main"] = "alive" /\ fds["main"] = {} /\ objs \subseteq {"tmpdir"}
  /\ SubOk("grand", code["grand"])
  /\ Unforked \/ NoFork \/ Running \/ Died \/ Over

Idle == life = NoLife /\ code["main"] = <<>>

IInv ==
  /\ TypeOK /\ CodeOk
  /\ cur \notin DOMAIN Order => Idle
  /\ cur \in DOMAIN Order /\ ~Helper => MainReports
  /\ cur \in DOMAIN Order /\ Helper => HelperReports

LEMMA OrderFacts ==
  /\ Len(Order) \in Nat /\ DOMAIN Order = 1..Len(Order)
  /\ \A j \in DOMAIN Order : Order[j] \in TestNames /\ Order[j] # "helper"
<1>1. Order \in Seq(ToSet(mainTests))  BY OrderAssumption
<1>2. Len(Order) \in Nat /\ DOMAIN Order = 1..Len(Order)  BY <1>1
<1>3. \A j \in DOMAIN Order : Order[j] \in ToSet(mainTests)  BY <1>1
<1>. QED  BY <1>2, <1>3, TestNamesFact DEF TestNames

\* Between the judgement and its set of situations.
LEMMA GoodInSituation ==
  ASSUME NEW t, NEW p
  PROVE  GoodIn(t, p) <=> \E P : Closed(t, P) /\ Situation(p) \in P
BY Zenon DEF GoodIn, Good, Situation

LEMMA GoodInSituationNext ==
  ASSUME NEW t, NEW p
  PROVE  GoodIn(t, p)' <=> \E P : Closed(t, P) /\ Situation(p)' \in P
BY Zenon DEF GoodIn, Good, Situation

\* The end of a script that is good.
LEMMA GoodEnds ==
  ASSUME NEW t, NEW p, GoodIn(t, p), code[p] = <<>>
  PROVE  Final(t, fds[p], objs \ {"tmpdir"}, Kid(ChildOf[p]), lines, failed \cap WaitCalls)
<1>1. PICK P : /\ Closed(t, P)
               /\ <<code[p], fds[p], objs \ {"tmpdir"}, Kid(ChildOf[p]), lines,
                    failed \cap WaitCalls>> \in P
  BY Zenon DEF GoodIn, Good
<1>2. Local(t, P, code[p], fds[p], objs \ {"tmpdir"}, Kid(ChildOf[p]), lines,
            failed \cap WaitCalls)
  BY <1>1, Zenon DEF Closed
<1>. QED  BY <1>2, Zenon DEF Local

LEMMA BadOfEmpty == BadOf(<<>>) = {}
BY DEF BadOf, ToSet

LEMMA BadOfOne == ASSUME NEW x PROVE BadOf(<<x>>) = {x} \cap {"FAIL", "STUB"}
<1>1. ToSet(<<x>>) = {x}  BY DEF ToSet
<1>. QED  BY <1>1 DEF BadOf

\* main() at the start of a test.
LEMMA FreshTest ==
  ASSUME NEW c, NEW u \in BOOLEAN, NEW n \in 1..(Len(Order) + 1),
         c = [p \in Proc |-> IF p = "main" /\ n \in DOMAIN Order
                             THEN Script(Order[n]) ELSE <<>>],
         u = uid0
  PROVE  /\ SubOk("child", c["child"]) /\ SubOk("grand", c["grand"])
         /\ n \in DOMAIN Order /\ ~(Order[n] = "user" /\ u) =>
              Good(Order[n], c["main"], {}, {}, "none", <<>>, {})
         /\ n \in DOMAIN Order /\ Order[n] = "user" /\ u => c["main"] = run_as_uid1(userTest)
         /\ n \notin DOMAIN Order => c["main"] = <<>>
<1>1. "main" \in Proc /\ "child" \in Proc /\ "grand" \in Proc  BY ProcFacts
<1>2. c["child"] = <<>> /\ c["grand"] = <<>>  BY <1>1
<1>3. n \in DOMAIN Order => c["main"] = Script(Order[n])  BY <1>1
<1>4. n \notin DOMAIN Order => c["main"] = <<>>  BY <1>1
<1>5. Script("user") = user  BY DEF Script
<1>6. uid0 => user = run_as_uid1(userTest)  BY DEF user
<1>7. ASSUME n \in DOMAIN Order, ~(Order[n] = "user" /\ u)
      PROVE  Good(Order[n], c["main"], {}, {}, "none", <<>>, {})
  BY <1>3, <1>7, OrderFacts, ScriptGood
<1>. QED  BY <1>2, <1>3, <1>4, <1>5, <1>6, <1>7, SubEmpty

LEMMA FreshTypes ==
  /\ NoLife \in [Proc -> {"none", "alive", "stopped", "dead", "reaped"}]
  /\ NoSet \in [Proc -> Status] /\ NoSet \in [Proc -> SUBSET PipeEnd]
  /\ NoSet \in [Proc -> SUBSET {"FAIL", "STUB"}] /\ <<>> \in Seq(Result)
  /\ NoLife["main"] = "alive" /\ NoLife["child"] = "none" /\ NoLife["grand"] = "none"
  /\ NoSet["main"] = {}
BY StatusFacts, ProcFacts DEF NoLife, NoSet

LEMMA IInvInit == Init => IInv
<1>. SUFFICES ASSUME Init PROVE IInv  OBVIOUS
<1>1. 1 \in 1..(Len(Order) + 1)  BY OrderFacts
<1>2. TypeOK  BY <1>1, FreshTypes DEF Init, TypeOK
<1>3. CodeOk  BY DEF Init, Entry, CodeOk
<1>4. /\ SubOk("child", code["child"]) /\ SubOk("grand", code["grand"])
      /\ 1 \in DOMAIN Order /\ ~(Order[1] = "user" /\ uid0) =>
           Good(Order[1], code["main"], {}, {}, "none", <<>>, {})
      /\ 1 \in DOMAIN Order /\ Order[1] = "user" /\ uid0 => code["main"] = run_as_uid1(userTest)
      /\ 1 \notin DOMAIN Order => code["main"] = <<>>
  <2>1. code = [p \in Proc |-> IF p = "main" /\ 1 \in DOMAIN Order
                               THEN Script(Order[1]) ELSE <<>>]
    BY DEF Init, Entry
  <2>2. uid0 \in BOOLEAN  BY DEF Init
  <2>. QED  BY <1>1, <2>1, <2>2, FreshTest
<1>5. /\ cur = 1 /\ life = NoLife /\ objs = {} /\ lines = <<>> /\ failed = {}
      /\ fds = NoSet /\ bad = NoSet
  BY DEF Init
<1>6. fds["main"] = {} /\ bad["main"] = {} /\ objs \ {"tmpdir"} = {} /\ failed \cap WaitCalls = {}
  BY <1>5, FreshTypes
<1>7. Kid(ChildOf["main"]) = "none"  BY <1>5, FreshTypes, ProcFacts DEF Kid
<1>8. cur \notin DOMAIN Order => Idle  BY <1>4, <1>5 DEF Idle
<1>9. cur \in DOMAIN Order /\ ~Helper => MainReports
  <2>. SUFFICES ASSUME cur \in DOMAIN Order, ~Helper PROVE MainReports  OBVIOUS
  <2>1. GoodIn(Order[cur], "main")  BY <1>4, <1>5, <1>6, <1>7 DEF GoodIn, Helper
  <2>. QED  BY <1>4, <1>5, <1>6, <2>1, FreshTypes, BadOfEmpty DEF MainReports
<1>10. cur \in DOMAIN Order /\ Helper => HelperReports
  BY <1>4, <1>5, <1>6, FreshTypes DEF HelperReports, Unforked, Helper
<1>. QED  BY <1>2, <1>3, <1>8, <1>9, <1>10 DEF IInv

LEMMA IInvNextTest == IInv /\ NextTest => IInv'
<1>. SUFFICES ASSUME IInv, NextTest PROVE IInv'  OBVIOUS
<1>. DEFINE n == cur + 1
<1>1. n \in 1..(Len(Order) + 1)  BY OrderFacts DEF NextTest, TestDone
<1>2. TypeOK'  BY <1>1, FreshTypes DEF NextTest, TypeOK, IInv
<1>3. CodeOk'  BY DEF NextTest, Entry, CodeOk
<1>4. /\ SubOk("child", code'["child"]) /\ SubOk("grand", code'["grand"])
      /\ n \in DOMAIN Order /\ ~(Order[n] = "user" /\ uid0) =>
           Good(Order[n], code'["main"], {}, {}, "none", <<>>, {})
      /\ n \in DOMAIN Order /\ Order[n] = "user" /\ uid0 => code'["main"] = run_as_uid1(userTest)
      /\ n \notin DOMAIN Order => code'["main"] = <<>>
  <2>1. code' = [p \in Proc |-> IF p = "main" /\ n \in DOMAIN Order
                                THEN Script(Order[n]) ELSE <<>>]
    BY DEF NextTest, Entry
  <2>2. uid0 \in BOOLEAN  BY DEF IInv, TypeOK
  <2>. HIDE DEF n
  <2>. QED  BY <1>1, <2>1, <2>2, FreshTest
<1>5. /\ cur' = n /\ life' = NoLife /\ objs' = {} /\ lines' = <<>> /\ failed' = {}
      /\ fds' = NoSet /\ bad' = NoSet /\ uid0' = uid0
  BY DEF NextTest
<1>. HIDE DEF n
<1>6. /\ fds'["main"] = {} /\ bad'["main"] = {} /\ objs' \ {"tmpdir"} = {}
      /\ failed' \cap WaitCalls = {}
  BY <1>5, FreshTypes
<1>7. Kid(ChildOf["main"])' = "none"  BY <1>5, FreshTypes, ProcFacts DEF Kid
<1>8. (cur \notin DOMAIN Order => Idle)'  BY <1>4, <1>5 DEF Idle
<1>9. (cur \in DOMAIN Order /\ ~Helper => MainReports)'
  <2>. SUFFICES ASSUME n \in DOMAIN Order, ~(Order[n] = "user" /\ uid0) PROVE MainReports'
    BY <1>5 DEF Helper
  <2>1. GoodIn(Order[cur], "main")'  BY <1>4, <1>5, <1>6, <1>7 DEF GoodIn
  <2>. QED  BY <1>4, <1>5, <1>6, <2>1, FreshTypes, BadOfEmpty DEF MainReports
<1>10. (cur \in DOMAIN Order /\ Helper => HelperReports)'
  BY <1>4, <1>5, <1>6, FreshTypes DEF HelperReports, Unforked, Helper
<1>. QED  BY <1>2, <1>3, <1>8, <1>9, <1>10 DEF IInv

\* Nobody runs after the last test.
LEMMA IdleStep ==
  ASSUME IInv, cur \notin DOMAIN Order
  PROVE  /\ \A p \in Proc : ~Step(p)
         /\ \A p \in Sub : ~Killed(p)
<1>1. /\ life["child"] = "none" /\ life["grand"] = "none" /\ code["main"] = <<>>
  BY FreshTypes DEF IInv, Idle
<1>2. ASSUME NEW p \in Proc PROVE ~(life[p] = "alive" /\ code[p] # <<>>)
  BY <1>1, ProcFacts
<1>3. ASSUME NEW p \in Proc PROVE ~Step(p)
  BY <1>1, <1>2, ProcFacts
  DEF Step, TryCall, MakeObj, DropObj, MakePipe, CloseFd, ForkChild, SendMsg, RecvMsg,
      ReportLine, Branch, ExitProc, WaitChild, StopSelf, ContChild, KillGrand, KillChild,
      PollPidfd, At
<1>4. ASSUME NEW p \in Sub PROVE ~Killed(p)  BY <1>1, ProcFacts DEF Killed
<1>. QED  BY <1>3, <1>4

\* What a child does changes nothing in the situation of its parent.
LEMMA SituationStays ==
  ASSUME NEW p \in {"main", "child"}, OutsideBooks, code'[p] = code[p], fds'[p] = fds[p],
         \/ life'[ChildOf[p]] = life[ChildOf[p]]
         \/ /\ life[ChildOf[p]] \in {"alive", "stopped"}
            /\ life'[ChildOf[p]] \in {"alive", "stopped", "dead"},
         NEW t, GoodIn(t, p)
  PROVE  GoodIn(t, p)'
<1>1. Kid(ChildOf[p])' = Kid(ChildOf[p])
  <2>1. CASE life'[ChildOf[p]] = life[ChildOf[p]]  BY <2>1 DEF Kid
  <2>2. CASE /\ life[ChildOf[p]] \in {"alive", "stopped"}
             /\ life'[ChildOf[p]] \in {"alive", "stopped", "dead"}
    BY <2>2 DEF Kid
  <2>. QED  BY <2>1, <2>2
<1>2. Situation(p)' = Situation(p)  BY <1>1 DEF Situation, OutsideBooks
<1>. QED  BY <1>2, GoodInSituation, GoodInSituationNext, Zenon

\* A step of a child, or its end from outside, while main() reports.
LEMMA MainModeChild ==
  ASSUME IInv, cur \in DOMAIN Order, ~Helper, NEW p \in Sub, Step(p) \/ Killed(p)
  PROVE  IInv'
<1>1. p \in {"child", "grand"} /\ Proc = {"main", "child", "grand"} /\ ChildOf["main"] = "child"
  BY ProcFacts
<1>2. TypeOK /\ CodeOk /\ MainReports  BY DEF IInv
<1>3. SubOk(p, code[p]) /\ SubOk("grand", code["grand"])  BY <1>1, <1>2 DEF MainReports
<1>4. /\ TypeOK' /\ CodeOk' /\ OutsideBooks /\ Untouched({p, "grand"})
      /\ SubOk(p, code'[p]) /\ SubOk("grand", code'["grand"])
      /\ life[p] \in {"alive", "stopped"} /\ life'[p] \in {"alive", "stopped", "dead"}
  <2>1. CASE Step(p)
    <3>1. /\ TypeOK' /\ CodeOk' /\ OutsideBooks /\ Untouched({p, "grand"})
          /\ SubOk(p, code'[p]) /\ SubOk("grand", code'["grand"])
          /\ life[p] = "alive" /\ life'[p] \in {"alive", "stopped", "dead"}
      BY <1>2, <1>3, <2>1, SubStep
    <3>. QED  BY <3>1
  <2>2. CASE Killed(p)
    <3>1. /\ TypeOK' /\ CodeOk' /\ OutsideBooks /\ Untouched({p})
          /\ life[p] \in {"alive", "stopped"} /\ life'[p] = "dead" /\ code'[p] = <<>>
      BY <1>2, <2>2, KilledStep
    <3>2. Untouched({p, "grand"})  BY <3>1 DEF Untouched
    <3>3. SubOk(p, code'[p])  BY <3>1, SubEmpty, Zenon
    <3>4. p # "grand" => code'["grand"] = code["grand"]  BY <1>1, <3>1 DEF Untouched
    <3>. QED  BY <1>3, <3>1, <3>2, <3>3, <3>4
  <2>. QED  BY <2>1, <2>2
<1>5. /\ code'["main"] = code["main"] /\ life'["main"] = life["main"]
      /\ fds'["main"] = fds["main"] /\ bad'["main"] = bad["main"]
      /\ p = "grand" => life'["child"] = life["child"] /\ code'["child"] = code["child"]
  BY <1>1, <1>4 DEF Untouched
<1>6. uid0' = uid0 /\ cur' = cur /\ lines' = lines  BY <1>4 DEF OutsideBooks
<1>7. life["main"] = "alive" => GoodIn(Order[cur], "main")'
  <2>. SUFFICES ASSUME life["main"] = "alive" PROVE GoodIn(Order[cur], "main")'  OBVIOUS
  <2>1. GoodIn(Order[cur], "main")  BY <1>2 DEF MainReports
  <2>2. \/ life'[ChildOf["main"]] = life[ChildOf["main"]]
        \/ /\ life[ChildOf["main"]] \in {"alive", "stopped"}
           /\ life'[ChildOf["main"]] \in {"alive", "stopped", "dead"}
    BY <1>1, <1>4, <1>5
  <2>3. PICK t : t = Order[cur]  OBVIOUS
  <2>4. GoodIn(t, "main")  BY <2>1, <2>3
  <2>5. GoodIn(t, "main")'  BY <2>4, <1>4, <1>5, <2>2, SituationStays
  <2>. QED  BY <1>6, <2>3, <2>5
<1>8. MainReports'  BY <1>1, <1>2, <1>4, <1>5, <1>6, <1>7 DEF MainReports
<1>. QED  BY <1>4, <1>6, <1>8 DEF IInv, Helper

\* A step of main() while it reports.
LEMMA MainModeMain ==
  ASSUME IInv, cur \in DOMAIN Order, ~Helper, Step("main")
  PROVE  IInv'
<1>0. PICK t : t = Order[cur]  OBVIOUS
<1>1. /\ Proc = {"main", "child", "grand"} /\ ChildOf["main"] = "child"
      /\ t \in TestNames /\ t # "helper"
  BY <1>0, ProcFacts, OrderFacts
<1>2. TypeOK /\ CodeOk /\ MainReports  BY DEF IInv
<1>3. CASE life["main"] = "alive"
  <2>1. GoodIn(t, "main") /\ bad["main"] = BadOf(lines)  BY <1>0, <1>2, <1>3 DEF MainReports
  <2>2. PICK P : Closed(t, P) /\ Situation("main") \in P
    BY <2>1, GoodInSituation, Zenon
  <2>3. Keeps("main", t) /\ (Continues("main", t, P) \/ Leaves("main", t))
    BY <1>1, <1>2, <2>1, <2>2, ReporterStep
  <2>4. /\ TypeOK' /\ CodeOk' /\ Untouched({"main", "child"}) /\ uid0' = uid0 /\ cur' = cur
    BY <1>1, <2>3 DEF Keeps
  <2>5. SubOk("grand", code'["grand"])
    <3>1. code'["grand"] = code["grand"]  BY <1>1, <2>4 DEF Untouched
    <3>. QED  BY <3>1, <1>2 DEF MainReports
  <2>6. SubOk("child", code'["child"])
    <3>1. Level(t) = "child"  BY <1>1 DEF Level
    <3>2. code'["child"] = code["child"] \/ SubOk("child", code'["child"])
      BY <1>1, <2>3, <3>1 DEF Continues, Leaves
    <3>. QED  BY <3>2, <1>2 DEF MainReports
  <2>7. MainReports'
    <3>1. CASE Continues("main", t, P)
      <4>1. /\ life'["main"] = "alive" /\ Situation("main")' \in P
            /\ bad'["main"] = BadOf(lines')
        BY <3>1 DEF Continues
      <4>2. GoodIn(t, "main")'  BY <2>2, <4>1, GoodInSituationNext, Zenon
      <4>3. GoodIn(Order[cur], "main")'  BY <1>0, <2>4, <4>2
      <4>. QED  BY <2>5, <2>6, <4>1, <4>3 DEF MainReports
    <3>2. CASE Leaves("main", t)
      BY <2>5, <2>6, <3>2 DEF MainReports, Leaves
    <3>. QED  BY <2>3, <3>1, <3>2
  <2>. QED  BY <2>4, <2>7 DEF IInv, Helper
<1>4. CASE life["main"] # "alive"
  BY <1>4, ProcFacts
  DEF Step, TryCall, MakeObj, DropObj, MakePipe, CloseFd, ForkChild, SendMsg, RecvMsg,
      ReportLine, Branch, ExitProc, WaitChild, StopSelf, ContChild, KillGrand, KillChild,
      PollPidfd, At
<1>. QED  BY <1>3, <1>4

\* Which step a call is.
LEMMA StepIs ==
  ASSUME NEW p \in Proc, Step(p)
  PROVE  /\ life[p] = "alive"
         /\ code[p] = <<>> => p \in Sub
         /\ code[p] # <<>> /\ Head(code[p]).op = "fork" => ForkChild(p)
         /\ code[p] # <<>> /\ Head(code[p]).op = "report" => ReportLine(p)
         /\ code[p] # <<>> /\ Head(code[p]).op = "waitcounts" => WaitChild(p)
BY DEF Step, TryCall, MakeObj, DropObj, MakePipe, CloseFd, ForkChild, SendMsg, RecvMsg,
      ReportLine, Branch, ExitProc, WaitChild, StopSelf, ContChild, KillGrand, KillChild,
      PollPidfd, At

\* main() while the helper reports.
LEMMA HelperModeMain ==
  ASSUME IInv, cur \in DOMAIN Order, Helper, Step("main")
  PROVE  IInv'
<1>1. Proc = {"main", "child", "grand"} /\ ChildOf["main"] = "child" /\ ChildOf["child"] = "grand"
  BY ProcFacts
<1>2. TypeOK /\ CodeOk /\ HelperReports  BY DEF IInv
<1>3. /\ code["main"] # <<>>
      /\ Head(code["main"]).op = "fork" => ForkChild("main")
      /\ Head(code["main"]).op = "report" => ReportLine("main")
      /\ Head(code["main"]).op = "waitcounts" => WaitChild("main")
  BY <1>1, StepIs, ProcFacts
<1>4. CASE Unforked
  <2>. DEFINE X == <<Try("setuid", Say("SKIP"))>> \o userTest
  <2>. HIDE DEF X
  <2>1. code["main"] = <<Fork(X, Say("SKIP")), Op("waitcounts")>>
    BY <1>4 DEF Unforked, run_as_uid1, X
  <2>2. /\ Head(code["main"]).op = "fork" /\ Head(code["main"]).child = X
        /\ Head(code["main"]).fail = Say("SKIP") /\ Tail(code["main"]) = <<Op("waitcounts")>>
    BY <2>1 DEF Fork
  <2>3. ForkChild("main")  BY <1>3, <2>2
  <2>4. UNCHANGED <<uid0, cur, sig, objs, lines>>  BY <2>3 DEF ForkChild, kernelVars
  <2>5. CASE /\ code' = [code EXCEPT !["main"] = <<Op("waitcounts")>>, !["child"] = X]
             /\ life' = [life EXCEPT !["child"] = "alive"]
             /\ status' = [status EXCEPT !["child"] = {}]
             /\ fds' = [fds EXCEPT !["child"] = fds["main"]]
             /\ bad' = [bad EXCEPT !["child"] = bad["main"]]
             /\ UNCHANGED failed
    <3>1. TypeOK'
      BY <1>1, <1>2, <2>4, <2>5, StatusFacts DEF TypeOK
    <3>2. CodeOk'  BY <1>1, <1>2, <2>5 DEF CodeOk
    <3>3. /\ code'["main"] = <<Op("waitcounts")>> /\ code'["child"] = X
          /\ code'["grand"] = code["grand"]
      BY <1>1, <1>2, <2>5 DEF CodeOk
    <3>4. /\ life'["main"] = "alive" /\ life'["child"] = "alive" /\ life'["grand"] = "none"
          /\ fds'["main"] = {} /\ fds'["child"] = {} /\ bad'["main"] = {} /\ bad'["child"] = {}
      BY <1>1, <1>2, <1>4, <2>5 DEF TypeOK, HelperReports, Unforked
    <3>5. objs' \ {"tmpdir"} = {} /\ failed' \cap WaitCalls = {} /\ lines' = <<>>
      BY <1>2, <1>4, <2>4, <2>5 DEF HelperReports, Unforked
    <3>6. Kid(ChildOf["child"])' = "none"  BY <1>1, <3>4 DEF Kid
    <3>7. Good("helper", X, {}, {}, "none", <<>>, {})  BY HelperGood, Zenon DEF X
    <3>8. GoodIn("helper", "child")'  BY <3>3, <3>4, <3>5, <3>6, <3>7 DEF GoodIn
    <3>9. Running'  BY <3>3, <3>4, <3>5, <3>8, BadOfEmpty DEF Running
    <3>10. HelperReports'
      BY <1>2, <2>4, <3>3, <3>4, <3>9 DEF HelperReports
    <3>. QED  BY <2>4, <3>1, <3>2, <3>10 DEF IInv, Helper
  <2>6. CASE code' = [code EXCEPT !["main"] = Say("SKIP")] /\ UNCHANGED <<life, status, fds, bad>>
    <3>1. TypeOK'  BY <1>2, <2>4, <2>6 DEF TypeOK
    <3>2. CodeOk'  BY <1>1, <1>2, <2>6 DEF CodeOk
    <3>3. code'["main"] = Say("SKIP") /\ code'["grand"] = code["grand"]
      BY <1>1, <1>2, <2>6 DEF CodeOk
    <3>4. NoFork'  BY <1>4, <2>4, <2>6, <3>3 DEF Unforked, NoFork
    <3>5. HelperReports'  BY <1>2, <2>4, <2>6, <3>3, <3>4 DEF HelperReports
    <3>. QED  BY <2>4, <3>1, <3>2, <3>5 DEF IInv, Helper
  <2>7. \/ /\ code' = [code EXCEPT !["main"] = <<Op("waitcounts")>>, !["child"] = X]
           /\ life' = [life EXCEPT !["child"] = "alive"]
           /\ status' = [status EXCEPT !["child"] = {}]
           /\ fds' = [fds EXCEPT !["child"] = fds["main"]]
           /\ bad' = [bad EXCEPT !["child"] = bad["main"]]
           /\ UNCHANGED failed
        \/ code' = [code EXCEPT !["main"] = Say("SKIP")] /\ UNCHANGED <<life, status, fds, bad>>
    BY <1>1, <2>2, <2>3 DEF ForkChild, Fail, Goto, I, Rest
  <2>. QED  BY <2>5, <2>6, <2>7
<1>5. CASE NoFork
  <2>1. code["main"] = <<Report("SKIP")>>  BY <1>5 DEF NoFork, Say
  <2>2. /\ Head(code["main"]).op = "report" /\ Head(code["main"]).res = "SKIP"
        /\ Tail(code["main"]) = <<>>
    BY <2>1 DEF Report
  <2>3. ReportLine("main")  BY <1>3, <2>2
  <2>4. /\ code' = [code EXCEPT !["main"] = <<>>] /\ lines' = Append(<<>>, "SKIP")
        /\ bad' = [bad EXCEPT !["main"] = @ \cup ({"SKIP"} \cap {"FAIL", "STUB"})]
        /\ UNCHANGED <<uid0, cur, life, status, fds, sig, objs, failed>>
    BY <1>5, <2>2, <2>3 DEF ReportLine, Advance, Goto, Rest, I, kernelVars, NoFork
  <2>5. lines' = <<"SKIP">> /\ lines' \in Seq(Result) /\ Len(lines') = 1
    BY <2>4 DEF Result
  <2>6. TypeOK'  BY <1>1, <1>2, <2>4, <2>5 DEF TypeOK
  <2>7. CodeOk' /\ code'["main"] = <<>> /\ code'["grand"] = code["grand"]
    BY <1>1, <1>2, <2>4 DEF CodeOk
  <2>8. bad'["main"] = {}  BY <1>1, <1>2, <1>5, <2>4 DEF TypeOK, NoFork
  <2>9. BadOf(lines') = {}  BY <2>5, BadOfOne
  <2>10. Over'  BY <1>5, <2>4, <2>5, <2>7, <2>8, <2>9 DEF Over, NoFork
  <2>11. HelperReports'  BY <1>2, <2>4, <2>7, <2>10 DEF HelperReports
  <2>. QED  BY <2>4, <2>6, <2>7, <2>11 DEF IInv, Helper
<1>6. CASE Running \/ Died
  <2>1. code["main"] = <<Op("waitcounts")>>  BY <1>6 DEF Running, Died
  <2>2. Head(code["main"]).op = "waitcounts" /\ Tail(code["main"]) = <<>>
    BY <2>1 DEF Op
  <2>3. WaitChild("main")  BY <1>3, <2>2
  <2>4. /\ life["child"] = "dead" /\ code' = [code EXCEPT !["main"] = <<>>]
        /\ life' = [life EXCEPT !["child"] = "reaped"]
        /\ bad' = [bad EXCEPT !["main"] = @ \cup (status["child"] \ {"signal"})]
        /\ UNCHANGED <<uid0, cur, status, fds, sig, objs, lines, failed>>
    BY <1>1, <2>2, <2>3 DEF WaitChild, At, Advance, Goto, Rest, Reaped, kernelVars, histVars
  <2>5. Died  BY <1>6, <2>4 DEF Running
  <2>6. bad'["main"] = status["child"] \ {"signal"}
    BY <1>1, <1>2, <2>4, <2>5 DEF TypeOK, Died
  <2>7. status["child"] \ {"signal"} \in SUBSET {"FAIL", "STUB"}
    BY <2>5 DEF Died, BadOf
  <2>8. TypeOK'
    <3>1. life' \in [Proc -> {"none", "alive", "stopped", "dead", "reaped"}]
      BY <1>2, <2>4 DEF TypeOK
    <3>2. bad' \in [Proc -> SUBSET {"FAIL", "STUB"}]
      BY <1>2, <2>4, <2>7 DEF TypeOK
    <3>. QED  BY <1>2, <2>4, <3>1, <3>2 DEF TypeOK
  <2>9. CodeOk' /\ code'["main"] = <<>> /\ code'["grand"] = code["grand"]
    BY <1>1, <1>2, <2>4 DEF CodeOk
  <2>10. life'["main"] = life["main"] /\ life'["child"] = "reaped"
    BY <1>1, <1>2, <2>4 DEF TypeOK
  <2>11. Over'
    <3>1. CASE "killchild" \in failed  BY <2>4, <2>9, <2>10, <3>1 DEF Over
    <3>2. CASE status["child"] = BadOf(lines) /\ Len(lines) = 1
      <4>1. bad'["main"] = BadOf(lines)  BY <2>6, <3>2 DEF BadOf
      <4>. QED  BY <2>4, <2>9, <2>10, <3>2, <4>1 DEF Over
    <3>. QED  BY <2>5, <3>1, <3>2 DEF Died
  <2>12. HelperReports'  BY <1>2, <2>4, <2>9, <2>10, <2>11 DEF HelperReports
  <2>. QED  BY <2>4, <2>8, <2>9, <2>12 DEF IInv, Helper
<1>7. CASE Over  BY <1>3, <1>7 DEF Over
<1>. QED  BY <1>2, <1>4, <1>5, <1>6, <1>7 DEF HelperReports

\* A step of the helper.
LEMMA HelperModeChild ==
  ASSUME IInv, cur \in DOMAIN Order, Helper, Step("child")
  PROVE  IInv'
<1>1. Proc = {"main", "child", "grand"} /\ ChildOf["child"] = "grand"  BY ProcFacts
<1>2. TypeOK /\ CodeOk /\ HelperReports  BY DEF IInv
<1>3. life["child"] = "alive"  BY <1>1, StepIs
<1>4. Running
  BY <1>2, <1>3 DEF HelperReports, Unforked, NoFork, Died, Over
<1>5. PICK P : Closed("helper", P) /\ Situation("child") \in P
  BY <1>4, GoodInSituation, Zenon DEF Running
<1>6. Keeps("child", "helper") /\ (Continues("child", "helper", P) \/ Leaves("child", "helper"))
  BY <1>2, <1>4, <1>5, ReporterStep DEF Running
<1>7. /\ TypeOK' /\ CodeOk' /\ Untouched({"child", "grand"}) /\ uid0' = uid0 /\ cur' = cur
      /\ failed \subseteq failed' /\ objs' = objs
  BY <1>1, <1>6 DEF Keeps
<1>8. /\ code'["main"] = code["main"] /\ life'["main"] = life["main"]
      /\ fds'["main"] = fds["main"] /\ bad'["main"] = bad["main"]
  BY <1>1, <1>7 DEF Untouched
<1>9. SubOk("grand", code'["grand"])
  <2>1. Level("helper") = "grand"  BY DEF Level
  <2>2. code'["grand"] = code["grand"] \/ SubOk("grand", code'["grand"])
    BY <1>1, <1>6, <2>1 DEF Continues, Leaves
  <2>. QED  BY <2>2, <1>2 DEF HelperReports
<1>10. Running' \/ Died'
  <2>1. CASE Continues("child", "helper", P)
    <3>1. /\ life'["child"] = "alive" /\ Situation("child")' \in P
          /\ bad'["child"] = BadOf(lines')
      BY <2>1 DEF Continues
    <3>2. GoodIn("helper", "child")'  BY <1>5, <3>1, GoodInSituationNext, Zenon
    <3>3. Running'  BY <1>4, <1>8, <3>1, <3>2 DEF Running
    <3>. QED  BY <3>3
  <2>2. CASE Leaves("child", "helper")
    <3>1. /\ life'["child"] = "dead" /\ lines' = lines /\ code["child"] = <<>>
          /\ status'["child"] = ReturnStatus("child")
      BY <2>2 DEF Leaves
    <3>2. ReturnStatus("child") = BadOf(lines)  BY <1>4 DEF ReturnStatus, Helper, Running
    <3>3. Len(lines) = 1
      <4>1. GoodIn("helper", "child")  BY <1>4 DEF Running
      <4>2. Final("helper", fds["child"], objs \ {"tmpdir"}, Kid(ChildOf["child"]), lines,
                  failed \cap WaitCalls)
        BY <3>1, <4>1, GoodEnds
      <4>. QED  BY <4>2 DEF Final
    <3>4. Died'  BY <1>4, <1>8, <3>1, <3>2, <3>3 DEF Died, Running
    <3>. QED  BY <3>4
  <2>. QED  BY <1>6, <2>1, <2>2
<1>11. HelperReports'  BY <1>2, <1>7, <1>8, <1>9, <1>10 DEF HelperReports
<1>. QED  BY <1>7, <1>11 DEF IInv, Helper

\* The child of the helper, and deaths from outside.
LEMMA HelperModeOthers ==
  ASSUME IInv, cur \in DOMAIN Order, Helper,
         NEW p \in Sub, (p = "grand" /\ Step(p)) \/ Killed(p)
  PROVE  IInv'
<1>1. /\ Proc = {"main", "child", "grand"} /\ Sub = {"child", "grand"}
      /\ ChildOf["child"] = "grand"
  BY ProcFacts
<1>2. TypeOK /\ CodeOk /\ HelperReports  BY DEF IInv
<1>3. SubOk("grand", code["grand"])  BY <1>2 DEF HelperReports
<1>4. /\ TypeOK' /\ CodeOk' /\ OutsideBooks /\ Untouched({p})
      /\ SubOk("grand", code'["grand"])
      /\ life[p] \in {"alive", "stopped"} /\ life'[p] \in {"alive", "stopped", "dead"}
      /\ p = "child" => /\ life'["child"] = "dead" /\ status'["child"] = {"signal"}
                        /\ "killchild" \in failed'
  <2>1. CASE p = "grand" /\ Step(p)
    <3>1. /\ TypeOK' /\ CodeOk' /\ OutsideBooks /\ Untouched({p, "grand"})
          /\ SubOk("grand", code'["grand"])
          /\ life[p] = "alive" /\ life'[p] \in {"alive", "stopped", "dead"}
      BY <1>2, <1>3, <2>1, SubStep
    <3>2. Untouched({p})  BY <2>1, <3>1 DEF Untouched
    <3>. QED  BY <2>1, <3>1, <3>2
  <2>2. CASE Killed(p)
    <3>1. /\ TypeOK' /\ CodeOk' /\ OutsideBooks /\ Untouched({p})
          /\ life[p] \in {"alive", "stopped"} /\ life'[p] = "dead" /\ code'[p] = <<>>
          /\ status'[p] = {"signal"} /\ (p = "child" => "killchild" \in failed')
      BY <1>2, <2>2, KilledStep
    <3>2. SubOk("grand", code'["grand"])
      <4>1. CASE p = "grand"  BY <3>1, <4>1, SubEmpty
      <4>2. CASE p # "grand"
        <5>1. code'["grand"] = code["grand"]  BY <1>1, <3>1, <4>2 DEF Untouched
        <5>. QED  BY <1>3, <5>1
      <4>. QED  BY <4>1, <4>2
    <3>. QED  BY <3>1, <3>2
  <2>. QED  BY <2>1, <2>2
<1>5. /\ uid0' = uid0 /\ cur' = cur /\ lines' = lines /\ failed \subseteq failed'
      /\ failed' \cap WaitCalls = failed \cap WaitCalls /\ objs' \subseteq {"tmpdir"}
  <2>1. objs' \ {"tmpdir"} = objs \ {"tmpdir"}  BY <1>4 DEF OutsideBooks
  <2>2. objs' \subseteq {"tmpdir"}  BY <1>2, <2>1 DEF HelperReports
  <2>. QED  BY <1>4, <2>2 DEF OutsideBooks
<1>6. /\ code'["main"] = code["main"] /\ life'["main"] = life["main"]
      /\ fds'["main"] = fds["main"] /\ bad'["main"] = bad["main"]
  BY <1>1, <1>4 DEF Untouched
<1>7. CASE p = "grand"
  <2>1. /\ code'["child"] = code["child"] /\ life'["child"] = life["child"]
        /\ fds'["child"] = fds["child"] /\ bad'["child"] = bad["child"]
        /\ status'["child"] = status["child"]
    BY <1>1, <1>4, <1>7 DEF Untouched
  <2>2. ~Unforked  BY <1>4, <1>7 DEF Unforked
  <2>3. NoFork => NoFork'  BY <1>5, <1>6, <2>1 DEF NoFork
  <2>4. Running => Running'
    <3>. SUFFICES ASSUME Running PROVE Running'  OBVIOUS
    <3>1. GoodIn("helper", "child")  BY DEF Running
    <3>2. GoodIn("helper", "child")'  BY <1>1, <1>4, <1>7, <2>1, <3>1, SituationStays
    <3>. QED  BY <1>5, <1>6, <2>1, <3>2 DEF Running
  <2>5. Died => Died'  BY <1>5, <1>6, <2>1 DEF Died
  <2>6. Over => Over'  BY <1>5, <1>6, <2>1 DEF Over
  <2>7. HelperReports'
    BY <1>2, <1>4, <1>5, <1>6, <2>2, <2>3, <2>4, <2>5, <2>6 DEF HelperReports
  <2>. QED  BY <1>4, <1>5, <2>7 DEF IInv, Helper
<1>8. CASE p = "child"
  <2>1. Running
    BY <1>2, <1>4, <1>8 DEF HelperReports, Unforked, NoFork, Died, Over
  <2>2. Died'  BY <1>4, <1>6, <1>8, <2>1 DEF Died, Running
  <2>3. HelperReports'  BY <1>2, <1>4, <1>5, <1>6, <2>2 DEF HelperReports
  <2>. QED  BY <1>4, <1>5, <2>3 DEF IInv, Helper
<1>. QED  BY <1>1, <1>7, <1>8

LEMMA IInvStutter == IInv /\ UNCHANGED vars => IInv'
<1>. SUFFICES ASSUME IInv, UNCHANGED vars PROVE IInv'  OBVIOUS
<1>1. UNCHANGED <<uid0, cur, code, life, status, fds, bad, sig, objs, lines, failed>>
  BY DEF vars, procVars, histVars
<1>2. TypeOK' /\ CodeOk'  BY <1>1 DEF IInv, TypeOK, CodeOk
<1>3. Idle => Idle'  BY <1>1 DEF Idle
<1>4. ASSUME NEW t, NEW p PROVE GoodIn(t, p)' <=> GoodIn(t, p)
  BY <1>1 DEF GoodIn, Kid
<1>5. MainReports => MainReports'
  <2>1. PICK t : t = Order[cur]  OBVIOUS
  <2>2. GoodIn(Order[cur], "main") => GoodIn(Order[cur], "main")'
    BY <1>1, <1>4, <2>1
  <2>. QED  BY <1>1, <2>2 DEF MainReports
<1>6. Running => Running'  BY <1>1, <1>4 DEF Running
<1>7. (Unforked => Unforked') /\ (NoFork => NoFork') /\ (Died => Died') /\ (Over => Over')
  BY <1>1 DEF Unforked, NoFork, Died, Over
<1>8. HelperReports => HelperReports'
  <2>1. UNCHANGED <<life, fds, objs, code>>  BY <1>1
  <2>. QED  BY <2>1, <1>6, <1>7, Zenon DEF HelperReports
<1>9. Helper' <=> Helper  BY <1>1 DEF Helper
<1>. QED  BY <1>1, <1>2, <1>3, <1>5, <1>8, <1>9 DEF IInv

LEMMA IInvNext == IInv /\ [Next]_vars => IInv'
<1>. SUFFICES ASSUME IInv, [Next]_vars PROVE IInv'  OBVIOUS
<1>1. Proc = {"main", "child", "grand"} /\ Sub = {"child", "grand"}  BY ProcFacts
<1>2. ASSUME NEW p \in Proc, Step(p) PROVE IInv'
  <2>1. cur \in DOMAIN Order  BY <1>2, IdleStep
  <2>2. CASE Helper
    <3>1. CASE p = "main"  BY <1>2, <2>1, <2>2, <3>1, HelperModeMain
    <3>2. CASE p = "child"  BY <1>2, <2>1, <2>2, <3>2, HelperModeChild
    <3>3. CASE p = "grand"  BY <1>1, <1>2, <2>1, <2>2, <3>3, HelperModeOthers
    <3>. QED  BY <1>1, <3>1, <3>2, <3>3
  <2>3. CASE ~Helper
    <3>1. CASE p = "main"  BY <1>2, <2>1, <2>3, <3>1, MainModeMain
    <3>2. CASE p # "main"
      <4>1. p \in Sub  BY <1>1, <3>2
      <4>. QED  BY <1>2, <2>1, <2>3, <4>1, MainModeChild
    <3>. QED  BY <3>1, <3>2
  <2>. QED  BY <2>2, <2>3
<1>3. ASSUME NEW p \in Sub, Killed(p) PROVE IInv'
  <2>1. cur \in DOMAIN Order  BY <1>3, IdleStep
  <2>2. CASE Helper  BY <1>3, <2>1, <2>2, HelperModeOthers
  <2>3. CASE ~Helper  BY <1>3, <2>1, <2>3, MainModeChild
  <2>. QED  BY <2>2, <2>3
<1>4. CASE NextTest  BY <1>4, IInvNextTest
<1>5. CASE UNCHANGED vars  BY <1>5, IInvStutter
<1>. QED  BY <1>2, <1>3, <1>4, <1>5 DEF Next, Stop

LEMMA IInvAlways == Spec => []IInv
BY IInvInit, IInvNext, PTL DEF Spec

\* A test is over: its books are in order.
LEMMA DoneFacts ==
  ASSUME IInv, TestDone
  PROVE  /\ fds["main"] = {} /\ objs \subseteq {"tmpdir"}
         /\ life["child"] \in {"none", "reaped"} \/ failed \cap WaitCalls # {}
         /\ ~HelperKilled => /\ bad["main"] = BadOf(lines)
                             /\ Len(lines) = IF Test = "pid" /\ lines[1] \in {"PASS", "STUB"}
                                             THEN 2 ELSE 1
<1>1. life["main"] = "alive" /\ code["main"] = <<>> /\ cur \in DOMAIN Order
  BY DEF TestDone
<1>2. CASE ~Helper
  <2>1. GoodIn(Order[cur], "main") /\ bad["main"] = BadOf(lines)
    BY <1>1, <1>2 DEF IInv, MainReports
  <2>2. PICK t : t = Order[cur]  OBVIOUS
  <2>3. Final(t, fds["main"], objs \ {"tmpdir"}, Kid(ChildOf["main"]), lines,
              failed \cap WaitCalls)
    BY <1>1, <2>1, <2>2, GoodEnds
  <2>4. Kid("child") \in {"none", "reaped"} => life["child"] \in {"none", "reaped"}
    BY DEF Kid
  <2>. QED  BY <2>1, <2>2, <2>3, <2>4, ProcFacts DEF Final, Test
<1>3. CASE Helper
  <2>1. HelperReports  BY <1>1, <1>3 DEF IInv
  <2>2. Over
    BY <1>1, <2>1
    DEF HelperReports, Unforked, NoFork, Running, Died, run_as_uid1, Say
  <2>3. Test = "user" /\ (~HelperKilled => "killchild" \notin failed)
    BY <1>3 DEF Helper, Test, HelperKilled
  <2>. QED  BY <2>1, <2>2, <2>3 DEF HelperReports, Over
<1>. QED  BY <1>2, <1>3

\* Every variable of the checker's processes has its type: exit statuses are
\* sets of flags, descriptors are pipe ends, counted results are FAIL or STUB,
\* and main() is in one of the tests of its list or past the last.
THEOREM TypeCorrect == Spec => []TypeOK
<1>1. IInv => TypeOK  BY DEF IInv
<1>. QED  BY <1>1, IInvAlways, PTL

\* "prints one PASS/FAIL/STUB line per feature" (lkm4ctr_checker.c:24), for every
\* list of tests, whichever system call of the test fails, whatever the kernel
\* answers and whichever child is killed, and main()'s summary counts are those
\* of the lines, also when the throwaway process of run_as_uid1() printed them.
THEOREM ReportedCorrect == Spec => []Reported
<1>1. IInv => Reported
  <2>. SUFFICES ASSUME IInv, TestDone, ~HelperKilled
                PROVE  /\ Len(lines) = IF Test = "pid" /\ lines[1] \in {"PASS", "STUB"}
                                       THEN 2 ELSE 1
                       /\ bad["main"] = ToSet(lines) \cap {"FAIL", "STUB"}
    BY DEF Reported, OneVerdict, CountsAccurate
  <2>. QED  BY DoneFacts DEF BadOf
<1>. QED  BY <1>1, IInvAlways, PTL

\* Every path of every shadow_checker_*() back to main() has closed the pipe ends
\* it opened, removed its System V objects, queues and descriptors, and waited for
\* its child unless the tested wait4() or waitid() is what failed.
THEOREM NothingLeftCorrect == Spec => []NothingLeft
<1>1. IInv => NothingLeft
  BY DoneFacts DEF NothingLeft, WaitCalls
<1>. QED  BY <1>1, IInvAlways, PTL
=============================================================================
