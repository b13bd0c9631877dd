-------------------------- MODULE DiskImageProofs ---------------------------
(***************************************************************************)
(* Theorems about DiskImage, for any projects, processes, keys, failures   *)
(* and killed commands; the one about what a VM runs on, where an umount   *)
(* does not fail and no clone is made over what was left behind; and the   *)
(* one about its host key, where a key is not cut off and gets into images *)
(* that have another one.                                                  *)
(*                                                                         *)
(* Each has an invariant of its own: Core for the types, and with it Clean *)
(* and Keyed for the images and the keys.  They speak of the steps that a  *)
(* command has left to do, so the first part is about those lists.         *)
(***************************************************************************)
EXTENDS DiskImage, TLAPS

Has(s, step) == \E i \in 1 .. Len(s) : s[i] = step

\* What the lists of steps have in common, clean-ups included.  No step is
\* there twice.  An image is made before anything is written into it, and a
\* deploy then writes its init first; whoever makes or edits an image goes on
\* to its key, unless it has one, and to the start, which is the last step.
Fits(op, s) ==
    \A i \in 1 .. Len(s) :
       /\ \A j \in 1 .. Len(s) : s[j] = s[i] => i = j
       /\ s[i] = "start" => i = Len(s)
       /\ s[i] \in Sessions \cup {"copy", "pull", "key"} => s[Len(s)] = "start"
       /\ s[i] \in {"undisk", "unrow"} => s[Len(s)] # "start"
       /\ s[i] \in {"copy", "pull", "init"} => \A j \in 1 .. i - 1 : s[j] \in {"register", "copy"}
       /\ s[i] \in {"copy", "pull"} => Has(s, "key")
       /\ s[i] = "copy" => op \in {"deploy", "clone"} /\ (op = "deploy" => Has(s, "init"))
       /\ s[i] = "pull" => op = "load"
       /\ s[i] = "init" => op = "deploy"
       /\ s[i] \in {"generate", "reuse"} => i = 1
       /\ s[i] = "generate" => Len(s) > 1 /\ s[2] = "store"
       /\ s[i] = "key" => ~Has(s, "generate") /\ ~Has(s, "reuse") /\ ~Has(s, "store")

\* t is s without its first step h.
Without(s, h, t) == \A x : Has(t, x) <=> Has(s, x) /\ x # h

LEMMA EmptyHasNothing == \A x : ~Has(<<>>, x)
BY DEF Has

LEMMA OpsAre == Ops = {"deploy", "clone", "load"}
BY DEF Ops, Plan

LEMMA TailOf ==
    ASSUME NEW s \in Seq(Steps), s # <<>>, NEW h, h = Head(s), NEW t, t = Tail(s)
    PROVE  /\ Len(s) \in Nat /\ Len(s) > 0
           /\ t \in Seq(Steps) /\ Len(t) = Len(s) - 1
           /\ \A i \in 1 .. Len(s) - 1 : t[i] = s[i + 1] /\ i + 1 \in 1 .. Len(s)
           /\ h = s[1] /\ h \in Steps
OBVIOUS

LEMMA TailIsWithout ==
    ASSUME NEW op, NEW s \in Seq(Steps), Fits(op, s), s # <<>>,
           NEW h, h = Head(s), NEW t, t = Tail(s)
    PROVE  Without(s, h, t) /\ Has(s, h)
<1> DEFINE l == Len(s)
<1>1. /\ l \in Nat /\ l > 0 /\ Len(t) = l - 1 /\ h = s[1]
      /\ \A i \in 1 .. l - 1 : t[i] = s[i + 1] /\ i + 1 \in 1 .. l
  BY TailOf
<1>2. \A i, j \in 1 .. l : s[j] = s[i] => i = j
  BY DEF Fits
<1>3. \A x : Has(s, x) <=> \E i \in 1 .. l : s[i] = x
  BY DEF Has
<1>4. \A x : Has(t, x) <=> \E i \in 1 .. l - 1 : t[i] = x
  BY <1>1 DEF Has
<1> HIDE DEF l
<1>5. 1 \in 1 .. l
  BY <1>1
<1>6. ASSUME NEW x, Has(t, x)
      PROVE  Has(s, x) /\ x # h
  <2>1. PICK i \in 1 .. l - 1 : t[i] = x
    BY <1>4, <1>6
  <2>2. i + 1 \in 1 .. l /\ s[i + 1] = x /\ i + 1 # 1
    BY <1>1, <2>1
  <2> QED
    BY <1>1, <1>2, <1>3, <1>5, <2>2
<1>7. ASSUME NEW x, Has(s, x), x # h
      PROVE  Has(t, x)
  <2>1. PICK i \in 1 .. l : s[i] = x
    BY <1>3, <1>7
  <2>2. i # 1 /\ i - 1 \in 1 .. l - 1 /\ (i - 1) + 1 = i
    BY <1>1, <1>7, <2>1
  <2> QED
    BY <1>1, <1>4, <2>1, <2>2
<1> QED
  BY <1>1, <1>3, <1>5, <1>6, <1>7 DEF Without

\* What the first step h of s says about the rest t.
Leads(op, s, h, t) ==
    /\ h = "start" => t = <<>>
    /\ h \in Sessions \cup {"copy", "pull", "key"} => Has(s, "start")
    /\ h \in {"undisk", "unrow"} => ~Has(s, "start") /\ ~Has(s, "copy")
    /\ h \notin {"register", "copy"} => \A x \in {"copy", "pull", "init"} : ~Has(t, x)
    /\ h \in {"copy", "pull"} => Has(s, "key")
    /\ h = "copy" => op \in {"deploy", "clone"} /\ (op = "deploy" => Has(s, "init"))
    /\ Has(s, "pull") => op = "load"
    /\ Has(s, "init") => op = "deploy"
    /\ \A x \in {"generate", "reuse"} : Has(s, x) => h = x
    /\ h = "generate" => t # <<>> /\ Head(t) = "store"
    /\ Has(s, "key") => ~Has(s, "generate") /\ ~Has(s, "reuse") /\ ~Has(s, "store")

LEMMA HeadFacts ==
    ASSUME NEW op, NEW s \in Seq(Steps), Fits(op, s), s # <<>>,
           NEW h, h = Head(s), NEW t, t = Tail(s)
    PROVE  Leads(op, s, h, t)
<1> DEFINE l == Len(s)
<1>1. /\ l \in Nat /\ l > 0 /\ h = s[1] /\ 1 \in 1 .. l /\ l \in 1 .. l
      /\ Len(t) = l - 1 /\ t \in Seq(Steps)
  BY TailOf
<1>2. \A x : Has(s, x) <=> \E i \in 1 .. l : s[i] = x
  BY DEF Has
<1>3. Without(s, h, t)
  BY TailIsWithout
<1>4. h = "start" => t = <<>>
  <2>1. h = "start" => 1 = l
    BY <1>1 DEF Fits
  <2>2. h = "start" => Len(t) = 0
    BY <1>1, <2>1
  <2> QED
    BY <1>1, <2>2
<1>5. h \in Sessions \cup {"copy", "pull", "key"} => Has(s, "start")
  <2>1. h \in Sessions \cup {"copy", "pull", "key"} => s[l] = "start"
    BY <1>1 DEF Fits
  <2> HIDE DEF l
  <2> QED
    BY <1>1, <1>2, <2>1
<1>6. h \in {"undisk", "unrow"} => ~Has(s, "start") /\ ~Has(s, "copy")
  BY <1>1, <1>2 DEF Fits
<1>7. ASSUME h \notin {"register", "copy"}, NEW x \in {"copy", "pull", "init"}
      PROVE  ~Has(t, x)
  <2>1. ASSUME Has(t, x) PROVE FALSE
    <3>1. Has(s, x) /\ x # h
      BY <1>3, <2>1 DEF Without
    <3>2. PICK i \in 1 .. l : s[i] = x
      BY <1>2, <3>1
    <3>3. i # 1 /\ 1 \in 1 .. i - 1
      BY <1>1, <3>1, <3>2
    <3> QED
      BY <1>1, <1>7, <3>2, <3>3 DEF Fits
  <2> QED
    BY <2>1
<1>8. h \in {"copy", "pull"} => Has(s, "key")
  BY <1>1 DEF Fits
<1>9. h = "copy" => op \in {"deploy", "clone"} /\ (op = "deploy" => Has(s, "init"))
  BY <1>1 DEF Fits
<1>10. (Has(s, "pull") => op = "load") /\ (Has(s, "init") => op = "deploy")
  BY <1>2 DEF Fits
<1>11. ASSUME NEW x \in {"generate", "reuse"}, Has(s, x) PROVE h = x
  <2>1. PICK i \in 1 .. l : s[i] = x
    BY <1>2, <1>11
  <2>2. i = 1
    BY <2>1 DEF Fits
  <2> QED
    BY <1>1, <2>1, <2>2
<1>12. h = "generate" => t # <<>> /\ Head(t) = "store"
  <2>1. h = "generate" => l > 1 /\ s[2] = "store"
    BY <1>1 DEF Fits
  <2>2. h = "generate" => Len(t) > 0 /\ t[1] = s[1 + 1]
    BY <1>1, <2>1, TailOf
  <2> QED
    BY <1>1, <2>1, <2>2
<1>13. Has(s, "key") => ~Has(s, "generate") /\ ~Has(s, "reuse") /\ ~Has(s, "store")
  BY <1>2 DEF Fits
<1> HIDE DEF l
<1> QED
  BY <1>4, <1>5, <1>6, <1>7, <1>8, <1>9, <1>10, <1>11, <1>12, <1>13 DEF Leads

\* Lists that no start, and nothing that is done to an image, comes after.
GivesUp(u) == u \in {<<>>, <<"undisk">>, <<"unrow">>, <<"undisk", "unrow">>, <<"unrow", "undisk">>}

LEMMA GivesUpHas ==
    ASSUME NEW op, NEW u, GivesUp(u)
    PROVE  /\ u \in Seq(Steps)
           /\ Fits(op, u)
           /\ \A x : Has(u, x) => x \in {"undisk", "unrow"}
<1>1. CASE u = <<>>
  BY <1>1 DEF Fits, Has
<1>2. ASSUME NEW x \in {"undisk", "unrow"}, u = <<x>> PROVE (u \in Seq(Steps)) /\ Fits(op, u) /\ \A y : Has(u, y) => y \in {"undisk", "unrow"}
  <2>1. Len(u) = 1 /\ u[1] = x /\ u \in Seq(Steps)
    BY <1>2 DEF Steps
  <2> HIDE <1>2
  <2>2. \A i \in 1 .. Len(u) : i = 1
    BY <2>1
  <2> QED
    BY <2>1, <2>2 DEF Fits, Has, Sessions
<1>3. ASSUME NEW x \in {"undisk", "unrow"}, NEW y \in {"undisk", "unrow"}, x # y, u = <<x, y>>
      PROVE  (u \in Seq(Steps)) /\ Fits(op, u) /\ \A z : Has(u, z) => z \in {"undisk", "unrow"}
  <2>1. Len(u) = 2 /\ u[1] = x /\ u[2] = y /\ u \in Seq(Steps)
    BY <1>3 DEF Steps
  <2>3. x \in {"undisk", "unrow"} /\ y \in {"undisk", "unrow"} /\ x # y
    BY <1>3
  <2> HIDE <1>3
  <2>2. \A i \in 1 .. Len(u) : i = 1 \/ i = 2
    BY <2>1
  <2> QED
    BY <2>1, <2>2, <2>3 DEF Fits, Has, Sessions
<1> QED
  BY <1>1, <1>2, <1>3 DEF GivesUp

LEMMA NameStartFits ==
    ASSUME NEW u, u = <<"name", "start">>
    PROVE  /\ u \in Seq(Steps)
           /\ Fits("deploy", u)
           /\ \A x : Has(u, x) <=> x \in {"name", "start"}
<1>1. Len(u) = 2 /\ u[1] = "name" /\ u[2] = "start" /\ u \in Seq(Steps)
  BY DEF Steps, Sessions
<1>2. \A i \in 1 .. Len(u) : i = 1 \/ i = 2
  BY <1>1
<1>3. 1 \in 1 .. Len(u) /\ 2 \in 1 .. Len(u)
  BY <1>1
<1> QED
  BY <1>1, <1>2, <1>3 DEF Fits, Has, Sessions

LEMMA TailFits ==
    ASSUME NEW op, NEW s \in Seq(Steps), Fits(op, s), s # <<>>, NEW t, t = Tail(s)
    PROVE  t \in Seq(Steps) /\ Fits(op, t)
<1> DEFINE l == Len(s)
           h == Head(s)
<1>1. /\ l \in Nat /\ l > 0 /\ Len(t) = l - 1 /\ h = s[1]
      /\ \A i \in 1 .. l - 1 : t[i] = s[i + 1] /\ i + 1 \in 1 .. l
      /\ t \in Seq(Steps)
  BY TailOf
<1>2. Without(s, h, t)
  BY TailIsWithout
<1> HIDE DEF h
<1>3. ASSUME NEW i \in 1 .. l - 1
      PROVE  /\ \A j \in 1 .. l - 1 : t[j] = t[i] => i = j
             /\ t[i] = "start" => i = l - 1
             /\ t[i] \in Sessions \cup {"copy", "pull", "key"} => t[l - 1] = "start"
             /\ t[i] \in {"undisk", "unrow"} => t[l - 1] # "start"
             /\ t[i] \in {"copy", "pull", "init"} => \A j \in 1 .. i - 1 : t[j] \in {"register", "copy"}
             /\ t[i] \in {"copy", "pull"} => Has(t, "key")
             /\ t[i] = "copy" => op \in {"deploy", "clone"} /\ (op = "deploy" => Has(t, "init"))
             /\ t[i] = "pull" => op = "load"
             /\ t[i] = "init" => op = "deploy"
             /\ t[i] \notin {"generate", "reuse"}
             /\ t[i] = "key" => ~Has(t, "generate") /\ ~Has(t, "reuse") /\ ~Has(t, "store")
  <2> DEFINE k == i + 1
  <2>1. k \in 1 .. l /\ t[i] = s[k] /\ k # 1 /\ 1 \in 1 .. k - 1 /\ l - 1 \in 1 .. l - 1 /\ t[l - 1] = s[l]
    BY <1>1
  <2>2. \A j \in 1 .. l - 1 : t[j] = t[i] => i = j
    <3> TAKE j \in 1 .. l - 1
    <3>1. t[j] = s[j + 1] /\ j + 1 \in 1 .. l
      BY <1>1
    <3>2. s[j + 1] = s[k] => k = j + 1
      BY <2>1, <3>1 DEF Fits
    <3> QED
      BY <2>1, <3>1, <3>2
  <2>3. t[i] = "start" => i = l - 1
    <3>1. s[k] = "start" => k = l
      BY <2>1 DEF Fits
    <3>2. k = l => i = l - 1
      <4> l \in Nat
        BY <1>1
      <4> HIDE DEF l
      <4> QED
        OBVIOUS
    <3>3. t[i] = s[k]
      BY <2>1
    <3> HIDE DEF l, k
    <3> QED
      BY <3>1, <3>2, <3>3
  <2>4. /\ s[k] \in Sessions \cup {"copy", "pull", "key"} => s[l] = "start"
        /\ s[k] \in {"undisk", "unrow"} => s[l] # "start"
        /\ s[k] = "pull" => op = "load"
        /\ s[k] = "init" => op = "deploy"
        /\ s[k] \notin {"generate", "reuse"}
        /\ s[k] = "key" => ~Has(s, "generate") /\ ~Has(s, "reuse") /\ ~Has(s, "store")
    BY <2>1 DEF Fits
  <2>5. s[k] \in {"copy", "pull", "init"} => \A j \in 1 .. k - 1 : s[j] \in {"register", "copy"}
    BY <2>1 DEF Fits
  <2>6. t[i] \in {"copy", "pull", "init"} => \A j \in 1 .. i - 1 : t[j] \in {"register", "copy"}
    <3> SUFFICES ASSUME t[i] \in {"copy", "pull", "init"}, NEW j \in 1 .. i - 1
                 PROVE  t[j] \in {"register", "copy"}
      OBVIOUS
    <3>1. j \in 1 .. l - 1 /\ j + 1 \in 1 .. k - 1 /\ t[j] = s[j + 1]
      BY <1>1
    <3> QED
      BY <2>1, <2>5, <3>1
  <2>7. s[k] \in {"copy", "pull", "init"} => h \in {"register", "copy"}
    BY <1>1, <2>1, <2>5
  <2>8. /\ s[k] \in {"copy", "pull"} => Has(s, "key")
        /\ s[k] = "copy" => op \in {"deploy", "clone"} /\ (op = "deploy" => Has(s, "init"))
    BY <2>1 DEF Fits
  <2>9. /\ s[k] \in {"copy", "pull"} => Has(t, "key")
        /\ s[k] = "copy" => op \in {"deploy", "clone"} /\ (op = "deploy" => Has(t, "init"))
    BY <1>2, <2>7, <2>8 DEF Without
  <2>10. s[k] = "key" => ~Has(t, "generate") /\ ~Has(t, "reuse") /\ ~Has(t, "store")
    BY <1>2, <2>4 DEF Without
  <2> HIDE DEF l, k
  <2> QED
    BY <2>1, <2>2, <2>3, <2>4, <2>6, <2>9, <2>10
<1> DEFINE m == l - 1
<1>4. Len(t) = m
  BY <1>1
<1> HIDE DEF l
<1> QED
  BY <1>1, <1>3, <1>4 DEF Fits

\* The lists that commands begin with.
LEMMA PlanFits ==
    ASSUME NEW op \in Ops, NEW u, u = Plan[op]
    PROVE  /\ u \in Seq(Steps) /\ u # <<>>
           /\ Fits(op, u)
           /\ ~Has(u, "generate") /\ ~Has(u, "reuse")
           /\ Has(u, "copy") \/ Has(u, "pull")
<1>1. CASE op = "deploy"
  <2>1. u = <<"register", "copy", "init", "ssh", "key", "auth", "name", "start">>
    BY <1>1 DEF Plan
  <2>2. /\ Len(u) = 8 /\ u # <<>>
        /\ u[1] = "register" /\ u[2] = "copy" /\ u[3] = "init" /\ u[4] = "ssh"
        /\ u[5] = "key" /\ u[6] = "auth" /\ u[7] = "name" /\ u[8] = "start"
    BY <2>1
  <2>3. u \in Seq(Steps)
    BY <2>1 DEF Steps, Sessions
  <2> HIDE <2>1
  <2> DEFINE D == {1, 2, 3, 4, 5, 6, 7, 8}
  <2>4. 1 .. Len(u) = D
    BY <2>2
  <2>5. Has(u, "key") /\ Has(u, "init") /\ Has(u, "copy")
    BY <2>2, <2>4 DEF Has
  <2>6. \A x \in {"generate", "reuse", "store"} : ~Has(u, x)
    BY <2>2, <2>4 DEF Has
  <2>7. ASSUME NEW i \in D PROVE \A j \in D : u[j] = u[i] => i = j
    <3>1. CASE i = 1
      BY <2>2, <3>1
    <3>2. CASE i = 2
      BY <2>2, <3>2
    <3>3. CASE i = 3
      BY <2>2, <3>3
    <3>4. CASE i = 4
      BY <2>2, <3>4
    <3>5. CASE i = 5
      BY <2>2, <3>5
    <3>6. CASE i = 6
      BY <2>2, <3>6
    <3>7. CASE i = 7
      BY <2>2, <3>7
    <3>8. CASE i = 8
      BY <2>2, <3>8
    <3> QED
      BY <3>1, <3>2, <3>3, <3>4, <3>5, <3>6, <3>7, <3>8
  <2>8. \A i \in D : u[i] \in {"copy", "pull", "init"} => i = 2 \/ i = 3
    BY <2>2
  <2>9. \A i \in D : u[i] \in {"copy", "pull", "init"} => \A j \in 1 .. i - 1 : u[j] \in {"register", "copy"}
    BY <2>2, <2>8
  <2>13. \A i \in D : u[i] \notin {"undisk", "unrow", "generate", "reuse"}
    BY <2>2
  <2>14. \A i \in D : u[i] = "start" => i = Len(u)
    BY <2>2
  <2>15. /\ \A i \in D : u[i] = "copy" => op \in {"deploy", "clone"}
         /\ \A i \in D : u[i] = "pull" => op = "load"
         /\ \A i \in D : u[i] = "init" => op = "deploy"
    BY <1>1, <2>2
  <2>10. \A i \in D :
           /\ u[i] = "start" => i = Len(u)
           /\ u[i] \notin {"undisk", "unrow", "generate", "reuse"}
           /\ u[i] = "copy" => op \in {"deploy", "clone"}
           /\ u[i] = "pull" => op = "load"
           /\ u[i] = "init" => op = "deploy"
    BY <2>13, <2>14, <2>15
  <2>11. u[Len(u)] = "start"
    BY <2>2
  <2> HIDE DEF D
  <2>12. Fits(op, u)
    <3> SUFFICES ASSUME NEW i \in D
                 PROVE  /\ \A j \in D : u[j] = u[i] => i = j
                        /\ u[i] = "start" => i = Len(u)
                        /\ u[i] \notin {"undisk", "unrow", "generate", "reuse"}
                        /\ u[i] \in {"copy", "pull", "init"} => \A j \in 1 .. i - 1 : u[j] \in {"register", "copy"}
                        /\ u[i] = "copy" => op \in {"deploy", "clone"}
                        /\ u[i] = "pull" => op = "load"
                        /\ u[i] = "init" => op = "deploy"
      BY <1>1, <2>4, <2>5, <2>6, <2>11 DEF Fits
    <3> QED
      BY <2>7, <2>9, <2>10
  <2> QED
    BY <2>2, <2>3, <2>5, <2>6, <2>12
<1>2. CASE op = "clone"
  <2>1. u = <<"copy", "register", "name", "key", "auth", "ssh", "start">>
    BY <1>2 DEF Plan
  <2>2. /\ Len(u) = 7 /\ u # <<>>
        /\ u[1] = "copy" /\ u[2] = "register" /\ u[3] = "name" /\ u[4] = "key"
        /\ u[5] = "auth" /\ u[6] = "ssh" /\ u[7] = "start"
    BY <2>1
  <2>3. u \in Seq(Steps)
    BY <2>1 DEF Steps, Sessions
  <2> HIDE <2>1
  <2> DEFINE D == {1, 2, 3, 4, 5, 6, 7}
  <2>4. 1 .. Len(u) = D
    BY <2>2
  <2>5. Has(u, "key") /\ Has(u, "copy")
    BY <2>2, <2>4 DEF Has
  <2>6. \A x \in {"generate", "reuse", "store"} : ~Has(u, x)
    BY <2>2, <2>4 DEF Has
  <2>7. ASSUME NEW i \in D PROVE \A j \in D : u[j] = u[i] => i = j
    <3>1. CASE i = 1
      BY <2>2, <3>1
    <3>2. CASE i = 2
      BY <2>2, <3>2
    <3>3. CASE i = 3
      BY <2>2, <3>3
    <3>4. CASE i = 4
      BY <2>2, <3>4
    <3>5. CASE i = 5
      BY <2>2, <3>5
    <3>6. CASE i = 6
      BY <2>2, <3>6
    <3>7. CASE i = 7
      BY <2>2, <3>7
    <3> QED
      BY <3>1, <3>2, <3>3, <3>4, <3>5, <3>6, <3>7
  <2>8. \A i \in D : u[i] \in {"copy", "pull", "init"} => i = 1
    BY <2>2
  <2>9. \A i \in D : u[i] \in {"copy", "pull", "init"} => \A j \in 1 .. i - 1 : u[j] \in {"register", "copy"}
    BY <2>2, <2>8
  <2>13. \A i \in D : u[i] \notin {"undisk", "unrow", "generate", "reuse"}
    BY <2>2
  <2>14. \A i \in D : u[i] = "start" => i = Len(u)
    BY <2>2
  <2>15. /\ \A i \in D : u[i] = "copy" => op \in {"deploy", "clone"}
         /\ \A i \in D : u[i] = "pull" => op = "load"
         /\ \A i \in D : u[i] = "init" => op = "deploy"
    BY <1>2, <2>2
  <2>10. \A i \in D :
           /\ u[i] = "start" => i = Len(u)
           /\ u[i] \notin {"undisk", "unrow", "generate", "reuse"}
           /\ u[i] = "copy" => op \in {"deploy", "clone"}
           /\ u[i] = "pull" => op = "load"
           /\ u[i] = "init" => op = "deploy"
    BY <2>13, <2>14, <2>15
  <2>11. u[Len(u)] = "start"
    BY <2>2
  <2> HIDE DEF D
  <2>12. Fits(op, u)
    <3> SUFFICES ASSUME NEW i \in D
                 PROVE  /\ \A j \in D : u[j] = u[i] => i = j
                        /\ u[i] = "start" => i = Len(u)
                        /\ u[i] \notin {"undisk", "unrow", "generate", "reuse"}
                        /\ u[i] \in {"copy", "pull", "init"} => \A j \in 1 .. i - 1 : u[j] \in {"register", "copy"}
                        /\ u[i] = "copy" => op \in {"deploy", "clone"}
                        /\ u[i] = "pull" => op = "load"
                        /\ u[i] = "init" => op = "deploy"
      BY <1>2, <2>4, <2>5, <2>6, <2>11 DEF Fits
    <3> QED
      BY <2>7, <2>9, <2>10
  <2> QED
    BY <2>2, <2>3, <2>5, <2>6, <2>12
<1>3. CASE op = "load"
  <2>1. u = <<"pull", "register", "ssh", "key", "auth", "name", "start">>
    BY <1>3 DEF Plan
  <2>2. /\ Len(u) = 7 /\ u # <<>>
        /\ u[1] = "pull" /\ u[2] = "register" /\ u[3] = "ssh" /\ u[4] = "key"
        /\ u[5] = "auth" /\ u[6] = "name" /\ u[7] = "start"
    BY <2>1
  <2>3. u \in Seq(Steps)
    BY <2>1 DEF Steps, Sessions
  <2> HIDE <2>1
  <2> DEFINE D == {1, 2, 3, 4, 5, 6, 7}
  <2>4. 1 .. Len(u) = D
    BY <2>2
  <2>5. Has(u, "key") /\ Has(u, "pull")
    BY <2>2, <2>4 DEF Has
  <2>6. \A x \in {"generate", "reuse", "store"} : ~Has(u, x)
    BY <2>2, <2>4 DEF Has
  <2>7. ASSUME NEW i \in D PROVE \A j \in D : u[j] = u[i] => i = j
    <3>1. CASE i = 1
      BY <2>2, <3>1
    <3>2. CASE i = 2
      BY <2>2, <3>2
    <3>3. CASE i = 3
      BY <2>2, <3>3
    <3>4. CASE i = 4
      BY <2>2, <3>4
    <3>5. CASE i = 5
      BY <2>2, <3>5
    <3>6. CASE i = 6
      BY <2>2, <3>6
    <3>7. CASE i = 7
      BY <2>2, <3>7
    <3> QED
      BY <3>1, <3>2, <3>3, <3>4, <3>5, <3>6, <3>7
  <2>8. \A i \in D : u[i] \in {"copy", "pull", "init"} => i = 1
    BY <2>2
  <2>9. \A i \in D : u[i] \in {"copy", "pull", "init"} => \A j \in 1 .. i - 1 : u[j] \in {"register", "copy"}
    BY <2>2, <2>8
  <2>13. \A i \in D : u[i] \notin {"undisk", "unrow", "generate", "reuse"}
    BY <2>2
  <2>14. \A i \in D : u[i] = "start" => i = Len(u)
    BY <2>2
  <2>15. /\ \A i \in D : u[i] = "copy" => op \in {"deploy", "clone"}
         /\ \A i \in D : u[i] = "pull" => op = "load"
         /\ \A i \in D : u[i] = "init" => op = "deploy"
    BY <1>3, <2>2
  <2>10. \A i \in D :
           /\ u[i] = "start" => i = Len(u)
           /\ u[i] \notin {"undisk", "unrow", "generate", "reuse"}
           /\ u[i] = "copy" => op \in {"deploy", "clone"}
           /\ u[i] = "pull" => op = "load"
           /\ u[i] = "init" => op = "deploy"
    BY <2>13, <2>14, <2>15
  <2>11. u[Len(u)] = "start"
    BY <2>2
  <2> HIDE DEF D
  <2>12. Fits(op, u)
    <3> SUFFICES ASSUME NEW i \in D
                 PROVE  /\ \A j \in D : u[j] = u[i] => i = j
                        /\ u[i] = "start" => i = Len(u)
                        /\ u[i] \notin {"undisk", "unrow", "generate", "reuse"}
                        /\ u[i] \in {"copy", "pull", "init"} => \A j \in 1 .. i - 1 : u[j] \in {"register", "copy"}
                        /\ u[i] = "copy" => op \in {"deploy", "clone"}
                        /\ u[i] = "pull" => op = "load"
                        /\ u[i] = "init" => op = "deploy"
      BY <1>3, <2>4, <2>5, <2>6, <2>11 DEF Fits
    <3> QED
      BY <2>7, <2>9, <2>10
  <2> QED
    BY <2>2, <2>3, <2>5, <2>6, <2>12
<1> QED
  BY <1>1, <1>2, <1>3, OpsAre

\* s with its "key" replaced.
KeyChosen(n, s, u) ==
    \A x : Has(u, x) <=> \/ Has(s, x) /\ x # "key"
                         \/ saved[n] = NoKey /\ x \in {"generate", "store"}
                         \/ saved[n] # NoKey /\ x = "reuse"

LEMMA KeyPlanFits ==
    ASSUME NEW op, NEW s \in Seq(Steps), Fits(op, s), s # <<>>,
           NEW h, h = Head(s), h = "key", NEW t, t = Tail(s),
           NEW n, NEW u, u = KeyPlan(n) \o t
    PROVE  /\ u \in Seq(Steps) /\ u # <<>>
           /\ Fits(op, u)
           /\ KeyChosen(n, s, u)
<1> DEFINE k == KeyPlan(n)
           d == Len(k)
           m == Len(t)
<1>1. t \in Seq(Steps) /\ Fits(op, t)
  BY TailFits
<1>22. m \in Nat
  BY <1>1
<1>2. Without(s, "key", t)
  BY TailIsWithout
<1>23. Has(s, "key") /\ Leads(op, s, h, t)
  BY TailIsWithout, HeadFacts
<1>3. /\ Has(s, "start") /\ ~Has(s, "generate") /\ ~Has(s, "reuse") /\ ~Has(s, "store")
      /\ \A x \in {"copy", "pull", "init"} : ~Has(t, x)
  BY <1>23 DEF Leads
<1>4. /\ Has(t, "start")
      /\ \A x \in {"key", "generate", "reuse", "store", "copy", "pull", "init"} : ~Has(t, x)
  BY <1>2, <1>3 DEF Without
<1>5. m > 0 /\ t[m] = "start"
  <2>1. PICK i \in 1 .. m : t[i] = "start"
    BY <1>4 DEF Has
  <2>2. i = m
    BY <1>1, <1>22, <2>1 DEF Fits
  <2> QED
    BY <1>1, <1>22, <2>1, <2>2
<1>6. \/ saved[n] = NoKey /\ k = <<"generate", "store">> /\ d = 2 /\ k[1] = "generate" /\ k[2] = "store"
      \/ saved[n] # NoKey /\ k = <<"reuse">> /\ d = 1 /\ k[1] = "reuse"
  BY DEF KeyPlan
<1>7. k \in Seq(Steps)
  <2>1. "generate" \in Steps /\ "store" \in Steps /\ "reuse" \in Steps
    BY DEF Steps, Sessions
  <2>2. <<"generate", "store">> \in Seq(Steps) /\ <<"reuse">> \in Seq(Steps)
    BY <2>1
  <2> QED
    BY <1>6, <2>2
<1>8. /\ u \in Seq(Steps) /\ Len(u) = d + m
      /\ \A i \in 1 .. d : u[i] = k[i]
      /\ \A i \in 1 .. m : u[d + i] = t[i]
  BY <1>1, <1>22, <1>6, <1>7
<1> DEFINE f == Len(u)
<1>26. d \in Nat /\ d > 0
  <2>1. d = 1 \/ d = 2
    BY <1>6
  <2> HIDE DEF d
  <2> QED
    BY <2>1
<1>9. /\ f \in Nat /\ f > 0 /\ u # <<>> /\ u[f] = "start" /\ f > d /\ f \in 1 .. f
  <2>1. f = d + m
    BY <1>8
  <2>2. u[d + m] = "start" /\ u \in Seq(Steps)
    BY <1>5, <1>8, <1>22
  <2> HIDE DEF d, m, k
  <2>3. f \in Nat /\ f > 0 /\ f > d /\ f \in 1 .. f /\ u[f] = "start"
    BY ONLY <1>5, <1>22, <1>26, <2>1, <2>2
  <2>4. u # <<>>
    BY <2>3
  <2> QED
    BY <2>3, <2>4
<1>24. f = d + m
  BY <1>8
<1>25. \/ d = 2 /\ u[1] = "generate" /\ u[2] = "store"
       \/ d = 1 /\ u[1] = "reuse"
  <2>1. d = 1 \/ d = 2
    BY <1>6
  <2> HIDE DEF d
  <2>2. 1 \in 1 .. d /\ (d = 2 => 2 \in 1 .. d)
    BY ONLY <2>1
  <2> HIDE DEF k
  <2> QED
    BY <1>6, <1>8, <2>1, <2>2
<1> HIDE DEF k, d, f, m
<1>10. ASSUME NEW i \in 1 .. f, i > d
       PROVE  i - d \in 1 .. m /\ u[i] = t[i - d]
  <2>1. i - d \in 1 .. m /\ d + (i - d) = i
    BY <1>22, <1>24, <1>6, <1>10
  <2> QED
    BY <1>8, <2>1
<1>11. \A i \in 1 .. m : t[i] \notin {"key", "generate", "reuse", "store", "copy", "pull", "init"}
  BY <1>4 DEF Has, m
<1>12. ASSUME NEW x
       PROVE  Has(u, x) <=> Has(t, x) \/ \E i \in 1 .. d : k[i] = x
  <2>1. ASSUME Has(u, x) PROVE Has(t, x) \/ \E i \in 1 .. d : k[i] = x
    <3>1. PICK i \in 1 .. f : u[i] = x
      BY <2>1 DEF Has, f
    <3>2. CASE i > d
      BY <1>10, <3>1, <3>2 DEF Has, f, m
    <3>3. CASE ~(i > d)
      <4>1. i \in 1 .. d
        BY <1>6, <3>3
      <4> QED
        BY <1>8, <3>1, <4>1
    <3> QED
      BY <3>2, <3>3
  <2>2. ASSUME Has(t, x) PROVE Has(u, x)
    <3>1. PICK i \in 1 .. m : t[i] = x
      BY <2>2 DEF Has, m
    <3>3. d + i \in 1 .. f
      BY <1>22, <1>24, <1>25
    <3>2. d + i \in 1 .. f /\ u[d + i] = x
      BY <1>8, <3>1, <3>3
    <3> QED
      BY <3>2 DEF Has, f, m
  <2>3. ASSUME NEW i \in 1 .. d, k[i] = x PROVE Has(u, x)
    <3>1. i \in 1 .. f
      BY <1>22, <1>24, <1>26
    <3>2. u[i] = x
      BY <1>8, <2>3
    <3> QED
      BY <3>1, <3>2 DEF Has, f
  <2> QED
    BY <2>1, <2>2, <2>3
<1>13. ASSUME NEW x
       PROVE  (\E i \in 1 .. d : k[i] = x)
                 <=> (saved[n] = NoKey /\ x \in {"generate", "store"}) \/ (saved[n] # NoKey /\ x = "reuse")
  <2>1. CASE saved[n] = NoKey
    <3>1. d = 2 /\ k[1] = "generate" /\ k[2] = "store" /\ 1 \in 1 .. d /\ 2 \in 1 .. d
      BY <1>6, <2>1
    <3>2. \A i \in 1 .. d : i = 1 \/ i = 2
      BY <3>1
    <3> QED
      BY <2>1, <3>1, <3>2
  <2>2. CASE saved[n] # NoKey
    <3>1. d = 1 /\ k[1] = "reuse" /\ 1 \in 1 .. d
      BY <1>6, <2>2
    <3>2. \A i \in 1 .. d : i = 1
      BY <3>1
    <3> QED
      BY <2>2, <3>1, <3>2
  <2> QED
    BY <2>1, <2>2
<1>14. \A x : Has(u, x) <=> \/ Has(s, x) /\ x # "key"
                            \/ saved[n] = NoKey /\ x \in {"generate", "store"}
                            \/ saved[n] # NoKey /\ x = "reuse"
  BY <1>2, <1>12, <1>13 DEF Without
<1>15. \A i \in 1 .. f : i > d \/ (i = 1 /\ i <= d) \/ (i = 2 /\ i <= d)
  BY <1>6, <1>9
<1>16. ASSUME NEW i \in 1 .. f, NEW j \in 1 .. f, u[i] = u[j]
       PROVE  i = j
  <2>1. CASE i > d /\ j > d
    <3>0. i - d \in 1 .. m /\ j - d \in 1 .. m /\ t[i - d] = t[j - d]
      BY <1>10, <1>16, <2>1
    <3>1. i - d = j - d
      BY <1>1, <3>0 DEF Fits, m
    <3> QED
      BY <1>6, <3>1
  <2>2. CASE i > d /\ ~(j > d)
    <3>1. u[i] \notin {"generate", "reuse", "store"}
      BY <1>10, <1>11, <2>2
    <3>3. (j = 1 /\ j <= d) \/ (j = 2 /\ j <= d)
      BY ONLY <1>15, <2>2, j \in 1 .. f
    <3>2. u[j] \in {"generate", "reuse", "store"}
      BY ONLY <1>25, <3>3
    <3> QED
      BY <1>16, <3>1, <3>2
  <2>3. CASE ~(i > d) /\ j > d
    <3>1. u[j] \notin {"generate", "reuse", "store"}
      BY <1>10, <1>11, <2>3
    <3>3. (i = 1 /\ i <= d) \/ (i = 2 /\ i <= d)
      BY ONLY <1>15, <2>3, i \in 1 .. f
    <3>2. u[i] \in {"generate", "reuse", "store"}
      BY ONLY <1>25, <3>3
    <3> QED
      BY <1>16, <3>1, <3>2
  <2>4. CASE ~(i > d) /\ ~(j > d)
    <3>1. i \in 1 .. d /\ j \in 1 .. d
      BY <1>6, <2>4
    <3>2. k[i] = k[j]
      BY <1>8, <1>16, <3>1
    <3> QED
      BY <1>6, <1>15, <3>1, <3>2
  <2> QED
    BY <2>1, <2>2, <2>3, <2>4
<1>17. ASSUME NEW i \in 1 .. f, i > d
       PROVE  /\ u[i] = "start" => i = f
              /\ u[i] \notin {"copy", "pull", "init", "key", "generate", "reuse", "undisk", "unrow"}
  <2>1. i - d \in 1 .. m /\ u[i] = t[i - d]
    BY <1>10, <1>17
  <2>2. /\ t[i - d] = "start" => i - d = m
        /\ t[i - d] \notin {"undisk", "unrow"}
    BY <1>1, <1>22, <1>5, <2>1 DEF Fits, m
  <2>3. i - d = m => i = f
    BY <1>22, <1>24, <1>6
  <2> QED
    BY <1>11, <2>1, <2>2, <2>3
<1>18. ASSUME NEW i \in 1 .. f, ~(i > d)
       PROVE  /\ u[i] \in {"generate", "reuse", "store"}
              /\ u[i] \in {"generate", "reuse"} => i = 1
              /\ u[i] = "generate" => u[2] = "store"
  <2>1. (i = 1 /\ i <= d) \/ (i = 2 /\ i <= d)
    BY ONLY <1>15, <1>18, i \in 1 .. f
  <2> QED
    BY ONLY <1>25, <2>1
<1>19. f > 1
  BY <1>6, <1>9
<1>20. ~Has(u, "key")
  BY <1>4, <1>14
<1>21. Fits(op, u)
  <2>1. Len(u) = f
    BY DEF f
  <2> SUFFICES ASSUME NEW i \in 1 .. f
        PROVE /\ \A j \in 1 .. f : u[j] = u[i] => i = j
              /\ u[i] = "start" => i = f
              /\ u[i] \in {"undisk", "unrow"} => u[f] # "start"
              /\ u[i] \notin {"copy", "pull", "init", "key"}
              /\ u[i] \in {"generate", "reuse"} => i = 1
              /\ u[i] = "generate" => u[2] = "store"
    BY <1>9, <1>19, <1>20, <2>1 DEF Fits
  <2>2. CASE i > d
    BY <1>16, <1>17, <2>2
  <2>3. CASE ~(i > d)
    BY <1>16, <1>18, <2>3
  <2> QED
    BY <2>2, <2>3
<1> QED
  BY <1>8, <1>9, <1>14, <1>21 DEF KeyChosen

\* What is left of s after its first step h failed: nothing that matters here,
\* or, in a session, the rest t, without what h was for.
Remains(op, h, t, u) ==
    \/ GivesUp(u)
    \/ /\ h \in Sessions \ {"init"}
       /\ \/ h # "generate" /\ u = t
          \/ op = "deploy" /\ h = "ssh" /\ u = <<"name", "start">>
          \/ h = "generate" /\ t # <<>> /\ u = Tail(t)

LEMMA FailureRemains ==
    ASSUME NEW op \in Ops, NEW s \in Seq(Steps), Fits(op, s), s # <<>>,
           NEW h, h = Head(s), NEW t, t = Tail(s),
           NEW u, u = AfterFailure(op, h, t)
    PROVE  Remains(op, h, t, u) /\ u \in Seq(Steps) /\ Fits(op, u)
<1>1. op \in {"deploy", "clone", "load"}
  BY OpsAre
<1>2. Leads(op, s, h, t) /\ Has(s, h) /\ h \in Steps /\ t \in Seq(Steps) /\ Fits(op, t)
  BY HeadFacts, TailIsWithout, TailFits, TailOf
<1>3. h = "init" => op = "deploy"
  BY <1>2 DEF Leads
<1>4. h = "generate" => t # <<>>
  BY <1>2 DEF Leads
<1>5. t # <<>> => Tail(t) \in Seq(Steps) /\ Fits(op, Tail(t))
  BY <1>2, TailFits
<1>6. CASE op = "deploy" /\ h = "ssh"
  <2>1. u = <<"name", "start">>
    BY <1>6 DEF AfterFailure
  <2>2. u \in Seq(Steps) /\ Fits("deploy", u)
    BY <2>1, NameStartFits
  <2>3. h \in Sessions \ {"init"}
    BY <1>6 DEF Sessions
  <2> QED
    BY <1>6, <2>1, <2>2, <2>3 DEF Remains
<1>7. CASE h = "generate"
  <2>1. u = Tail(t)
    BY <1>7 DEF AfterFailure
  <2>2. h \in Sessions \ {"init"}
    BY <1>7 DEF Sessions
  <2> QED
    BY <1>4, <1>5, <1>7, <2>1, <2>2 DEF Remains
<1>8. CASE h \in Sessions \ {"init", "generate"} /\ ~(op = "deploy" /\ h = "ssh")
  <2>1. u = t
    BY <1>8 DEF AfterFailure, Sessions
  <2> QED
    BY <1>2, <1>8, <2>1 DEF Remains
<1>9. CASE h \notin Sessions \ {"init"}
  <2>0. h \notin {"ssh", "auth", "name", "reuse", "generate", "store"}
    BY <1>9 DEF Sessions
  <2>1. GivesUp(u)
    <3>1. CASE op = "deploy"
      BY <2>0, <3>1 DEF AfterFailure, GivesUp, Sessions
    <3>2. CASE op # "deploy"
      BY <1>3, <2>0, <3>2 DEF AfterFailure, GivesUp, Sessions
    <3> QED
      BY <3>1, <3>2
  <2> QED
    BY <2>1, GivesUpHas DEF Remains
<1> QED
  BY <1>6, <1>7, <1>8, <1>9 DEF Sessions

-----------------------------------------------------------------------------
(***************************************************************************)
(* What a process is doing, and what it goes on with.                      *)
(***************************************************************************)
Places == {"out", "in", "done", "failed"}

Shaped(op, n, src, s, at) ==
    /\ op \in Ops
    /\ n \in Names
    /\ src \in Names \cup {NoName}
    /\ op = "clone" => src \in Names \ {n}
    /\ s \in Seq(Steps)
    /\ s # <<>>
    /\ Fits(op, s)
    /\ at \in Places
    /\ at # "out" => Head(s) \in Sessions

AllShaped ==
    \A p \in Procs :
       LET c == cmd[p] IN
       /\ c.todo = <<>> => c = Idle
       /\ c.todo # <<>> => c \in Command /\ Shaped(c.op, c.name, c.src, c.todo, c.image)

\* Commands have their names, and the source of a clone, for themselves.
Apart ==
    \A p, q \in Procs :
       cmd[p].todo # <<>> /\ cmd[q].todo # <<>> /\ p # q
          => cmd[q].name \notin {cmd[p].name, cmd[p].src}

Doing(p, op, n, src, s, at) ==
    /\ cmd[p].op = op
    /\ cmd[p].name = n
    /\ cmd[p].src = src
    /\ cmd[p].todo = s
    /\ cmd[p].image = at
    /\ Shaped(op, n, src, s, at)

\* The process has u to do now, and is at an image if and how "at" says.
GoesOn(p, op, n, src, u, at) ==
    /\ cmd' = [cmd EXCEPT ![p] = IF u = <<>> THEN Idle
                                 ELSE [op |-> op, name |-> n, src |-> src, todo |-> u, image |-> at]]
    /\ u # <<>> => Shaped(op, n, src, u, at)

Commanding == cmd \in [Procs -> Command \cup {Idle}] /\ AllShaped /\ Apart

LEMMA SomethingIsDone ==
    ASSUME Commanding, NEW p \in Procs, cmd[p].todo # <<>>
    PROVE  \E op, n, src, s, at : Doing(p, op, n, src, s, at)
BY DEF Commanding, AllShaped, Doing

LEMMA CommandChanged ==
    ASSUME NEW c \in Command, NEW u, NEW at
    PROVE  [c EXCEPT !.todo = u, !.image = at]
              = [op |-> c.op, name |-> c.name, src |-> c.src, todo |-> u, image |-> at]
<1>1. PICK d : d = [c EXCEPT !.todo = u]
  OBVIOUS
<1>2. d = [op |-> c.op, name |-> c.name, src |-> c.src, todo |-> u, image |-> c.image]
  BY <1>1 DEF Command
<1>3. [d EXCEPT !.image = at] = [op |-> c.op, name |-> c.name, src |-> c.src, todo |-> u, image |-> at]
  BY <1>2
<1> QED
  BY <1>1, <1>3

LEMMA DoGoesOn ==
    ASSUME Commanding, NEW p \in Procs, NEW op, NEW n, NEW src, NEW s, NEW at,
           Doing(p, op, n, src, s, at),
           NEW u \in Seq(Steps), Fits(op, u), Do(p, u)
    PROVE  GoesOn(p, op, n, src, u, "out")
<1>1. cmd[p] \in Command
  BY DEF Commanding, AllShaped, Doing, Shaped
<1>3. [cmd[p] EXCEPT !.todo = u, !.image = "out"]
         = [op |-> op, name |-> n, src |-> src, todo |-> u, image |-> "out"]
  BY <1>1, CommandChanged DEF Doing
<1>4. u # <<>> => Shaped(op, n, src, u, "out")
  BY DEF Doing, Shaped, Places
<1> QED
  BY <1>3, <1>4 DEF Do, GoesOn

LEMMA MountGoesOn ==
    ASSUME Commanding, NEW p \in Procs, NEW op, NEW n, NEW src, NEW s, NEW at,
           Doing(p, op, n, src, s, at), Head(s) \in Sessions,
           NEW to \in Places, cmd' = [cmd EXCEPT ![p].image = to]
    PROVE  GoesOn(p, op, n, src, s, to)
<1>1. cmd[p] \in Command
  BY DEF Commanding, AllShaped, Doing, Shaped
<1>2. cmd[p] = [op |-> op, name |-> n, src |-> src, todo |-> s, image |-> at]
  BY <1>1 DEF Command, Doing
<1>3. [cmd[p] EXCEPT !.image = to]
         = [op |-> op, name |-> n, src |-> src, todo |-> s, image |-> to]
  BY <1>2
<1>4. s # <<>> /\ Shaped(op, n, src, s, to)
  BY DEF Doing, Shaped, Places
<1> QED
  BY <1>3, <1>4 DEF GoesOn

\* Who is doing what afterwards.
LEMMA AfterGoingOn ==
    ASSUME Commanding, NEW p \in Procs, NEW op, NEW n, NEW src, NEW s, NEW at,
           Doing(p, op, n, src, s, at),
           NEW u, NEW to, GoesOn(p, op, n, src, u, to)
    PROVE  /\ Commanding'
           /\ \A q \in Procs \ {p} : cmd'[q] = cmd[q]
           /\ u = <<>> => cmd'[p] = Idle
           /\ u # <<>> => Doing(p, op, n, src, u, to)'
           /\ \A q \in Procs \ {p} : cmd[q].todo # <<>> => cmd[q].name # n /\ cmd[q].src # n
<1>1. cmd[p].todo # <<>> /\ cmd[p].name = n /\ cmd[p].src = src
  BY DEF Doing, Shaped
<1>2. \A q \in Procs \ {p} : cmd'[q] = cmd[q]
  BY DEF GoesOn
<1>3. u = <<>> => cmd'[p] = Idle
  BY DEF GoesOn, Commanding
<1>4. u # <<>> => /\ cmd'[p] = [op |-> op, name |-> n, src |-> src, todo |-> u, image |-> to]
                  /\ Shaped(op, n, src, u, to)
  BY DEF GoesOn, Commanding
<1>5. u # <<>> => Doing(p, op, n, src, u, to)'
  BY <1>4 DEF Doing
<1>6. cmd' \in [Procs -> Command \cup {Idle}]
  <2>1. u # <<>> => [op |-> op, name |-> n, src |-> src, todo |-> u, image |-> to] \in Command
    BY <1>4 DEF Shaped, Command, Places
  <2> QED
    BY <2>1 DEF GoesOn, Commanding
<1>7. AllShaped'
  <2> SUFFICES ASSUME NEW q \in Procs
               PROVE  /\ cmd'[q].todo = <<>> => cmd'[q] = Idle
                      /\ cmd'[q].todo # <<>>
                            => /\ cmd'[q] \in Command
                               /\ Shaped(cmd'[q].op, cmd'[q].name, cmd'[q].src, cmd'[q].todo, cmd'[q].image)
    BY DEF AllShaped
  <2>1. CASE q # p
    BY <1>2, <2>1 DEF Commanding, AllShaped
  <2>2. CASE q = p /\ u = <<>>
    BY <1>3, <2>2 DEF Idle
  <2>3. CASE q = p /\ u # <<>>
    <3>1. /\ cmd'[p].op = op /\ cmd'[p].name = n /\ cmd'[p].src = src
          /\ cmd'[p].todo = u /\ cmd'[p].image = to /\ Shaped(op, n, src, u, to)
      BY <1>4, <2>3
    <3>2. cmd'[p] \in Command
      BY <1>4, <2>3 DEF Shaped, Command, Places
    <3> QED
      BY <2>3, <3>1, <3>2
  <2> QED
    BY <2>1, <2>2, <2>3
<1>8. \A q \in Procs : cmd'[q].todo # <<>> => /\ cmd[q].todo # <<>>
                                              /\ cmd'[q].name = cmd[q].name
                                              /\ cmd'[q].src = cmd[q].src
  BY <1>1, <1>2, <1>3, <1>4 DEF Idle
<1>9. Apart'
  BY <1>8 DEF Apart, Commanding
<1>10. \A q \in Procs \ {p} : cmd[q].todo # <<>> => cmd[q].name # n /\ cmd[q].src # n
  BY <1>1 DEF Apart, Commanding
<1> QED
  BY <1>2, <1>3, <1>5, <1>6, <1>7, <1>9, <1>10 DEF Commanding

-----------------------------------------------------------------------------
(***************************************************************************)
(* The steps of a process, by the first step h of what it has to do.       *)
(***************************************************************************)
\* What becomes of an image, and of a saved key, when an edit is broken off.
Broken(n, h, at, i) ==
    \/ i = images[n]
    \/ h = "init" /\ at = "in" /\ i = [images[n] EXCEPT !.init = "none"]
    \/ Tears /\ h \in {"generate", "reuse"} /\ at = "in" /\ i = [images[n] EXCEPT !.key = Torn]

KeyBroken(n, h, at, k) ==
    \/ k = saved[n]
    \/ Tears /\ h = "store" /\ at = "in" /\ k = Torn

Sees(p, op, n, src, s, at, h, t) ==
    /\ \A x : At(p, x) <=> h = x
    /\ \A x : InSession(p, x) <=> h = x /\ at = "in"
    /\ \A x, y : MayFailAt(p, x, y) <=> <<op, x, y>> \in MayFail
    /\ cmd[p].name = n /\ cmd[p].op = op /\ cmd[p].src = src
    /\ cmd[p].todo = s /\ cmd[p].image = at
    /\ s \in Seq(Steps) /\ s # <<>> /\ Fits(op, s) /\ op \in Ops /\ n \in Names
    /\ t \in Seq(Steps) /\ Fits(op, t) /\ Leads(op, s, h, t) /\ Without(s, h, t)
    /\ Has(s, h) /\ h \in Steps

LEMMA Begun ==
    ASSUME Commanding, NEW p \in Procs, NEW op, NEW n, NEW src, NEW s, NEW at,
           Doing(p, op, n, src, s, at), NEW h, h = Head(s), NEW t, t = Tail(s)
    PROVE  Sees(p, op, n, src, s, at, h, t)
<1>1. /\ cmd[p].name = n /\ cmd[p].op = op /\ cmd[p].src = src
      /\ cmd[p].todo = s /\ cmd[p].image = at
  BY DEF Doing
<1>2. s \in Seq(Steps) /\ s # <<>> /\ Fits(op, s) /\ op \in Ops /\ n \in Names
  BY DEF Doing, Shaped
<1>3. t \in Seq(Steps) /\ Fits(op, t)
  BY <1>2, TailFits
<1>4. Leads(op, s, h, t)
  BY <1>2, HeadFacts
<1>5. Without(s, h, t) /\ Has(s, h)
  BY <1>2, TailIsWithout
<1>6. h \in Steps
  BY <1>2
<1>7. \A x : At(p, x) <=> h = x
  BY <1>1, <1>2 DEF At
<1> QED
  BY <1>1, <1>2, <1>3, <1>4, <1>5, <1>6, <1>7 DEF InSession, MayFailAt, Sees

LEMMA FailsGoesOn ==
    ASSUME Commanding, NEW p \in Procs, NEW op, NEW n, NEW src, NEW s, NEW at,
           Doing(p, op, n, src, s, at), NEW h, h = Head(s), NEW t, t = Tail(s),
           Fails(p, h)
    PROVE  \E u : GoesOn(p, op, n, src, u, "out") /\ Remains(op, h, t, u)
<1>1. /\ cmd[p].op = op /\ cmd[p].todo = s /\ op \in Ops
      /\ s \in Seq(Steps) /\ s # <<>> /\ Fits(op, s)
  BY DEF Doing, Shaped
<1>2. PICK u : u = AfterFailure(op, h, t)
  OBVIOUS
<1>3. Remains(op, h, t, u) /\ u \in Seq(Steps) /\ Fits(op, u)
  BY <1>1, <1>2, FailureRemains
<1>4. Do(p, u)
  BY <1>1, <1>2 DEF Fails
<1>5. GoesOn(p, op, n, src, u, "out")
  BY <1>3, <1>4, DoGoesOn
<1> QED
  BY <1>3, <1>5

LEMMA AdvanceGoesOn ==
    ASSUME Commanding, NEW p \in Procs, NEW op, NEW n, NEW src, NEW s, NEW at,
           Doing(p, op, n, src, s, at), NEW h, h = Head(s), NEW t, t = Tail(s),
           Advance(p)
    PROVE  GoesOn(p, op, n, src, t, "out")
<1>0. Sees(p, op, n, src, s, at, h, t)
  BY Begun
<1>1. cmd[p].todo = s /\ t \in Seq(Steps) /\ Fits(op, t)
  BY <1>0 DEF Sees
<1>2. Do(p, t)
  BY <1>1 DEF Advance
<1> QED
  BY <1>1, <1>2, DoGoesOn

LEMMA RegisterDoes ==
    ASSUME Commanding, NEW p \in Procs, NEW op, NEW n, NEW src, NEW s, NEW at,
           Doing(p, op, n, src, s, at), NEW h, h = Head(s), NEW t, t = Tail(s),
           Register(p)
    PROVE  /\ h = "register"
           /\ UNCHANGED <<images, archive, saved, up, stale>>
           /\ \E u : /\ GoesOn(p, op, n, src, u, "out")
                     /\ \/ u = t /\ row' = [row EXCEPT ![n] = "creating"]
                        \/ GivesUp(u) /\ row' = row
<1>0. Sees(p, op, n, src, s, at, h, t)
  BY Begun
<1>1. h = "register" /\ cmd[p].name = n
  BY <1>0 DEF Sees, Register
<1>2. UNCHANGED <<images, archive, saved, up, stale>>
  BY DEF Register
<1>3. CASE row' = [row EXCEPT ![cmd[p].name] = "creating"] /\ Advance(p)
  BY <1>1, <1>2, <1>3, AdvanceGoesOn
<1>4. CASE Fails(p, "register") /\ row' = row
  <2>1. PICK u : GoesOn(p, op, n, src, u, "out") /\ Remains(op, h, t, u)
    BY <1>1, <1>4, FailsGoesOn
  <2>2. GivesUp(u)
    BY <1>1, <2>1 DEF Remains, Sessions
  <2> QED
    BY <1>1, <1>2, <1>4, <2>1, <2>2
<1> QED
  BY <1>3, <1>4 DEF Register

LEMMA CopyDoes ==
    ASSUME Commanding, NEW p \in Procs, NEW op, NEW n, NEW src, NEW s, NEW at,
           Doing(p, op, n, src, s, at), NEW h, h = Head(s), NEW t, t = Tail(s),
           Copy(p)
    PROVE  /\ h = "copy"
           /\ UNCHANGED <<row, archive, saved, up, stale>>
           /\ \E u : /\ GoesOn(p, op, n, src, u, "out")
                     /\ \/ /\ u = t
                           /\ op = "clone" \/ images[n] = NoImage
                           /\ \E i : /\ i = IF op = "clone" THEN images[src] ELSE Base
                                     /\ i # NoImage
                                     /\ images' = [images EXCEPT ![n] = i]
                        \/ GivesUp(u) /\ images' = [images EXCEPT ![n] = Wiped]
                        \/ GivesUp(u) /\ images' = images
<1>0. Sees(p, op, n, src, s, at, h, t)
  BY Begun
<1>1. h = "copy" /\ cmd[p].name = n /\ cmd[p].op = op /\ cmd[p].src = src
  BY <1>0 DEF Sees, Copy
<1>2. UNCHANGED <<row, archive, saved, up, stale>>
  BY DEF Copy
<1> DEFINE i == IF op = "clone" THEN images[src] ELSE Base
<1>3. \/ (op = "clone" \/ images[n] = NoImage) /\ i # NoImage /\ Put(n, i) /\ Advance(p)
      \/ Put(n, Wiped) /\ Fails(p, "copy")
      \/ Fails(p, "copy") /\ UNCHANGED images
  BY <1>1 DEF Copy
<1>4. CASE (op = "clone" \/ images[n] = NoImage) /\ i # NoImage /\ Put(n, i) /\ Advance(p)
  BY <1>1, <1>2, <1>4, AdvanceGoesOn DEF Put
<1>5. CASE Fails(p, "copy") /\ (Put(n, Wiped) \/ UNCHANGED images)
  <2>1. PICK u : GoesOn(p, op, n, src, u, "out") /\ Remains(op, h, t, u)
    BY <1>1, <1>5, FailsGoesOn
  <2>2. GivesUp(u)
    BY <1>1, <2>1 DEF Remains, Sessions
  <2> QED
    BY <1>1, <1>2, <1>5, <2>1, <2>2 DEF Put
<1> QED
  BY <1>3, <1>4, <1>5

LEMMA PullDoes ==
    ASSUME Commanding, NEW p \in Procs, NEW op, NEW n, NEW src, NEW s, NEW at,
           Doing(p, op, n, src, s, at), NEW h, h = Head(s), NEW t, t = Tail(s),
           Pull(p)
    PROVE  /\ h = "pull"
           /\ UNCHANGED <<row, archive, saved, up>>
           /\ \E u : /\ GoesOn(p, op, n, src, u, "out")
                     /\ \/ /\ u = t
                           /\ archive[n] # NoImage
                           /\ images' = [images EXCEPT ![n] = archive[n]]
                           /\ stale' = stale \ {n}
                        \/ GivesUp(u) /\ UNCHANGED <<images, stale>>
<1>0. Sees(p, op, n, src, s, at, h, t)
  BY Begun
<1>1. h = "pull" /\ cmd[p].name = n
  BY <1>0 DEF Sees, Pull
<1>2. UNCHANGED <<row, archive, saved, up>>
  BY DEF Pull
<1>3. \/ archive[n] # NoImage /\ Put(n, archive[n]) /\ stale' = stale \ {n} /\ Advance(p)
      \/ Fails(p, "pull") /\ UNCHANGED <<images, stale>>
  BY <1>1 DEF Pull
<1>4. CASE archive[n] # NoImage /\ Put(n, archive[n]) /\ stale' = stale \ {n} /\ Advance(p)
  BY <1>1, <1>2, <1>4, AdvanceGoesOn DEF Put
<1>5. CASE Fails(p, "pull") /\ UNCHANGED <<images, stale>>
  <2>1. PICK u : GoesOn(p, op, n, src, u, "out") /\ Remains(op, h, t, u)
    BY <1>1, <1>5, FailsGoesOn
  <2>2. GivesUp(u)
    BY <1>1, <2>1 DEF Remains, Sessions
  <2> QED
    BY <1>1, <1>2, <1>5, <2>1, <2>2
<1> QED
  BY <1>3, <1>4, <1>5

LEMMA ChooseKeyDoes ==
    ASSUME Commanding, NEW p \in Procs, NEW op, NEW n, NEW src, NEW s, NEW at,
           Doing(p, op, n, src, s, at), NEW h, h = Head(s), NEW t, t = Tail(s),
           ChooseKey(p)
    PROVE  /\ h = "key"
           /\ UNCHANGED <<row, images, archive, saved, up, stale>>
           /\ \E u : /\ GoesOn(p, op, n, src, u, "out") /\ u # <<>>
                     /\ KeyChosen(n, s, u)
<1>0. Sees(p, op, n, src, s, at, h, t)
  BY Begun
<1>1. h = "key" /\ cmd[p].name = n /\ cmd[p].todo = s /\ s \in Seq(Steps) /\ Fits(op, s) /\ s # <<>>
  BY <1>0 DEF Sees, ChooseKey
<1>2. UNCHANGED <<row, images, archive, saved, up, stale>>
  BY DEF ChooseKey
<1>3. PICK u : u = KeyPlan(n) \o t
  OBVIOUS
<1>4. u \in Seq(Steps) /\ u # <<>> /\ Fits(op, u) /\ KeyChosen(n, s, u)
  BY <1>1, <1>3, KeyPlanFits
<1>5. Do(p, u)
  BY <1>1, <1>3 DEF ChooseKey
<1>6. GoesOn(p, op, n, src, u, "out")
  BY <1>4, <1>5, DoGoesOn
<1> QED
  BY <1>1, <1>2, <1>4, <1>6

LEMMA MountDoes ==
    ASSUME Commanding, NEW p \in Procs, NEW op, NEW n, NEW src, NEW s, NEW at,
           Doing(p, op, n, src, s, at), NEW h, h = Head(s), NEW t, t = Tail(s),
           Mount(p)
    PROVE  /\ h \in Sessions /\ at = "out"
           /\ UNCHANGED <<row, images, archive, saved, up, stale>>
           /\ \/ GoesOn(p, op, n, src, s, "in")
              \/ /\ <<op, h, "mount">> \in MayFail
                 /\ \E u : GoesOn(p, op, n, src, u, "out") /\ Remains(op, h, t, u)
<1>0. Sees(p, op, n, src, s, at, h, t)
  BY Begun
<1>1. PICK step \in Sessions :
         /\ At(p, step)
         /\ cmd[p].image = "out"
         /\ \/ cmd' = [cmd EXCEPT ![p].image = "in"]
            \/ MayFailAt(p, step, "mount") /\ Fails(p, step)
  BY DEF Mount
<1>2. step = h /\ at = "out" /\ (MayFailAt(p, step, "mount") => <<op, h, "mount">> \in MayFail)
  BY <1>1, <1>0 DEF Sees
<1>3. UNCHANGED <<row, images, archive, saved, up, stale>>
  BY DEF Mount
<1>4. CASE cmd' = [cmd EXCEPT ![p].image = "in"]
  <2>1. "in" \in Places
    BY DEF Places
  <2>2. GoesOn(p, op, n, src, s, "in")
    BY <1>2, <1>4, <2>1, MountGoesOn
  <2> QED
    BY <1>2, <1>3, <2>2
<1>5. CASE MayFailAt(p, step, "mount") /\ Fails(p, step)
  BY <1>2, <1>3, <1>5, FailsGoesOn
<1> QED
  BY <1>1, <1>4, <1>5

\* What is left after the image is unmounted.
Left(op, at, h, t, u) ==
    \/ at = "done" /\ u = t
    \/ at = "failed" /\ Remains(op, h, t, u)

LEMMA UnmountGoesOn ==
    ASSUME Commanding, NEW p \in Procs, NEW op, NEW n, NEW src, NEW s, NEW at,
           Doing(p, op, n, src, s, at), NEW h, h = Head(s), NEW t, t = Tail(s),
           Unmount(p)
    PROVE  \E u : GoesOn(p, op, n, src, u, "out") /\ Left(op, at, h, t, u)
<1>0. Sees(p, op, n, src, s, at, h, t)
  BY Begun
<1>1. PICK step \in Sessions :
         /\ At(p, step)
         /\ cmd[p].image \in {"done", "failed"}
         /\ IF cmd[p].image = "done" THEN Advance(p) ELSE Fails(p, step)
  BY DEF Unmount
<1>2. step = h /\ at = cmd[p].image
  BY <1>1, <1>0 DEF Sees
<1>3. CASE at = "done"
  <2>1. GoesOn(p, op, n, src, t, "out")
    BY <1>1, <1>2, <1>3, AdvanceGoesOn
  <2> QED
    BY <1>3, <2>1 DEF Left
<1>4. CASE at = "failed"
  <2>1. PICK u : GoesOn(p, op, n, src, u, "out") /\ Remains(op, h, t, u)
    BY <1>1, <1>2, <1>4, FailsGoesOn
  <2> QED
    BY <1>4, <2>1 DEF Left
<1> QED
  BY <1>1, <1>2, <1>3, <1>4

LEMMA UnmountDoes ==
    ASSUME Commanding, NEW p \in Procs, NEW op, NEW n, NEW src, NEW s, NEW at,
           Doing(p, op, n, src, s, at), NEW h, h = Head(s), NEW t, t = Tail(s),
           Unmount(p)
    PROVE  /\ h \in Sessions
           /\ UNCHANGED <<row, archive, saved, up>>
           /\ \/ UNCHANGED <<images, stale>>
              \/ /\ <<op, h, "umount">> \in MayFail
                 /\ images' = [images EXCEPT ![n] = Wiped]
                 /\ stale' = stale \cup {n}
<1>0. Sees(p, op, n, src, s, at, h, t)
  BY Begun
<1>1. PICK step \in Sessions :
         /\ At(p, step)
         /\ \/ UNCHANGED <<images, stale>>
            \/ /\ MayFailAt(p, step, "umount")
               /\ Put(cmd[p].name, Wiped)
               /\ stale' = stale \cup {cmd[p].name}
  BY DEF Unmount
<1>2. /\ step = h /\ cmd[p].name = n
      /\ MayFailAt(p, step, "umount") => <<op, h, "umount">> \in MayFail
  BY <1>1, <1>0 DEF Sees
<1> QED
  BY <1>1, <1>2 DEF Put, Unmount

LEMMA StartDoes ==
    ASSUME Commanding, NEW p \in Procs, NEW op, NEW n, NEW src, NEW s, NEW at,
           Doing(p, op, n, src, s, at), NEW h, h = Head(s), NEW t, t = Tail(s),
           Start(p)
    PROVE  /\ h = "start"
           /\ UNCHANGED <<images, archive, saved, stale>>
           /\ \E u : /\ GoesOn(p, op, n, src, u, "out") /\ GivesUp(u)
                     /\ \/ /\ u = <<>>
                           /\ row' = [row EXCEPT ![n] = "running"]
                           /\ up' = up \cup {n}
                        \/ UNCHANGED <<row, up>>
<1>0. Sees(p, op, n, src, s, at, h, t)
  BY Begun
<1>1. h = "start" /\ cmd[p].name = n /\ Leads(op, s, h, t)
  BY <1>0 DEF Sees, Start
<1>2. UNCHANGED <<images, archive, saved, stale>>
  BY DEF Start
<1>3. \/ /\ row' = [row EXCEPT ![n] = "running"]
         /\ up' = up \cup {n}
         /\ Advance(p)
      \/ Fails(p, "start") /\ UNCHANGED <<row, up>>
  BY <1>1 DEF Start
<1>4. CASE /\ row' = [row EXCEPT ![n] = "running"]
           /\ up' = up \cup {n}
           /\ Advance(p)
  <2>1. GoesOn(p, op, n, src, t, "out")
    BY <1>4, AdvanceGoesOn
  <2>2. t = <<>>
    BY <1>1 DEF Leads
  <2> QED
    BY <1>1, <1>2, <1>4, <2>1, <2>2 DEF GivesUp
<1>5. CASE Fails(p, "start") /\ UNCHANGED <<row, up>>
  <2>1. PICK u : GoesOn(p, op, n, src, u, "out") /\ Remains(op, h, t, u)
    BY <1>1, <1>5, FailsGoesOn
  <2>2. GivesUp(u)
    BY <1>1, <2>1 DEF Remains, Sessions
  <2> QED
    BY <1>1, <1>2, <1>5, <2>1, <2>2
<1> QED
  BY <1>3, <1>4, <1>5

LEMMA UndoDoes ==
    ASSUME Commanding, NEW p \in Procs, NEW op, NEW n, NEW src, NEW s, NEW at,
           Doing(p, op, n, src, s, at), NEW h, h = Head(s), NEW t, t = Tail(s),
           Undo(p)
    PROVE  /\ h \in {"undisk", "unrow"}
           /\ UNCHANGED <<archive, saved, up>>
           /\ GoesOn(p, op, n, src, t, "out")
           /\ \/ row' = row /\ images' = [images EXCEPT ![n] = NoImage] /\ stale' = stale \ {n}
              \/ UNCHANGED <<row, images, stale>>
              \/ row' = [row EXCEPT ![n] = "none"] /\ UNCHANGED <<images, stale>>
<1>0. Sees(p, op, n, src, s, at, h, t)
  BY Begun
<1>1. (\A x : At(p, x) <=> h = x) /\ cmd[p].name = n
  BY <1>0 DEF Sees
<1>2. GoesOn(p, op, n, src, t, "out")
  BY AdvanceGoesOn DEF Undo
<1> QED
  BY <1>1, <1>2 DEF Undo, RemoveImage, Put

LEMMA BrokenOffIs ==
    ASSUME Commanding, NEW p \in Procs, NEW op, NEW n, NEW src, NEW s, NEW at,
           Doing(p, op, n, src, s, at), NEW h, h = Head(s), NEW t, t = Tail(s)
    PROVE  /\ \A i \in BrokenOff(p) : Broken(n, h, at, i)
           /\ \A k \in KeyBrokenOff(p) : KeyBroken(n, h, at, k)
<1>0. Sees(p, op, n, src, s, at, h, t)
  BY Begun
<1>1. (\A x : InSession(p, x) <=> h = x /\ at = "in") /\ cmd[p].name = n
  BY <1>0 DEF Sees
<1>2. \A k \in KeyBrokenOff(p) : KeyBroken(n, h, at, k)
  BY <1>1 DEF KeyBrokenOff, KeyBroken
<1>3. CASE h = "init" /\ at = "in"
  BY <1>1, <1>2, <1>3 DEF BrokenOff, Broken
<1>4. CASE h \in {"generate", "reuse"} /\ at = "in"
  BY <1>1, <1>2, <1>4 DEF BrokenOff, Broken
<1>5. CASE ~(h \in {"init", "generate", "reuse"} /\ at = "in")
  BY <1>1, <1>2, <1>5 DEF BrokenOff, Broken
<1> QED
  BY <1>3, <1>4, <1>5

LEMMA CrashDoes ==
    ASSUME Commanding, NEW p \in Procs, NEW op, NEW n, NEW src, NEW s, NEW at,
           Doing(p, op, n, src, s, at), NEW h, h = Head(s), NEW t, t = Tail(s),
           Crash(p)
    PROVE  /\ UNCHANGED <<row, archive, up>>
           /\ GoesOn(p, op, n, src, <<>>, "out")
           /\ \E i : Broken(n, h, at, i) /\ images' = [images EXCEPT ![n] = i]
           /\ \E k : KeyBroken(n, h, at, k) /\ saved' = [saved EXCEPT ![n] = k]
           /\ stale' = IF at = "out" THEN stale ELSE stale \cup {n}
<1>0. Sees(p, op, n, src, s, at, h, t)
  BY Begun
<1>1. cmd[p].name = n /\ cmd[p].image = at
  BY <1>0 DEF Sees
<1>2. GoesOn(p, op, n, src, <<>>, "out")
  BY DEF Crash, GoesOn
<1>3. \E i : Broken(n, h, at, i) /\ images' = [images EXCEPT ![n] = i]
  BY <1>1, BrokenOffIs DEF Crash, Put
<1>4. \E k : KeyBroken(n, h, at, k) /\ saved' = [saved EXCEPT ![n] = k]
  BY <1>1, BrokenOffIs DEF Crash
<1> QED
  BY <1>1, <1>2, <1>3, <1>4 DEF Crash

Edits(op, n, h, to) ==
    \/ /\ to = "done" /\ h = "init"
       /\ images' = [images EXCEPT ![n] = [images[n] EXCEPT !.init = "umu"]]
       /\ saved' = saved
    \/ /\ to = "done" /\ h = "generate"
       /\ \E k \in FreshKeys : images' = [images EXCEPT ![n] = [images[n] EXCEPT !.key = k]]
       /\ saved' = saved
    \/ /\ to = "done" /\ h = "reuse"
       /\ images' = [images EXCEPT ![n] = [images[n] EXCEPT !.key = saved[n]]]
       /\ saved' = saved
    \/ /\ to = "done" /\ h = "store"
       /\ saved' = [saved EXCEPT ![n] = images[n].key]
       /\ images' = images
    \/ /\ to = "done" /\ h \in {"ssh", "auth", "name"}
       /\ UNCHANGED <<images, saved>>
    \/ /\ to = "failed"
       /\ <<op, h, "edit">> \in MayFail \/ h = "store"
       /\ \E i : Broken(n, h, "in", i) /\ images' = [images EXCEPT ![n] = i]
       /\ \E k : KeyBroken(n, h, "in", k) /\ saved' = [saved EXCEPT ![n] = k]

LEMMA EditDoes ==
    ASSUME Commanding, NEW p \in Procs, NEW op, NEW n, NEW src, NEW s, NEW at,
           Doing(p, op, n, src, s, at), NEW h, h = Head(s), NEW t, t = Tail(s),
           Edit(p)
    PROVE  /\ h \in Sessions /\ at = "in"
           /\ UNCHANGED <<row, archive, up, stale>>
           /\ \E to \in {"done", "failed"} : GoesOn(p, op, n, src, s, to) /\ Edits(op, n, h, to)
<1>0. Sees(p, op, n, src, s, at, h, t)
  BY Begun
<1>1. /\ \A x : InSession(p, x) <=> h = x /\ at = "in"
      /\ \A x, y : MayFailAt(p, x, y) <=> <<op, x, y>> \in MayFail
      /\ cmd[p].name = n
  BY <1>0 DEF Sees
<1>2. \A to \in {"done", "failed"} :
         h \in Sessions /\ Edited(p, to)
            => UNCHANGED <<row, archive, up, stale>> /\ GoesOn(p, op, n, src, s, to)
  <2> SUFFICES ASSUME NEW to \in {"done", "failed"}, h \in Sessions, Edited(p, to)
               PROVE  UNCHANGED <<row, archive, up, stale>> /\ GoesOn(p, op, n, src, s, to)
    OBVIOUS
  <2>1. to \in Places /\ cmd' = [cmd EXCEPT ![p].image = to]
    BY DEF Places, Edited
  <2>2. GoesOn(p, op, n, src, s, to)
    BY <2>1, MountGoesOn
  <2> QED
    BY <2>2 DEF Edited
<1>3. CASE /\ InSession(p, "init")
           /\ Put(n, [images[n] EXCEPT !.init = "umu"])
           /\ Edited(p, "done") /\ UNCHANGED saved
  BY <1>1, <1>2, <1>3 DEF Edits, Put, Sessions
<1>4. CASE /\ InSession(p, "generate")
           /\ \E k \in FreshKeys : Put(n, [images[n] EXCEPT !.key = k])
           /\ Edited(p, "done") /\ UNCHANGED saved
  BY <1>1, <1>2, <1>4 DEF Edits, Put, Sessions
<1>5. CASE /\ InSession(p, "reuse")
           /\ Put(n, [images[n] EXCEPT !.key = saved[n]])
           /\ Edited(p, "done") /\ UNCHANGED saved
  BY <1>1, <1>2, <1>5 DEF Edits, Put, Sessions
<1>6. CASE /\ InSession(p, "store")
           /\ saved' = [saved EXCEPT ![n] = images[n].key]
           /\ Edited(p, "done") /\ UNCHANGED images
  BY <1>1, <1>2, <1>6 DEF Edits, Sessions
<1>7. CASE /\ \E step \in {"ssh", "auth", "name"} : InSession(p, step)
           /\ Edited(p, "done") /\ UNCHANGED <<images, saved>>
  BY <1>1, <1>2, <1>7 DEF Edits, Sessions
<1>8. CASE /\ \E step \in Sessions :
                 /\ InSession(p, step)
                 /\ MayFailAt(p, step, "edit") \/ (step = "store" /\ images[n].key = NoKey)
           /\ \E i \in BrokenOff(p) : Put(n, i)
           /\ \E k \in KeyBrokenOff(p) : saved' = [saved EXCEPT ![n] = k]
           /\ Edited(p, "failed")
  <2>1. /\ h \in Sessions /\ at = "in"
        /\ <<op, h, "edit">> \in MayFail \/ h = "store"
    BY <1>1, <1>8
  <2>2. PICK i \in BrokenOff(p) : images' = [images EXCEPT ![n] = i]
    BY <1>8 DEF Put
  <2>3. PICK k \in KeyBrokenOff(p) : saved' = [saved EXCEPT ![n] = k]
    BY <1>8
  <2>4. Broken(n, h, "in", i) /\ KeyBroken(n, h, "in", k)
    BY <2>1, <2>2, <2>3, BrokenOffIs
  <2>5. Edits(op, n, h, "failed")
    BY <2>1, <2>2, <2>3, <2>4 DEF Edits
  <2> QED
    BY <1>2, <1>8, <2>1, <2>5
<1> QED
  BY <1>1, <1>3, <1>4, <1>5, <1>6, <1>7, <1>8 DEF Edit

-----------------------------------------------------------------------------
(***************************************************************************)
(* Types.  An image that is edited is there.                               *)
(***************************************************************************)
DataTyped ==
    /\ row \in [Names -> {"none", "creating", "running", "frozen"}]
    /\ images \in [Names -> Image \cup {NoImage}]
    /\ archive \in [Names -> Image \cup {NoImage}]
    /\ saved \in [Names -> Keys]
    /\ up \subseteq Names
    /\ stale \subseteq Names

\* The image has been made, or is a command's to edit, when s is left to do.
HasImage(s) == Has(s, "start") /\ ~Has(s, "copy") /\ ~Has(s, "pull")

Present ==
    \A p \in Procs :
       cmd[p].todo # <<>> /\ HasImage(cmd[p].todo) => images[cmd[p].name] # NoImage

Core == DataTyped /\ Commanding /\ Present

LEMMA ImageFacts ==
    /\ NoImage \notin Image /\ Base \in Image /\ Wiped \in Image
    /\ NoKey \in Keys /\ Torn \in Keys /\ FreshKeys \subseteq Keys
    /\ \A i \in Image : \A x \in {"umu", "none"} :
          /\ [i EXCEPT !.init = x] \in Image
          /\ [i EXCEPT !.init = x].init = x
          /\ [i EXCEPT !.init = x].key = i.key
    /\ \A i \in Image : \A k \in Keys :
          /\ [i EXCEPT !.key = k] \in Image
          /\ [i EXCEPT !.key = k].key = k
          /\ [i EXCEPT !.key = k].init = i.init
BY MaxKeyAssumption DEF NoImage, Image, Base, Wiped, NoKey, Keys, Torn, FreshKeys

LEMMA SessionHasImage ==
    ASSUME NEW op, NEW s, NEW h, NEW t, Leads(op, s, h, t), Without(s, h, t), h \in Sessions \cup {"key"}
    PROVE  HasImage(s)
BY DEF Leads, Without, HasImage, Sessions

LEMMA TailHasImage ==
    ASSUME NEW s, NEW h, NEW t, Without(s, h, t), h \notin {"copy", "pull"}, HasImage(t)
    PROVE  HasImage(s)
BY DEF Without, HasImage

LEMMA GivesUpHasImage ==
    ASSUME NEW u, GivesUp(u)
    PROVE  ~HasImage(u)
BY GivesUpHas DEF HasImage

\* What a list h is left of has not been an image before it, or there was one.
LEMMA CoreStep ==
    ASSUME Core, NEW p \in Procs, NEW op, NEW n, NEW src, NEW s, NEW at,
           Doing(p, op, n, src, s, at), NEW u, NEW to, GoesOn(p, op, n, src, u, to), DataTyped',
           \A m \in Names \ {n} : images'[m] = images[m],
           HasImage(u) => images'[n] # NoImage
    PROVE  Core'
<1>1. /\ Commanding'
      /\ \A q \in Procs \ {p} : cmd'[q] = cmd[q]
      /\ u = <<>> => cmd'[p] = Idle
      /\ u # <<>> => Doing(p, op, n, src, u, to)'
      /\ \A q \in Procs \ {p} : cmd[q].todo # <<>> => cmd[q].name # n
  BY AfterGoingOn DEF Core
<1>2. Present'
  <2> SUFFICES ASSUME NEW q \in Procs, cmd'[q].todo # <<>>, HasImage(cmd'[q].todo)
               PROVE  images'[cmd'[q].name] # NoImage
    BY DEF Present
  <2>1. CASE q # p
    <3>1. cmd'[q] = cmd[q] /\ cmd[q].todo # <<>> /\ cmd[q].name # n
      BY <1>1, <2>1
    <3>2. cmd[q].name \in Names
      BY <3>1 DEF Core, Commanding, AllShaped, Shaped
    <3> QED
      BY <3>1, <3>2 DEF Core, Present
  <2>2. CASE q = p
    <3>1. u # <<>>
      BY <1>1, <2>2 DEF Idle
    <3>2. cmd'[p].name = n /\ cmd'[p].todo = u
      BY <1>1, <3>1 DEF Doing
    <3> QED
      BY <2>2, <3>2
  <2> QED
    BY <2>1, <2>2
<1> QED
  BY <1>1, <1>2 DEF Core

\* A process edits an image that is there.
LEMMA SessionImage ==
    ASSUME Core, NEW p \in Procs, NEW op, NEW n, NEW src, NEW s, NEW at,
           Doing(p, op, n, src, s, at), NEW h, h = Head(s), NEW t, t = Tail(s),
           h \in Sessions \cup {"key"}
    PROVE  images[n] \in Image /\ images[n] # NoImage /\ HasImage(s) /\ n \in Names
<1>1. Sees(p, op, n, src, s, at, h, t)
  BY Begun DEF Core
<1>2. HasImage(s) /\ s # <<>> /\ cmd[p].name = n /\ cmd[p].todo = s /\ n \in Names
  BY <1>1, SessionHasImage DEF Sees
<1> QED
  BY <1>2 DEF Core, Present, DataTyped

LEMMA CoreUnchanged ==
    ASSUME Core, NEW p \in Procs, NEW op, NEW n, NEW src, NEW s, NEW at,
           Doing(p, op, n, src, s, at), NEW h, h = Head(s), NEW t, t = Tail(s),
           NEW u, NEW to, GoesOn(p, op, n, src, u, to),
           UNCHANGED <<images, archive, saved, stale>>, HasImage(u) => HasImage(s),
           row' \in [Names -> {"none", "creating", "running", "frozen"}], up' \subseteq Names
    PROVE  Core'
<1>1. Sees(p, op, n, src, s, at, h, t)
  BY Begun DEF Core
<1>2. HasImage(u) => images[n] # NoImage
  BY <1>1 DEF Sees, Core, Present
<1>3. DataTyped'
  BY DEF Core, DataTyped
<1> QED
  BY <1>2, <1>3, CoreStep

LEMMA RemainsHasImage ==
    ASSUME Core, NEW p \in Procs, NEW op, NEW n, NEW src, NEW s, NEW at,
           Doing(p, op, n, src, s, at), NEW h, h = Head(s), NEW t, t = Tail(s),
           NEW u, Remains(op, h, t, u), HasImage(u)
    PROVE  HasImage(s) /\ h \in Sessions
<1>1. h \in Sessions
  BY GivesUpHasImage DEF Remains
<1> QED
  BY <1>1, SessionImage

LEMMA RegisterCore ==
    ASSUME Core, NEW p \in Procs, NEW op, NEW n, NEW src, NEW s, NEW at,
           Doing(p, op, n, src, s, at), NEW h, h = Head(s), NEW t, t = Tail(s),
           Register(p)
    PROVE  Core'
<1>1. PICK u : /\ GoesOn(p, op, n, src, u, "out")
               /\ \/ u = t /\ row' = [row EXCEPT ![n] = "creating"]
                  \/ GivesUp(u) /\ row' = row
  BY RegisterDoes DEF Core
<1>2. UNCHANGED <<images, archive, saved, up, stale>> /\ h = "register"
  BY RegisterDoes DEF Core
<1>3. Sees(p, op, n, src, s, at, h, t)
  BY Begun DEF Core
<1>4. HasImage(u) => HasImage(s)
  BY <1>1, <1>2, <1>3, TailHasImage, GivesUpHasImage DEF Sees
<1>5. row' \in [Names -> {"none", "creating", "running", "frozen"}] /\ up' \subseteq Names
  BY <1>1, <1>2 DEF Core, DataTyped
<1> QED
  BY <1>1, <1>2, <1>4, <1>5, CoreUnchanged

LEMMA CopyCore ==
    ASSUME Core, NEW p \in Procs, NEW op, NEW n, NEW src, NEW s, NEW at,
           Doing(p, op, n, src, s, at), NEW h, h = Head(s), NEW t, t = Tail(s),
           Copy(p)
    PROVE  Core'
<1>1. PICK u : /\ GoesOn(p, op, n, src, u, "out")
               /\ \/ /\ u = t
                     /\ \E i : /\ i = IF op = "clone" THEN images[src] ELSE Base
                               /\ i # NoImage
                               /\ images' = [images EXCEPT ![n] = i]
                  \/ GivesUp(u) /\ images' = [images EXCEPT ![n] = Wiped]
                  \/ GivesUp(u) /\ images' = images
  BY CopyDoes DEF Core
<1>2. UNCHANGED <<row, archive, saved, up, stale>> /\ h = "copy"
  BY CopyDoes DEF Core
<1>3. op = "clone" => src \in Names
  BY DEF Doing, Shaped
<1>4. n \in Names /\ images \in [Names -> Image \cup {NoImage}]
  BY DEF Doing, Shaped, Core, DataTyped
<1>5. /\ images' \in [Names -> Image \cup {NoImage}]
      /\ \A m \in Names \ {n} : images'[m] = images[m]
      /\ HasImage(u) => images'[n] # NoImage
  <2>1. CASE GivesUp(u) /\ images' = images
    BY <1>4, <2>1, GivesUpHasImage
  <2>2. CASE GivesUp(u) /\ images' = [images EXCEPT ![n] = Wiped]
    BY <1>4, <2>2, GivesUpHasImage, ImageFacts
  <2>3. CASE \E i : /\ i = IF op = "clone" THEN images[src] ELSE Base
                    /\ i # NoImage
                    /\ images' = [images EXCEPT ![n] = i]
    <3>1. PICK i : /\ i = IF op = "clone" THEN images[src] ELSE Base
                   /\ i # NoImage
                   /\ images' = [images EXCEPT ![n] = i]
      BY <2>3
    <3>2. i \in Image \cup {NoImage}
      BY <1>3, <1>4, <3>1, ImageFacts
    <3> QED
      BY <1>4, <3>1, <3>2
  <2> QED
    BY <1>1, <2>1, <2>2, <2>3
<1>6. DataTyped'
  BY <1>2, <1>5 DEF Core, DataTyped
<1> QED
  BY <1>1, <1>5, <1>6, CoreStep

LEMMA PullCore ==
    ASSUME Core, NEW p \in Procs, NEW op, NEW n, NEW src, NEW s, NEW at,
           Doing(p, op, n, src, s, at), NEW h, h = Head(s), NEW t, t = Tail(s),
           Pull(p)
    PROVE  Core'
<1>1. PICK u : /\ GoesOn(p, op, n, src, u, "out")
               /\ \/ /\ u = t
                     /\ archive[n] # NoImage
                     /\ images' = [images EXCEPT ![n] = archive[n]]
                     /\ stale' = stale \ {n}
                  \/ GivesUp(u) /\ UNCHANGED <<images, stale>>
  BY PullDoes DEF Core
<1>2. UNCHANGED <<row, archive, saved, up>>
  BY PullDoes DEF Core
<1>4. /\ n \in Names /\ images \in [Names -> Image \cup {NoImage}]
      /\ archive \in [Names -> Image \cup {NoImage}]
  BY DEF Doing, Shaped, Core, DataTyped
<1>5. /\ images' \in [Names -> Image \cup {NoImage}]
      /\ \A m \in Names \ {n} : images'[m] = images[m]
      /\ HasImage(u) => images'[n] # NoImage
  BY <1>1, <1>4, GivesUpHasImage
<1>6. DataTyped'
  BY <1>1, <1>2, <1>5 DEF Core, DataTyped
<1> QED
  BY <1>1, <1>5, <1>6, CoreStep

LEMMA ChooseKeyCore ==
    ASSUME Core, NEW p \in Procs, NEW op, NEW n, NEW src, NEW s, NEW at,
           Doing(p, op, n, src, s, at), NEW h, h = Head(s), NEW t, t = Tail(s),
           ChooseKey(p)
    PROVE  Core'
<1>1. PICK u : GoesOn(p, op, n, src, u, "out")
  BY ChooseKeyDoes DEF Core
<1>2. UNCHANGED <<row, images, archive, saved, up, stale>> /\ h = "key"
  BY ChooseKeyDoes DEF Core
<1>3. HasImage(s)
  BY <1>2, SessionImage
<1>4. row' \in [Names -> {"none", "creating", "running", "frozen"}] /\ up' \subseteq Names
  BY <1>2 DEF Core, DataTyped
<1> QED
  BY <1>1, <1>2, <1>3, <1>4, CoreUnchanged

LEMMA MountCore ==
    ASSUME Core, NEW p \in Procs, NEW op, NEW n, NEW src, NEW s, NEW at,
           Doing(p, op, n, src, s, at), NEW h, h = Head(s), NEW t, t = Tail(s),
           Mount(p)
    PROVE  Core'
<1>1. PICK u, to : GoesOn(p, op, n, src, u, to)
  BY MountDoes DEF Core
<1>2. UNCHANGED <<row, images, archive, saved, up, stale>> /\ h \in Sessions
  BY MountDoes DEF Core
<1>3. HasImage(s)
  BY <1>2, SessionImage
<1>4. row' \in [Names -> {"none", "creating", "running", "frozen"}] /\ up' \subseteq Names
  BY <1>2 DEF Core, DataTyped
<1> QED
  BY <1>1, <1>2, <1>3, <1>4, CoreUnchanged

\* What an edit that is broken off leaves is an image.
LEMMA BrokenTyped ==
    ASSUME Core, NEW n \in Names, NEW h, NEW at, h \in Sessions => images[n] \in Image
    PROVE  /\ \A i : Broken(n, h, at, i) => /\ i \in Image \cup {NoImage}
                                            /\ images[n] # NoImage => i # NoImage
           /\ \A k : KeyBroken(n, h, at, k) => k \in Keys
<1>1. images[n] \in Image \cup {NoImage} /\ saved[n] \in Keys
  BY DEF Core, DataTyped
<1>2. \A k : KeyBroken(n, h, at, k) => k \in Keys
  BY <1>1, ImageFacts DEF KeyBroken
<1>3. ASSUME NEW i, Broken(n, h, at, i)
      PROVE  i \in Image \cup {NoImage} /\ (images[n] # NoImage => i # NoImage)
  <2>1. CASE i = images[n]
    BY <1>1, <2>1
  <2>2. CASE h = "init" /\ i = [images[n] EXCEPT !.init = "none"]
    <3>1. images[n] \in Image
      BY <2>2 DEF Sessions
    <3> QED
      BY <2>2, <3>1, ImageFacts
  <2>3. CASE h \in {"generate", "reuse"} /\ i = [images[n] EXCEPT !.key = Torn]
    <3>1. images[n] \in Image
      BY <2>3 DEF Sessions
    <3> QED
      BY <2>3, <3>1, ImageFacts
  <2> QED
    BY <1>3, <2>1, <2>2, <2>3 DEF Broken
<1> QED
  BY <1>2, <1>3

LEMMA EditCore ==
    ASSUME Core, NEW p \in Procs, NEW op, NEW n, NEW src, NEW s, NEW at,
           Doing(p, op, n, src, s, at), NEW h, h = Head(s), NEW t, t = Tail(s),
           Edit(p)
    PROVE  Core'
<1>1. PICK to \in {"done", "failed"} : GoesOn(p, op, n, src, s, to) /\ Edits(op, n, h, to)
  BY EditDoes DEF Core
<1>2. UNCHANGED <<row, archive, up, stale>> /\ h \in Sessions
  BY EditDoes DEF Core
<1>3. images[n] \in Image /\ images[n] # NoImage /\ n \in Names
  BY <1>2, SessionImage
<1>4. images \in [Names -> Image \cup {NoImage}] /\ saved \in [Names -> Keys]
  BY DEF Core, DataTyped
<1>5. /\ \E i \in Image : images' = [images EXCEPT ![n] = i]
      /\ \E k \in Keys : saved' = [saved EXCEPT ![n] = k]
  <2>0. images = [images EXCEPT ![n] = images[n]] /\ saved = [saved EXCEPT ![n] = saved[n]] /\ saved[n] \in Keys
    BY <1>3, <1>4
  <2>1. CASE /\ images' = [images EXCEPT ![n] = [images[n] EXCEPT !.init = "umu"]]
             /\ saved' = saved
    BY <1>3, <2>0, <2>1, ImageFacts
  <2>2. CASE /\ \E k \in Keys : images' = [images EXCEPT ![n] = [images[n] EXCEPT !.key = k]]
             /\ saved' = saved
    BY <1>3, <2>0, <2>2, ImageFacts
  <2>3. CASE saved' = [saved EXCEPT ![n] = images[n].key] /\ images' = images
    <3>1. images[n].key \in Keys
      BY <1>3 DEF Image
    <3> QED
      BY <1>3, <2>0, <2>3, <3>1
  <2>4. CASE images' = images /\ saved' = saved
    BY <1>3, <2>0, <2>4
  <2>5. CASE /\ \E i : Broken(n, h, "in", i) /\ images' = [images EXCEPT ![n] = i]
             /\ \E k : KeyBroken(n, h, "in", k) /\ saved' = [saved EXCEPT ![n] = k]
    <3>1. PICK i, k : /\ Broken(n, h, "in", i) /\ images' = [images EXCEPT ![n] = i]
                      /\ KeyBroken(n, h, "in", k) /\ saved' = [saved EXCEPT ![n] = k]
      BY <2>5
    <3>2. i \in Image \cup {NoImage} /\ i # NoImage /\ k \in Keys
      BY <1>3, <3>1, BrokenTyped
    <3> QED
      BY <3>1, <3>2
  <2>6. \/ /\ images' = [images EXCEPT ![n] = [images[n] EXCEPT !.init = "umu"]]
           /\ saved' = saved
        \/ /\ \E k \in Keys : images' = [images EXCEPT ![n] = [images[n] EXCEPT !.key = k]]
           /\ saved' = saved
        \/ saved' = [saved EXCEPT ![n] = images[n].key] /\ images' = images
        \/ images' = images /\ saved' = saved
        \/ /\ \E i : Broken(n, h, "in", i) /\ images' = [images EXCEPT ![n] = i]
           /\ \E k : KeyBroken(n, h, "in", k) /\ saved' = [saved EXCEPT ![n] = k]
    <3>1. FreshKeys \subseteq Keys /\ saved[n] \in Keys
      BY <2>0, ImageFacts
    <3> QED
      BY <1>1, <3>1 DEF Edits
  <2> QED
    BY <2>1, <2>2, <2>3, <2>4, <2>5, <2>6
<1>6. /\ images' \in [Names -> Image \cup {NoImage}] /\ saved' \in [Names -> Keys]
      /\ \A m \in Names \ {n} : images'[m] = images[m]
      /\ images'[n] # NoImage
  BY <1>3, <1>4, <1>5, ImageFacts
<1>7. DataTyped'
  BY <1>2, <1>6 DEF Core, DataTyped
<1> QED
  BY <1>1, <1>6, <1>7, CoreStep

LEMMA UnmountCore ==
    ASSUME Core, NEW p \in Procs, NEW op, NEW n, NEW src, NEW s, NEW at,
           Doing(p, op, n, src, s, at), NEW h, h = Head(s), NEW t, t = Tail(s),
           Unmount(p)
    PROVE  Core'
<1>1. PICK u : GoesOn(p, op, n, src, u, "out")
  BY UnmountGoesOn DEF Core
<1>2. /\ UNCHANGED <<row, archive, saved, up>> /\ h \in Sessions
      /\ \/ UNCHANGED <<images, stale>>
         \/ /\ images' = [images EXCEPT ![n] = Wiped]
            /\ stale' = stale \cup {n}
  BY UnmountDoes DEF Core
<1>3. images[n] # NoImage /\ n \in Names
  BY <1>2, SessionImage
<1>4. images \in [Names -> Image \cup {NoImage}] /\ stale \subseteq Names
  BY DEF Core, DataTyped
<1>5. /\ images' \in [Names -> Image \cup {NoImage}] /\ stale' \subseteq Names
      /\ \A m \in Names \ {n} : images'[m] = images[m]
      /\ images'[n] # NoImage
  BY <1>2, <1>3, <1>4, ImageFacts
<1>6. DataTyped'
  BY <1>2, <1>5 DEF Core, DataTyped
<1> QED
  BY <1>1, <1>5, <1>6, CoreStep

LEMMA StartCore ==
    ASSUME Core, NEW p \in Procs, NEW op, NEW n, NEW src, NEW s, NEW at,
           Doing(p, op, n, src, s, at), NEW h, h = Head(s), NEW t, t = Tail(s),
           Start(p)
    PROVE  Core'
<1>1. PICK u : /\ GoesOn(p, op, n, src, u, "out") /\ GivesUp(u)
               /\ \/ /\ row' = [row EXCEPT ![n] = "running"]
                     /\ up' = up \cup {n}
                  \/ UNCHANGED <<row, up>>
  BY StartDoes DEF Core
<1>2. UNCHANGED <<images, archive, saved, stale>>
  BY StartDoes DEF Core
<1>3. n \in Names
  BY DEF Doing, Shaped
<1>4. row' \in [Names -> {"none", "creating", "running", "frozen"}] /\ up' \subseteq Names
  BY <1>1, <1>3 DEF Core, DataTyped
<1>5. ~HasImage(u)
  BY <1>1, GivesUpHasImage
<1> QED
  BY <1>1, <1>2, <1>4, <1>5, CoreUnchanged

LEMMA UndoHasNoImage ==
    ASSUME Core, NEW p \in Procs, NEW op, NEW n, NEW src, NEW s, NEW at,
           Doing(p, op, n, src, s, at), NEW h, h = Head(s), NEW t, t = Tail(s),
           h \in {"undisk", "unrow"}
    PROVE  ~Has(s, "start") /\ ~Has(t, "start") /\ ~HasImage(s) /\ ~HasImage(t)
<1>1. Sees(p, op, n, src, s, at, h, t)
  BY Begun DEF Core
<1> QED
  BY <1>1 DEF Sees, Leads, HasImage, Without

LEMMA UndoCore ==
    ASSUME Core, NEW p \in Procs, NEW op, NEW n, NEW src, NEW s, NEW at,
           Doing(p, op, n, src, s, at), NEW h, h = Head(s), NEW t, t = Tail(s),
           Undo(p)
    PROVE  Core'
<1>1. /\ UNCHANGED <<archive, saved, up>> /\ h \in {"undisk", "unrow"}
      /\ GoesOn(p, op, n, src, t, "out")
      /\ \/ row' = row /\ images' = [images EXCEPT ![n] = NoImage] /\ stale' = stale \ {n}
         \/ UNCHANGED <<row, images, stale>>
         \/ row' = [row EXCEPT ![n] = "none"] /\ UNCHANGED <<images, stale>>
  BY UndoDoes DEF Core
<1>2. n \in Names
  BY DEF Doing, Shaped
<1>3. ~HasImage(t)
  BY <1>1, UndoHasNoImage
<1>4. DataTyped' /\ \A m \in Names \ {n} : images'[m] = images[m]
  BY <1>1, <1>2 DEF Core, DataTyped
<1> QED
  BY <1>1, <1>3, <1>4, CoreStep

LEMMA CrashCore ==
    ASSUME Core, NEW p \in Procs, NEW op, NEW n, NEW src, NEW s, NEW at,
           Doing(p, op, n, src, s, at), NEW h, h = Head(s), NEW t, t = Tail(s),
           Crash(p)
    PROVE  Core'
<1>1. /\ UNCHANGED <<row, archive, up>>
      /\ GoesOn(p, op, n, src, <<>>, "out")
      /\ \E i : Broken(n, h, at, i) /\ images' = [images EXCEPT ![n] = i]
      /\ \E k : KeyBroken(n, h, at, k) /\ saved' = [saved EXCEPT ![n] = k]
      /\ stale' = IF at = "out" THEN stale ELSE stale \cup {n}
  BY CrashDoes DEF Core
<1>2. n \in Names
  BY DEF Doing, Shaped
<1>3. h \in Sessions => images[n] \in Image
  BY SessionImage
<1>4. PICK i, k : /\ Broken(n, h, at, i) /\ images' = [images EXCEPT ![n] = i]
                  /\ KeyBroken(n, h, at, k) /\ saved' = [saved EXCEPT ![n] = k]
  BY <1>1
<1>5. i \in Image \cup {NoImage} /\ k \in Keys
  BY <1>2, <1>3, <1>4, BrokenTyped
<1>6. /\ DataTyped' /\ \A m \in Names \ {n} : images'[m] = images[m]
      /\ ~HasImage(<<>>)
  BY <1>1, <1>2, <1>4, <1>5, EmptyHasNothing DEF Core, DataTyped, HasImage
<1> QED
  BY <1>1, <1>6, CoreStep

-----------------------------------------------------------------------------
(***************************************************************************)
(* Commands begin, and steps that no process takes.                        *)
(***************************************************************************)
\* What a process that was idle does now.
Begins(p, op, n, src, u) ==
    /\ op \in Ops /\ n \in Names
    /\ op # "clone" => src = NoName
    /\ op = "clone" => /\ src \in Names \ {n}
                       /\ row[src] = "frozen"
                       /\ images[n] = NoImage \/ OverLeftovers
    /\ cmd[p] = Idle
    /\ Free(n) /\ (src # NoName => Free(src))
    /\ row[n] = "none"
    /\ u = Plan[op]
    /\ cmd' = [cmd EXCEPT ![p] = [op |-> op, name |-> n, src |-> src, todo |-> u, image |-> "out"]]
    /\ UNCHANGED <<row, images, archive, saved, up, stale>>

LEMMA BeginCommandIs ==
    ASSUME NEW p \in Procs, BeginCommand(p)
    PROVE  \E op, n, src, u : Begins(p, op, n, src, u)
<1>1. CASE \E n \in Names : Begin(p, "deploy", n, NoName) \/ Begin(p, "load", n, NoName)
  <2>1. PICK n \in Names, op \in {"deploy", "load"} : Begin(p, op, n, NoName)
    BY <1>1
  <2>2. PICK u : u = Plan[op]
    OBVIOUS
  <2>3. Begins(p, op, n, NoName, u)
    BY <2>1, <2>2, OpsAre DEF Begin, Begins
  <2> QED
    BY <2>3
<1>2. CASE \E n \in Names : /\ images[n] = NoImage \/ OverLeftovers
                            /\ \E src \in Names \ {n} : row[src] = "frozen" /\ Begin(p, "clone", n, src)
  <2>0. PICK n \in Names : /\ images[n] = NoImage \/ OverLeftovers
                           /\ \E src \in Names \ {n} : row[src] = "frozen" /\ Begin(p, "clone", n, src)
    BY <1>2
  <2>1. PICK src \in Names \ {n} : row[src] = "frozen" /\ Begin(p, "clone", n, src)
    BY <2>0
  <2>2. PICK u : u = Plan["clone"]
    OBVIOUS
  <2>3. Begins(p, "clone", n, src, u)
    BY <2>0, <2>1, <2>2, OpsAre DEF Begin, Begins
  <2> QED
    BY <2>3
<1> QED
  BY <1>1, <1>2 DEF BeginCommand

LEMMA AfterBeginning ==
    ASSUME Commanding, NEW p \in Procs, NEW op, NEW n, NEW src, NEW u, Begins(p, op, n, src, u)
    PROVE  /\ Commanding'
           /\ \A q \in Procs \ {p} : cmd'[q] = cmd[q]
           /\ Doing(p, op, n, src, u, "out")'
           /\ \A q \in Procs \ {p} : cmd[q].todo # <<>> => cmd[q].name # n /\ cmd[q].src # n
           /\ u # <<>> /\ ~HasImage(u) /\ ~Has(u, "generate") /\ ~Has(u, "reuse")
<1>1. /\ u \in Seq(Steps) /\ u # <<>> /\ Fits(op, u)
      /\ ~Has(u, "generate") /\ ~Has(u, "reuse") /\ ~HasImage(u)
  BY PlanFits DEF Begins, HasImage
<1>2. Shaped(op, n, src, u, "out")
  BY <1>1 DEF Begins, Shaped, Places
<1>3. \A q \in Procs \ {p} : cmd'[q] = cmd[q]
  BY DEF Begins
<1>4. cmd'[p] = [op |-> op, name |-> n, src |-> src, todo |-> u, image |-> "out"]
  BY DEF Begins, Commanding
<1>5. cmd'[p] \in Command
  BY <1>2, <1>4 DEF Shaped, Command, Places
<1>6. /\ cmd'[p].op = op /\ cmd'[p].name = n /\ cmd'[p].src = src
      /\ cmd'[p].todo = u /\ cmd'[p].image = "out"
  BY <1>4
<1>7. Doing(p, op, n, src, u, "out")'
  BY <1>2, <1>6 DEF Doing
<1>8. cmd' \in [Procs -> Command \cup {Idle}]
  BY <1>4, <1>5 DEF Begins, Commanding
<1>9. AllShaped'
  <2> SUFFICES ASSUME NEW q \in Procs
               PROVE  /\ cmd'[q].todo = <<>> => cmd'[q] = Idle
                      /\ cmd'[q].todo # <<>>
                            => /\ cmd'[q] \in Command
                               /\ Shaped(cmd'[q].op, cmd'[q].name, cmd'[q].src, cmd'[q].todo, cmd'[q].image)
    BY DEF AllShaped
  <2>1. CASE q # p
    BY <1>3, <2>1 DEF Commanding, AllShaped
  <2>2. CASE q = p
    BY <1>1, <1>2, <1>5, <1>6, <2>2
  <2> QED
    BY <2>1, <2>2
<1>10. \A q \in Procs : cmd[q].name # n /\ cmd[q].src # n /\ (src # NoName => cmd[q].name # src)
  BY DEF Begins, Free
<1>11. \A q \in Procs : cmd[q].todo # <<>> => cmd[q].name # NoName
  BY NoNameAssumption DEF Commanding, AllShaped, Shaped
<1>12. Apart'
  <2> SUFFICES ASSUME NEW q \in Procs, NEW r \in Procs, q # r, cmd'[q].todo # <<>>, cmd'[r].todo # <<>>
               PROVE  cmd'[r].name \notin {cmd'[q].name, cmd'[q].src}
    BY DEF Apart
  <2>1. CASE q = p
    BY <1>3, <1>6, <1>10, <1>11, <2>1
  <2>2. CASE r = p
    BY <1>3, <1>6, <1>10, <2>2
  <2>3. CASE q # p /\ r # p
    BY <1>3, <2>3 DEF Commanding, Apart
  <2> QED
    BY <2>1, <2>2, <2>3
<1> QED
  BY <1>1, <1>3, <1>7, <1>8, <1>9, <1>10, <1>12 DEF Commanding

LEMMA BeginCore ==
    ASSUME Core, NEW p \in Procs, NEW op, NEW n, NEW src, NEW u, Begins(p, op, n, src, u)
    PROVE  Core'
<1>1. /\ Commanding'
      /\ \A q \in Procs \ {p} : cmd'[q] = cmd[q]
      /\ Doing(p, op, n, src, u, "out")'
      /\ ~HasImage(u)
  BY AfterBeginning DEF Core
<1>2. UNCHANGED <<row, images, archive, saved, up, stale>>
  BY DEF Begins
<1>3. Present'
  <2> SUFFICES ASSUME NEW q \in Procs, cmd'[q].todo # <<>>, HasImage(cmd'[q].todo)
               PROVE  images'[cmd'[q].name] # NoImage
    BY DEF Present
  <2>1. q # p
    BY <1>1 DEF Doing
  <2> QED
    BY <1>1, <1>2, <2>1 DEF Core, Present
<1>4. DataTyped'
  BY <1>2 DEF Core, DataTyped
<1> QED
  BY <1>1, <1>3, <1>4 DEF Core

\* Nothing but the project n changes, of which no command is at work.
LEMMA HostCore ==
    ASSUME Core, NEW n \in Names, Free(n), cmd' = cmd, DataTyped',
           \A m \in Names \ {n} : images'[m] = images[m]
    PROVE  Core'
<1>1. Commanding'
  BY DEF Core, Commanding, AllShaped, Apart
<1>2. Present'
  <2> SUFFICES ASSUME NEW q \in Procs, cmd[q].todo # <<>>, HasImage(cmd[q].todo)
               PROVE  images'[cmd[q].name] # NoImage
    BY DEF Present
  <2>1. cmd[q].name \in Names \ {n}
    BY DEF Core, Commanding, AllShaped, Shaped, Free
  <2> QED
    BY <2>1 DEF Core, Present
<1> QED
  BY <1>1, <1>2 DEF Core

LEMMA FreezeCore ==
    ASSUME Core, NEW n \in Names, Free(n), Freeze(n)
    PROVE  Core'
<1>1. DataTyped'
  BY DEF Core, DataTyped, Freeze
<1> QED
  BY <1>1, HostCore DEF Freeze

LEMMA UnfreezeCore ==
    ASSUME Core, NEW n \in Names, Free(n), Unfreeze(n)
    PROVE  Core'
<1>1. DataTyped'
  BY DEF Core, DataTyped, Unfreeze
<1> QED
  BY <1>1, HostCore DEF Unfreeze

LEMMA PushCore ==
    ASSUME Core, NEW n \in Names, Free(n), Push(n)
    PROVE  Core'
<1>1. DataTyped'
  BY DEF Core, DataTyped, Push
<1> QED
  BY <1>1, HostCore DEF Push

LEMMA DestroyCore ==
    ASSUME Core, NEW n \in Names, Free(n), Destroy(n)
    PROVE  Core'
<1>1. \/ UNCHANGED <<images, stale>>
      \/ images' = [images EXCEPT ![n] = NoImage] /\ stale' = stale \ {n}
  BY DEF Destroy, RemoveImage, Put
<1>2. /\ row' = [row EXCEPT ![n] = "none"] /\ up' = up \ {n}
      /\ UNCHANGED <<archive, saved, cmd>>
  BY DEF Destroy
<1>3. DataTyped' /\ \A m \in Names \ {n} : images'[m] = images[m]
  BY <1>1, <1>2 DEF Core, DataTyped
<1> QED
  BY <1>2, <1>3, HostCore

LEMMA RebootCore ==
    ASSUME Core, Reboot
    PROVE  Core'
<1>1. DataTyped'
  BY DEF Core, DataTyped, Reboot
<1>2. Commanding'
  BY DEF Core, Commanding, AllShaped, Apart, Reboot
<1> QED
  BY <1>1, <1>2 DEF Core, Present, Reboot

\* The processes' steps, for whatever such a step preserves.
LEMMA ProcessStep ==
    ASSUME Core, NEW p \in Procs,
           \/ Register(p) \/ Copy(p) \/ Pull(p) \/ Session(p) \/ Start(p) \/ Undo(p) \/ Crash(p)
    PROVE  \E op, n, src, s, at : Doing(p, op, n, src, s, at)
<1>1. cmd[p].todo # <<>>
  <2>1. \A x : At(p, x) => cmd[p].todo # <<>>
    BY DEF At
  <2>2. CASE Crash(p)
    BY <2>2 DEF Crash, Core, Commanding, AllShaped
  <2>3. CASE Edit(p)
    BY <2>1, <2>3 DEF Edit, InSession
  <2>4. CASE Mount(p) \/ Unmount(p) \/ ChooseKey(p)
    BY <2>1, <2>4 DEF Mount, Unmount, ChooseKey
  <2>5. CASE Register(p) \/ Copy(p) \/ Pull(p) \/ Start(p) \/ Undo(p)
    BY <2>1, <2>5 DEF Register, Copy, Pull, Start, Undo
  <2> QED
    BY <2>2, <2>3, <2>4, <2>5 DEF Session
<1> QED
  BY <1>1, SomethingIsDone DEF Core

LEMMA ProcessCore ==
    ASSUME Core, NEW p \in Procs,
           \/ Register(p) \/ Copy(p) \/ Pull(p) \/ Session(p) \/ Start(p) \/ Undo(p) \/ Crash(p)
    PROVE  Core'
<1>1. PICK op, n, src, s, at : Doing(p, op, n, src, s, at)
  BY ProcessStep
<1>2. PICK h, t : h = Head(s) /\ t = Tail(s)
  OBVIOUS
<1>3. CASE Register(p)
  BY <1>1, <1>2, <1>3, RegisterCore
<1>4. CASE Copy(p)
  BY <1>1, <1>2, <1>4, CopyCore
<1>5. CASE Pull(p)
  BY <1>1, <1>2, <1>5, PullCore
<1>6. CASE ChooseKey(p)
  BY <1>1, <1>2, <1>6, ChooseKeyCore
<1>7. CASE Mount(p)
  BY <1>1, <1>2, <1>7, MountCore
<1>8. CASE Edit(p)
  BY <1>1, <1>2, <1>8, EditCore
<1>9. CASE Unmount(p)
  BY <1>1, <1>2, <1>9, UnmountCore
<1>10. CASE Start(p)
  BY <1>1, <1>2, <1>10, StartCore
<1>11. CASE Undo(p)
  BY <1>1, <1>2, <1>11, UndoCore
<1>12. CASE Crash(p)
  BY <1>1, <1>2, <1>12, CrashCore
<1> QED
  BY <1>3, <1>4, <1>5, <1>6, <1>7, <1>8, <1>9, <1>10, <1>11, <1>12 DEF Session

LEMMA CoreInit == Init => Core
<1> SUFFICES ASSUME Init PROVE Core
  OBVIOUS
<1>1. DataTyped
  <2>1. NoImage \in Image \cup {NoImage} /\ NoKey \in Keys
    BY ImageFacts
  <2> QED
    BY <2>1 DEF Init, DataTyped
<1>2. \A p \in Procs : cmd[p] = Idle /\ cmd[p].todo = <<>>
  BY DEF Init, Idle
<1>3. cmd \in [Procs -> Command \cup {Idle}]
  BY DEF Init
<1> QED
  BY <1>1, <1>2, <1>3 DEF Core, Commanding, AllShaped, Apart, Present

LEMMA CoreNext ==
    ASSUME Core, [Next]_vars
    PROVE  Core'
<1>1. ASSUME NEW p \in Procs, BeginCommand(p) PROVE Core'
  <2>1. PICK op, n, src, u : Begins(p, op, n, src, u)
    BY <1>1, BeginCommandIs
  <2> QED
    BY <2>1, BeginCore
<1>2. ASSUME NEW n \in Names, Free(n), Freeze(n) \/ Unfreeze(n) \/ Push(n) \/ Destroy(n) PROVE Core'
  BY <1>2, FreezeCore, UnfreezeCore, PushCore, DestroyCore
<1>3. CASE UNCHANGED vars
  BY <1>3 DEF vars, Core, DataTyped, Commanding, AllShaped, Apart, Present
<1> QED
  BY <1>1, <1>2, <1>3, ProcessCore, RebootCore DEF Next

\* The types hold whatever fails or is killed: what is written into an image
\* finds one, as nobody else removes it, and what a failed command has left to
\* do is of the steps that there are.
THEOREM TypeCorrect == Spec => []TypeOK
<1>1. Core => TypeOK
  BY DEF Core, DataTyped, Commanding, TypeOK
<1> QED
  BY <1>1, CoreInit, CoreNext, PTL DEF Spec

-----------------------------------------------------------------------------
(***************************************************************************)
(* What a VM runs on.                                                      *)
(***************************************************************************)
\* The failure that is excluded: an umount that fails, which nobody notices.
UnmountsWork == \A op \in Ops, step \in Sessions : <<op, step, "umount">> \notin MayFail

\* The image a command is making: of a clone there is none before it is copied,
\* and one that is there has umu-init, or is going to get it.
ImageInOrder(op, n, src, s, at) ==
    /\ row[n] \in {"none", "creating"}
    /\ op = "clone" => row[src] = "frozen"
    /\ op = "clone" /\ Has(s, "copy") => images[n] = NoImage
    /\ HasImage(s)
         => /\ images[n] # NoImage /\ n \notin stale
            /\ images[n].init = "umu" \/ (Has(s, "init") /\ ~(Head(s) = "init" /\ at = "done"))

Settled(n) ==
    /\ n \in up => row[n] = "running"
    /\ row[n] \in {"running", "frozen"} => images[n].init = "umu" /\ n \notin stale
    /\ n \in stale => images[n] # NoImage
    /\ archive[n] # NoImage => archive[n].init = "umu"

Clean ==
    /\ \A p \in Procs : cmd[p].todo # <<>> =>
          ImageInOrder(cmd[p].op, cmd[p].name, cmd[p].src, cmd[p].todo, cmd[p].image)
    /\ \A n \in Names : Settled(n)

\* Only the project n changes.
Elsewhere(n) ==
    \A m \in Names \ {n} :
       /\ row'[m] = row[m] /\ images'[m] = images[m] /\ archive'[m] = archive[m]
       /\ saved'[m] = saved[m] /\ (m \in up' <=> m \in up) /\ (m \in stale' <=> m \in stale)

LEMMA OthersClean ==
    ASSUME Core, Clean, NEW n \in Names, Elsewhere(n), NEW P \in SUBSET Procs,
           \A q \in P : cmd'[q] = cmd[q] /\ (cmd[q].todo # <<>> => cmd[q].name # n /\ cmd[q].src # n)
    PROVE  /\ \A q \in P : cmd'[q].todo # <<>> =>
                 ImageInOrder(cmd[q].op, cmd[q].name, cmd[q].src, cmd[q].todo, cmd[q].image)'
           /\ \A m \in Names \ {n} : Settled(m)'
<1>1. ASSUME NEW m \in Names \ {n} PROVE Settled(m)'
  BY DEF Clean, Settled, Elsewhere
<1>2. ASSUME NEW m \in Names \ {n}, NEW op, NEW src, NEW s, NEW at, op = "clone" => src \in Names \ {n},
             ImageInOrder(op, m, src, s, at)
      PROVE  ImageInOrder(op, m, src, s, at)'
  BY <1>2 DEF ImageInOrder, Elsewhere
<1>3. ASSUME NEW q \in P, cmd'[q].todo # <<>>
      PROVE  ImageInOrder(cmd[q].op, cmd[q].name, cmd[q].src, cmd[q].todo, cmd[q].image)'
  <2>1. PICK op, m, src, s, at : /\ op = cmd[q].op /\ m = cmd[q].name /\ src = cmd[q].src
                                 /\ s = cmd[q].todo /\ at = cmd[q].image
    OBVIOUS
  <2>2. cmd'[q] = cmd[q] /\ s # <<>> /\ q \in Procs
    BY <1>3, <2>1
  <2>3. m \in Names \ {n} /\ (op = "clone" => src \in Names \ {n})
    BY <2>1, <2>2 DEF Core, Commanding, AllShaped, Shaped
  <2>4. ImageInOrder(op, m, src, s, at)
    BY <2>1, <2>2 DEF Clean
  <2>5. ImageInOrder(op, m, src, s, at)'
    BY <1>2, <2>3, <2>4
  <2>6. /\ op = cmd'[q].op /\ m = cmd'[q].name /\ src = cmd'[q].src
        /\ s = cmd'[q].todo /\ at = cmd'[q].image
    BY <2>1, <2>2
  <2> QED
    BY ONLY <2>5, <2>6 DEF ImageInOrder
<1> QED
  BY <1>1, <1>3

LEMMA CleanStep ==
    ASSUME Core, Clean, NEW p \in Procs, NEW op, NEW n \in Names, NEW src, NEW u, NEW to, Elsewhere(n),
           \A q \in Procs \ {p} : cmd'[q] = cmd[q],
           \A q \in Procs \ {p} : cmd[q].todo # <<>> => cmd[q].name # n /\ cmd[q].src # n,
           cmd'[p].todo # <<>> => Doing(p, op, n, src, u, to)' /\ ImageInOrder(op, n, src, u, to)',
           Settled(n)'
    PROVE  Clean'
<1>1. /\ \A q \in Procs \ {p} : cmd'[q].todo # <<>> =>
            ImageInOrder(cmd[q].op, cmd[q].name, cmd[q].src, cmd[q].todo, cmd[q].image)'
      /\ \A m \in Names \ {n} : Settled(m)'
  BY OthersClean
<1>2. cmd'[p].todo # <<>> =>
         ImageInOrder(cmd[p].op, cmd[p].name, cmd[p].src, cmd[p].todo, cmd[p].image)'
  <2> SUFFICES ASSUME cmd'[p].todo # <<>>
               PROVE  ImageInOrder(cmd[p].op, cmd[p].name, cmd[p].src, cmd[p].todo, cmd[p].image)'
    OBVIOUS
  <2>1. ImageInOrder(op, n, src, u, to)'
    OBVIOUS
  <2>2. /\ op = cmd'[p].op /\ n = cmd'[p].name /\ src = cmd'[p].src
        /\ u = cmd'[p].todo /\ to = cmd'[p].image
    BY DEF Doing
  <2> QED
    BY ONLY <2>1, <2>2 DEF ImageInOrder
<1> QED
  BY <1>1, <1>2 DEF Clean

LEMMA CleanGoesOn ==
    ASSUME Core, Clean, NEW p \in Procs, NEW op, NEW n, NEW src, NEW s, NEW at,
           Doing(p, op, n, src, s, at), NEW u, NEW to, GoesOn(p, op, n, src, u, to), Elsewhere(n),
           u # <<>> => ImageInOrder(op, n, src, u, to)', Settled(n)'
    PROVE  Clean'
<1>1. /\ \A q \in Procs \ {p} : cmd'[q] = cmd[q]
      /\ u = <<>> => cmd'[p] = Idle
      /\ u # <<>> => Doing(p, op, n, src, u, to)'
      /\ \A q \in Procs \ {p} : cmd[q].todo # <<>> => cmd[q].name # n /\ cmd[q].src # n
  BY AfterGoingOn DEF Core
<1>2. cmd'[p].todo # <<>> => u # <<>>
  BY <1>1 DEF Idle
<1>3. n \in Names
  BY DEF Doing, Shaped
<1> QED
  BY <1>1, <1>2, <1>3, CleanStep

LEMMA InOrder ==
    ASSUME Core, Clean, NEW p \in Procs, NEW op, NEW n, NEW src, NEW s, NEW at,
           Doing(p, op, n, src, s, at)
    PROVE  /\ ImageInOrder(op, n, src, s, at) /\ Settled(n) /\ n \in Names
           /\ op = "clone" => src \in Names \ {n} /\ Settled(src)
<1>1. /\ n \in Names /\ s # <<>> /\ (op = "clone" => src \in Names \ {n})
      /\ cmd[p].op = op /\ cmd[p].name = n /\ cmd[p].src = src /\ cmd[p].todo = s /\ cmd[p].image = at
  BY DEF Doing, Shaped
<1>2. ImageInOrder(cmd[p].op, cmd[p].name, cmd[p].src, cmd[p].todo, cmd[p].image)
  BY <1>1 DEF Clean
<1> QED
  BY <1>1, <1>2 DEF Clean

\* After the first sessions an image has umu-init.
Fitted(n, s, at, h, t) ==
    /\ HasImage(s) /\ images[n] # NoImage /\ n \notin stale
    /\ ~Has(t, "copy") /\ ~Has(t, "pull") /\ ~Has(t, "init")
    /\ h # "init" \/ at = "done" => images[n].init = "umu"
    /\ h = "init" => Has(s, "init")

LEMMA SessionInOrder ==
    ASSUME Core, Clean, NEW p \in Procs, NEW op, NEW n, NEW src, NEW s, NEW at,
           Doing(p, op, n, src, s, at), NEW h, h = Head(s), NEW t, t = Tail(s),
           h \in Sessions \cup {"key", "start"}
    PROVE  Fitted(n, s, at, h, t)
<1>1. Sees(p, op, n, src, s, at, h, t)
  BY Begun DEF Core
<1>2. /\ ~Has(t, "copy") /\ ~Has(t, "pull") /\ ~Has(t, "init") /\ HasImage(s) /\ Has(s, h)
  BY <1>1 DEF Sees, Leads, Without, HasImage, Sessions
<1>3. h # "init" => ~Has(s, "init")
  BY <1>1, <1>2 DEF Sees, Without
<1>4. ImageInOrder(op, n, src, s, at)
  BY InOrder
<1> QED
  BY <1>2, <1>3, <1>4 DEF ImageInOrder, Fitted

LEMMA RemainsInOrder ==
    ASSUME Core, Clean, NEW p \in Procs, NEW op, NEW n, NEW src, NEW s, NEW at,
           Doing(p, op, n, src, s, at), NEW h, h = Head(s), NEW t, t = Tail(s),
           NEW u, Remains(op, h, t, u), ~GivesUp(u)
    PROVE  images[n] # NoImage /\ n \notin stale /\ images[n].init = "umu" /\ ~Has(u, "copy")
<1>1. Sees(p, op, n, src, s, at, h, t)
  BY Begun DEF Core
<1>2. h \in Sessions \ {"init"}
  BY DEF Remains
<1>90. Fitted(n, s, at, h, t)
  BY <1>2, SessionInOrder
<1>3. images[n] # NoImage /\ n \notin stale /\ images[n].init = "umu" /\ ~Has(t, "copy")
  BY <1>2, <1>90 DEF Fitted, Sessions
<1>4. CASE u = t
  BY <1>3, <1>4
<1>5. CASE u = <<"name", "start">>
  BY <1>3, <1>5, NameStartFits
<1>6. CASE t # <<>> /\ u = Tail(t)
  <2>1. PICK k : k = Head(t)
    OBVIOUS
  <2>2. Without(t, k, u)
    BY <1>1, <1>6, <2>1, TailIsWithout DEF Sees
  <2> QED
    BY <1>3, <2>2 DEF Without
<1> QED
  BY <1>4, <1>5, <1>6 DEF Remains

\* A command that gives up, and the rest of one whose image has umu-init.
LEMMA GivesUpInOrder ==
    ASSUME NEW op, NEW n, NEW src, NEW s, NEW at, NEW u, NEW to, GivesUp(u),
           ImageInOrder(op, n, src, s, at), op = "clone" => row'[src] = row[src],
           row'[n] \in {"none", "creating"}
    PROVE  ImageInOrder(op, n, src, u, to)'
<1>1. ~Has(u, "copy") /\ ~HasImage(u)
  BY GivesUpHas DEF HasImage
<1> QED
  BY <1>1 DEF ImageInOrder

LEMMA MadeInOrder ==
    ASSUME NEW op, NEW n, NEW src, NEW s, NEW at, NEW u, NEW to,
           ImageInOrder(op, n, src, s, at), op = "clone" => row'[src] = row[src], row'[n] = row[n],
           ~Has(u, "copy"), images'[n] # NoImage, n \notin stale', images'[n].init = "umu"
    PROVE  ImageInOrder(op, n, src, u, to)'
BY DEF ImageInOrder

LEMMA SettledAlike ==
    ASSUME NEW n, Settled(n), images'[n] = images[n], archive'[n] = archive[n],
           row'[n] = row[n], n \in up' <=> n \in up, n \in stale' <=> n \in stale
    PROVE  Settled(n)'
BY DEF Settled

LEMMA RegisterClean ==
    ASSUME Core, Clean, NEW p \in Procs, NEW op, NEW n, NEW src, NEW s, NEW at,
           Doing(p, op, n, src, s, at), NEW h, h = Head(s), NEW t, t = Tail(s),
           Register(p)
    PROVE  Clean'
<1>1. PICK u : /\ GoesOn(p, op, n, src, u, "out")
               /\ \/ u = t /\ row' = [row EXCEPT ![n] = "creating"]
                  \/ GivesUp(u) /\ row' = row
  BY RegisterDoes DEF Core
<1>2. UNCHANGED <<images, archive, saved, up, stale>> /\ h = "register"
  BY RegisterDoes DEF Core
<1>3. Sees(p, op, n, src, s, at, h, t)
  BY Begun DEF Core
<1>4. /\ ImageInOrder(op, n, src, s, at) /\ Settled(n) /\ n \in Names
      /\ op = "clone" => src \in Names \ {n}
  BY InOrder
<1>5. /\ Elsewhere(n) /\ row'[n] \in {"none", "creating"}
      /\ op = "clone" => row'[src] = row[src]
  BY <1>1, <1>2, <1>4 DEF Core, DataTyped, Elsewhere, ImageInOrder
<1>6. Settled(n)'
  BY <1>2, <1>4, <1>5 DEF Settled, ImageInOrder
<1>7. CASE u = t
  <2>1. \A x : x # "register" => (Has(t, x) <=> Has(s, x))
    BY <1>2, <1>3 DEF Sees, Without
  <2>2. (HasImage(t) <=> HasImage(s)) /\ (Has(t, "copy") <=> Has(s, "copy")) /\ (Has(t, "init") <=> Has(s, "init"))
    BY <2>1 DEF HasImage
  <2>3. ImageInOrder(op, n, src, t, "out")'
    BY <1>2, <1>4, <1>5, <2>2 DEF ImageInOrder
  <2> QED
    BY <1>1, <1>5, <1>6, <1>7, <2>3, CleanGoesOn
<1>8. CASE GivesUp(u)
  <2>1. ImageInOrder(op, n, src, u, "out")'
    BY <1>4, <1>5, <1>8, GivesUpInOrder
  <2> QED
    BY <1>1, <1>5, <1>6, <2>1, CleanGoesOn
<1> QED
  BY <1>1, <1>7, <1>8

LEMMA CopyClean ==
    ASSUME Core, Clean, NEW p \in Procs, NEW op, NEW n, NEW src, NEW s, NEW at,
           Doing(p, op, n, src, s, at), NEW h, h = Head(s), NEW t, t = Tail(s),
           Copy(p)
    PROVE  Clean'
<1>1. PICK u : /\ GoesOn(p, op, n, src, u, "out")
               /\ \/ /\ u = t
                     /\ op = "clone" \/ images[n] = NoImage
                     /\ \E i : /\ i = IF op = "clone" THEN images[src] ELSE Base
                               /\ i # NoImage
                               /\ images' = [images EXCEPT ![n] = i]
                  \/ GivesUp(u) /\ images' = [images EXCEPT ![n] = Wiped]
                  \/ GivesUp(u) /\ images' = images
  BY CopyDoes DEF Core
<1>2. UNCHANGED <<row, archive, saved, up, stale>> /\ h = "copy"
  BY CopyDoes DEF Core
<1>3. Sees(p, op, n, src, s, at, h, t)
  BY Begun DEF Core
<1>4. /\ ImageInOrder(op, n, src, s, at) /\ Settled(n) /\ n \in Names
      /\ op = "clone" => src \in Names \ {n} /\ Settled(src)
  BY InOrder
<1>5. /\ Elsewhere(n) /\ row'[n] \in {"none", "creating"} /\ row'[n] = row[n]
      /\ op = "clone" => row'[src] = row[src]
  BY <1>1, <1>2, <1>4 DEF Core, DataTyped, Elsewhere, ImageInOrder
<1>6. n \notin up /\ row[n] \in {"none", "creating"}
  BY <1>4, <1>5 DEF Settled
<1>7. images \in [Names -> Image \cup {NoImage}]
  BY DEF Core, DataTyped
<1>8. CASE /\ u = t
           /\ op = "clone" \/ images[n] = NoImage
           /\ \E i : /\ i = IF op = "clone" THEN images[src] ELSE Base
                     /\ i # NoImage
                     /\ images' = [images EXCEPT ![n] = i]
  <2>1. PICK i : /\ i = IF op = "clone" THEN images[src] ELSE Base
                 /\ i # NoImage
                 /\ images' = [images EXCEPT ![n] = i]
    BY <1>8
  <2>2. images'[n] = i
    BY <1>4, <1>7, <2>1
  <2>3. Has(s, "copy") /\ ~Has(t, "copy") /\ (Has(s, "init") => Has(t, "init"))
    BY <1>2, <1>3 DEF Sees, Without
  <2>4. images[n] = NoImage /\ n \notin stale
    BY <1>4, <1>8, <2>3 DEF ImageInOrder, Settled
  <2>5. op = "clone" => i.init = "umu"
    BY <1>4, <2>1 DEF ImageInOrder, Settled
  <2>6. op # "clone" => Has(t, "init")
    BY <1>2, <1>3, <2>3 DEF Sees, Leads
  <2>7. ImageInOrder(op, n, src, t, "out")'
    BY <1>2, <1>4, <1>5, <2>1, <2>2, <2>3, <2>4, <2>5, <2>6 DEF ImageInOrder
  <2>8. Settled(n)'
    BY <1>2, <1>4, <1>6, <2>4 DEF Settled
  <2> QED
    BY <1>1, <1>5, <1>8, <2>7, <2>8, CleanGoesOn
<1>9. CASE GivesUp(u) /\ (images' = [images EXCEPT ![n] = Wiped] \/ images' = images)
  <2>1. ImageInOrder(op, n, src, u, "out")'
    BY <1>4, <1>5, <1>9, GivesUpInOrder
  <2>2. images'[n] # NoImage \/ images'[n] = images[n]
    BY <1>4, <1>7, <1>9, ImageFacts
  <2>3. Settled(n)'
    BY <1>2, <1>4, <1>6, <2>2 DEF Settled
  <2> QED
    BY <1>1, <1>5, <2>1, <2>3, CleanGoesOn
<1> QED
  BY <1>1, <1>8, <1>9

LEMMA PullClean ==
    ASSUME Core, Clean, NEW p \in Procs, NEW op, NEW n, NEW src, NEW s, NEW at,
           Doing(p, op, n, src, s, at), NEW h, h = Head(s), NEW t, t = Tail(s),
           Pull(p)
    PROVE  Clean'
<1>1. PICK u : /\ GoesOn(p, op, n, src, u, "out")
               /\ \/ /\ u = t
                     /\ archive[n] # NoImage
                     /\ images' = [images EXCEPT ![n] = archive[n]]
                     /\ stale' = stale \ {n}
                  \/ GivesUp(u) /\ UNCHANGED <<images, stale>>
  BY PullDoes DEF Core
<1>2. UNCHANGED <<row, archive, saved, up>> /\ h = "pull"
  BY PullDoes DEF Core
<1>3. Sees(p, op, n, src, s, at, h, t)
  BY Begun DEF Core
<1>4. /\ ImageInOrder(op, n, src, s, at) /\ Settled(n) /\ n \in Names
      /\ op = "clone" => src \in Names \ {n}
  BY InOrder
<1>5. /\ Elsewhere(n) /\ row'[n] \in {"none", "creating"} /\ row'[n] = row[n]
      /\ op = "clone" => row'[src] = row[src]
  BY <1>1, <1>2, <1>4 DEF Core, DataTyped, Elsewhere, ImageInOrder
<1>6. n \notin up /\ row[n] \in {"none", "creating"}
  BY <1>4, <1>5 DEF Settled
<1>7. images \in [Names -> Image \cup {NoImage}]
  BY DEF Core, DataTyped
<1>8. CASE /\ u = t
           /\ archive[n] # NoImage
           /\ images' = [images EXCEPT ![n] = archive[n]]
           /\ stale' = stale \ {n}
  <2>1. images'[n] # NoImage /\ images'[n].init = "umu" /\ n \notin stale'
    BY <1>4, <1>7, <1>8 DEF Settled
  <2>2. ~Has(t, "copy")
    BY <1>2, <1>3 DEF Sees, Leads
  <2>3. ImageInOrder(op, n, src, t, "out")'
    BY <1>4, <1>5, <2>1, <2>2, MadeInOrder
  <2>4. Settled(n)'
    BY <1>2, <1>4, <1>6, <2>1 DEF Settled
  <2> QED
    BY <1>1, <1>5, <1>8, <2>3, <2>4, CleanGoesOn
<1>9. CASE GivesUp(u) /\ UNCHANGED <<images, stale>>
  <2>1. ImageInOrder(op, n, src, u, "out")'
    BY <1>4, <1>5, <1>9, GivesUpInOrder
  <2>2. Settled(n)'
    BY <1>2, <1>4, <1>9, SettledAlike
  <2> QED
    BY <1>1, <1>5, <2>1, <2>2, CleanGoesOn
<1> QED
  BY <1>1, <1>8, <1>9

LEMMA ChooseKeyClean ==
    ASSUME Core, Clean, NEW p \in Procs, NEW op, NEW n, NEW src, NEW s, NEW at,
           Doing(p, op, n, src, s, at), NEW h, h = Head(s), NEW t, t = Tail(s),
           ChooseKey(p)
    PROVE  Clean'
<1>1. PICK u : GoesOn(p, op, n, src, u, "out") /\ KeyChosen(n, s, u)
  BY ChooseKeyDoes DEF Core
<1>2. UNCHANGED <<row, images, archive, saved, up, stale>> /\ h = "key"
  BY ChooseKeyDoes DEF Core
<1>3. /\ ImageInOrder(op, n, src, s, at) /\ Settled(n) /\ n \in Names
  BY InOrder
<1>90. Fitted(n, s, at, h, t)
  BY <1>2, SessionInOrder
<1>4. /\ images[n] # NoImage /\ n \notin stale /\ images[n].init = "umu" /\ HasImage(s)
  BY <1>2, <1>90 DEF Fitted, Sessions
<1>5. ~Has(u, "copy")
  BY <1>1, <1>4 DEF KeyChosen, HasImage
<1>6. ImageInOrder(op, n, src, u, "out")'
  BY <1>2, <1>3, <1>4, <1>5, MadeInOrder
<1>7. Settled(n)' /\ Elsewhere(n)
  BY <1>2, <1>3, SettledAlike DEF Elsewhere
<1> QED
  BY <1>1, <1>6, <1>7, CleanGoesOn

LEMMA RemainsClean ==
    ASSUME Core, Clean, NEW p \in Procs, NEW op, NEW n, NEW src, NEW s, NEW at,
           Doing(p, op, n, src, s, at), NEW h, h = Head(s), NEW t, t = Tail(s),
           NEW u, GoesOn(p, op, n, src, u, "out"), Remains(op, h, t, u),
           UNCHANGED <<row, images, archive, saved, up, stale>>
    PROVE  Clean'
<1>1. /\ ImageInOrder(op, n, src, s, at) /\ Settled(n) /\ n \in Names
  BY InOrder
<1>2. Settled(n)' /\ Elsewhere(n)
  BY <1>1, SettledAlike DEF Elsewhere
<1>3. CASE GivesUp(u)
  <2>1. row'[n] \in {"none", "creating"}
    BY <1>1 DEF ImageInOrder
  <2>2. ImageInOrder(op, n, src, u, "out")'
    BY <1>1, <1>3, <2>1, GivesUpInOrder
  <2> QED
    BY <1>2, <2>2, CleanGoesOn
<1>4. CASE ~GivesUp(u)
  <2>1. images[n] # NoImage /\ n \notin stale /\ images[n].init = "umu" /\ ~Has(u, "copy")
    BY <1>4, RemainsInOrder
  <2>2. ImageInOrder(op, n, src, u, "out")'
    BY <1>1, <2>1, MadeInOrder
  <2> QED
    BY <1>2, <2>2, CleanGoesOn
<1> QED
  BY <1>3, <1>4

LEMMA MountClean ==
    ASSUME Core, Clean, NEW p \in Procs, NEW op, NEW n, NEW src, NEW s, NEW at,
           Doing(p, op, n, src, s, at), NEW h, h = Head(s), NEW t, t = Tail(s),
           Mount(p)
    PROVE  Clean'
<1>1. /\ UNCHANGED <<row, images, archive, saved, up, stale>> /\ h \in Sessions
      /\ \/ GoesOn(p, op, n, src, s, "in")
         \/ \E u : GoesOn(p, op, n, src, u, "out") /\ Remains(op, h, t, u)
  BY MountDoes DEF Core
<1>2. CASE GoesOn(p, op, n, src, s, "in")
  <2>1. /\ ImageInOrder(op, n, src, s, at) /\ Settled(n) /\ n \in Names
    BY InOrder
  <2>2. ImageInOrder(op, n, src, s, "in")'
    BY <1>1, <2>1 DEF ImageInOrder
  <2>3. Settled(n)' /\ Elsewhere(n)
    BY <1>1, <2>1, SettledAlike DEF Elsewhere
  <2> QED
    BY <1>2, <2>2, <2>3, CleanGoesOn
<1>3. CASE \E u : GoesOn(p, op, n, src, u, "out") /\ Remains(op, h, t, u)
  BY <1>1, <1>3, RemainsClean
<1> QED
  BY <1>1, <1>2, <1>3

LEMMA EditClean ==
    ASSUME Core, Clean, NEW p \in Procs, NEW op, NEW n, NEW src, NEW s, NEW at,
           Doing(p, op, n, src, s, at), NEW h, h = Head(s), NEW t, t = Tail(s),
           Edit(p)
    PROVE  Clean'
<1>1. PICK to \in {"done", "failed"} : GoesOn(p, op, n, src, s, to) /\ Edits(op, n, h, to)
  BY EditDoes DEF Core
<1>2. UNCHANGED <<row, archive, up, stale>> /\ h \in Sessions /\ at = "in"
  BY EditDoes DEF Core
<1>3. images[n] \in Image /\ images[n] # NoImage /\ HasImage(s) /\ n \in Names
  BY <1>2, SessionImage
<1>4. images \in [Names -> Image \cup {NoImage}] /\ saved \in [Names -> Keys] /\ FreshKeys \subseteq Keys
  BY ImageFacts DEF Core, DataTyped
<1>5. /\ ImageInOrder(op, n, src, s, at) /\ Settled(n)
  BY InOrder
<1>90. Fitted(n, s, at, h, t)
  BY <1>2, SessionInOrder
<1>6. n \notin stale /\ (h # "init" => images[n].init = "umu") /\ (h = "init" => Has(s, "init"))
  BY <1>2, <1>90 DEF Fitted, Sessions
<1>7. /\ \E i \in Image :
            /\ images' = [images EXCEPT ![n] = i]
            /\ h = "init" => i.init = "umu" \/ to # "done"
            /\ h # "init" => i.init = images[n].init
      /\ \A m \in Names \ {n} : saved'[m] = saved[m]
  <2>0. images = [images EXCEPT ![n] = images[n]] /\ saved[n] \in Keys
    BY <1>3, <1>4
  <2>1. CASE /\ h = "init"
             /\ images' = [images EXCEPT ![n] = [images[n] EXCEPT !.init = "umu"]]
             /\ saved' = saved
    <3>1. PICK i : i = [images[n] EXCEPT !.init = "umu"]
      OBVIOUS
    <3>2. i \in Image /\ i.init = "umu"
      BY <1>3, <3>1, ImageFacts
    <3> QED
      BY <2>1, <3>1, <3>2
  <2>2. CASE /\ h # "init"
             /\ \E k \in Keys : images' = [images EXCEPT ![n] = [images[n] EXCEPT !.key = k]]
             /\ saved' = saved
    <3>1. PICK k \in Keys : images' = [images EXCEPT ![n] = [images[n] EXCEPT !.key = k]]
      BY <2>2
    <3>2. PICK i : i = [images[n] EXCEPT !.key = k]
      OBVIOUS
    <3>3. i \in Image /\ i.init = images[n].init
      BY <1>3, <3>2, ImageFacts
    <3> QED
      BY <2>2, <3>1, <3>2, <3>3
  <2>3. CASE /\ h # "init"
             /\ images' = images
             /\ saved' = saved \/ saved' = [saved EXCEPT ![n] = images[n].key]
    BY <1>3, <1>4, <2>0, <2>3
  <2>4. CASE /\ to = "failed"
             /\ \E i : Broken(n, h, "in", i) /\ images' = [images EXCEPT ![n] = i]
             /\ \E k : saved' = [saved EXCEPT ![n] = k]
    <3>1. PICK i, k : /\ Broken(n, h, "in", i) /\ images' = [images EXCEPT ![n] = i]
                      /\ saved' = [saved EXCEPT ![n] = k]
      BY <2>4
    <3>2. i \in Image \cup {NoImage} /\ i # NoImage
      BY <1>3, <3>1, BrokenTyped
    <3>4. [images[n] EXCEPT !.key = Torn].init = images[n].init
      BY <1>3, ImageFacts
    <3>3. h # "init" => i.init = images[n].init
      BY <3>1, <3>4 DEF Broken
    <3> QED
      BY <1>4, <2>4, <3>1, <3>2, <3>3
  <2>6. \/ /\ h = "init"
           /\ images' = [images EXCEPT ![n] = [images[n] EXCEPT !.init = "umu"]]
           /\ saved' = saved
        \/ /\ h # "init"
           /\ \E k \in Keys : images' = [images EXCEPT ![n] = [images[n] EXCEPT !.key = k]]
           /\ saved' = saved
        \/ /\ h # "init"
           /\ images' = images
           /\ saved' = saved \/ saved' = [saved EXCEPT ![n] = images[n].key]
        \/ /\ to = "failed"
           /\ \E i : Broken(n, h, "in", i) /\ images' = [images EXCEPT ![n] = i]
           /\ \E k : saved' = [saved EXCEPT ![n] = k]
    BY <1>1, <1>4, <2>0 DEF Edits
  <2> QED
    BY <2>1, <2>2, <2>3, <2>4, <2>6
<1>8. PICK i \in Image : /\ images' = [images EXCEPT ![n] = i]
                         /\ h = "init" => i.init = "umu" \/ to # "done"
                         /\ h # "init" => i.init = images[n].init
  BY <1>7
<1>9. images'[n] = i /\ i # NoImage /\ Elsewhere(n)
  BY <1>2, <1>3, <1>4, <1>7, <1>8, ImageFacts DEF Elsewhere
<1>10. ~Has(s, "copy")
  BY <1>3 DEF HasImage
<1>11. ImageInOrder(op, n, src, s, to)'
  BY <1>2, <1>5, <1>6, <1>8, <1>9, <1>10 DEF ImageInOrder
<1>12. Settled(n)'
  BY <1>2, <1>5, <1>6, <1>9 DEF Settled, ImageInOrder
<1> QED
  BY <1>1, <1>9, <1>11, <1>12, CleanGoesOn

LEMMA UnmountClean ==
    ASSUME Core, Clean, NEW p \in Procs, NEW op, NEW n, NEW src, NEW s, NEW at,
           Doing(p, op, n, src, s, at), NEW h, h = Head(s), NEW t, t = Tail(s),
           Unmount(p), UnmountsWork
    PROVE  Clean'
<1>1. PICK u : GoesOn(p, op, n, src, u, "out") /\ Left(op, at, h, t, u)
  BY UnmountGoesOn DEF Core
<1>2. /\ UNCHANGED <<row, archive, saved, up>> /\ h \in Sessions
      /\ UNCHANGED <<images, stale>> \/ <<op, h, "umount">> \in MayFail
  BY UnmountDoes DEF Core
<1>3. UNCHANGED <<row, images, archive, saved, up, stale>>
  BY <1>2 DEF UnmountsWork, Doing, Shaped
<1>4. CASE at = "done" /\ u = t
  <2>1. /\ ImageInOrder(op, n, src, s, at) /\ Settled(n) /\ n \in Names
    BY InOrder
  <2>90. Fitted(n, s, at, h, t)
    BY <1>2, <1>4, SessionInOrder
  <2>2. /\ images[n] # NoImage /\ n \notin stale /\ images[n].init = "umu" /\ ~Has(t, "copy")
    BY <1>2, <1>4, <2>90 DEF Fitted, Sessions
  <2>3. ImageInOrder(op, n, src, t, "out")'
    BY <1>3, <2>1, <2>2, MadeInOrder
  <2>4. Settled(n)' /\ Elsewhere(n)
    BY <1>3, <2>1, SettledAlike DEF Elsewhere
  <2> QED
    BY <1>1, <1>4, <2>3, <2>4, CleanGoesOn
<1>5. CASE Remains(op, h, t, u)
  BY <1>1, <1>3, <1>5, RemainsClean
<1> QED
  BY <1>1, <1>4, <1>5 DEF Left

LEMMA StartClean ==
    ASSUME Core, Clean, NEW p \in Procs, NEW op, NEW n, NEW src, NEW s, NEW at,
           Doing(p, op, n, src, s, at), NEW h, h = Head(s), NEW t, t = Tail(s),
           Start(p)
    PROVE  Clean'
<1>1. PICK u : /\ GoesOn(p, op, n, src, u, "out") /\ GivesUp(u)
               /\ \/ /\ u = <<>>
                     /\ row' = [row EXCEPT ![n] = "running"]
                     /\ up' = up \cup {n}
                  \/ UNCHANGED <<row, up>>
  BY StartDoes DEF Core
<1>2. UNCHANGED <<images, archive, saved, stale>> /\ h = "start"
  BY StartDoes DEF Core
<1>3. /\ ImageInOrder(op, n, src, s, at) /\ Settled(n) /\ n \in Names
  BY InOrder
<1>90. Fitted(n, s, at, h, t)
  BY <1>2, SessionInOrder
<1>4. /\ images[n] # NoImage /\ n \notin stale /\ images[n].init = "umu"
  BY <1>2, <1>90 DEF Fitted, Sessions
<1>5. CASE UNCHANGED <<row, up>>
  <2>1. Remains(op, h, t, u)
    BY <1>1 DEF Remains
  <2> QED
    BY <1>1, <1>2, <1>5, <2>1, RemainsClean
<1>6. CASE /\ u = <<>>
           /\ row' = [row EXCEPT ![n] = "running"]
           /\ up' = up \cup {n}
  <2>1. Elsewhere(n) /\ row'[n] = "running"
    BY <1>2, <1>3, <1>6 DEF Core, DataTyped, Elsewhere
  <2>2. Settled(n)'
    BY <1>2, <1>3, <1>4, <2>1 DEF Settled
  <2> QED
    BY <1>1, <1>6, <2>1, <2>2, CleanGoesOn
<1> QED
  BY <1>1, <1>5, <1>6

LEMMA UndoClean ==
    ASSUME Core, Clean, NEW p \in Procs, NEW op, NEW n, NEW src, NEW s, NEW at,
           Doing(p, op, n, src, s, at), NEW h, h = Head(s), NEW t, t = Tail(s),
           Undo(p)
    PROVE  Clean'
<1>1. /\ UNCHANGED <<archive, saved, up>> /\ h \in {"undisk", "unrow"}
      /\ GoesOn(p, op, n, src, t, "out")
      /\ \/ row' = row /\ images' = [images EXCEPT ![n] = NoImage] /\ stale' = stale \ {n}
         \/ UNCHANGED <<row, images, stale>>
         \/ row' = [row EXCEPT ![n] = "none"] /\ UNCHANGED <<images, stale>>
  BY UndoDoes DEF Core
<1>2. /\ ImageInOrder(op, n, src, s, at) /\ Settled(n) /\ n \in Names
      /\ op = "clone" => src \in Names \ {n}
  BY InOrder
<1>3. Sees(p, op, n, src, s, at, h, t)
  BY Begun DEF Core
<1>4. ~HasImage(t) /\ ~Has(t, "copy")
  BY <1>1, <1>3, UndoHasNoImage DEF Sees, Leads, Without
<1>5. /\ Elsewhere(n) /\ row'[n] \in {"none", "creating"}
      /\ op = "clone" => row'[src] = row[src]
  BY <1>1, <1>2 DEF Core, DataTyped, Elsewhere, ImageInOrder
<1>6. ImageInOrder(op, n, src, t, "out")'
  BY <1>2, <1>4, <1>5 DEF ImageInOrder
<1>7. n \notin stale' \/ (images'[n] = images[n] /\ n \in stale)
  BY <1>1
<1>8. Settled(n)'
  BY <1>1, <1>2, <1>5, <1>7 DEF Settled, ImageInOrder
<1> QED
  BY <1>1, <1>5, <1>6, <1>8, CleanGoesOn

LEMMA CrashClean ==
    ASSUME Core, Clean, NEW p \in Procs, NEW op, NEW n, NEW src, NEW s, NEW at,
           Doing(p, op, n, src, s, at), NEW h, h = Head(s), NEW t, t = Tail(s),
           Crash(p)
    PROVE  Clean'
<1>1. /\ UNCHANGED <<row, archive, up>>
      /\ GoesOn(p, op, n, src, <<>>, "out")
      /\ \E i : Broken(n, h, at, i) /\ images' = [images EXCEPT ![n] = i]
      /\ \E k : KeyBroken(n, h, at, k) /\ saved' = [saved EXCEPT ![n] = k]
      /\ stale' = IF at = "out" THEN stale ELSE stale \cup {n}
  BY CrashDoes DEF Core
<1>2. /\ ImageInOrder(op, n, src, s, at) /\ Settled(n) /\ n \in Names
  BY InOrder
<1>3. PICK i, k : /\ Broken(n, h, at, i) /\ images' = [images EXCEPT ![n] = i]
                  /\ saved' = [saved EXCEPT ![n] = k]
  BY <1>1
<1>4. h \in Sessions => images[n] \in Image /\ images[n] # NoImage
  BY SessionImage
<1>5. images[n] # NoImage => i # NoImage
  BY <1>2, <1>3, <1>4, BrokenTyped
<1>6. at # "out" => h \in Sessions
  BY DEF Doing, Shaped
<1>7. images'[n] = i /\ Elsewhere(n)
  BY <1>1, <1>2, <1>3 DEF Core, DataTyped, Elsewhere
<1>8. n \in stale' => images'[n] # NoImage
  BY <1>1, <1>2, <1>4, <1>5, <1>6, <1>7 DEF Settled
<1>9. Settled(n)'
  BY <1>1, <1>2, <1>8 DEF Settled, ImageInOrder
<1> QED
  BY <1>1, <1>7, <1>9, CleanGoesOn

LEMMA ProcessClean ==
    ASSUME Core, Clean, UnmountsWork, NEW p \in Procs,
           \/ Register(p) \/ Copy(p) \/ Pull(p) \/ Session(p) \/ Start(p) \/ Undo(p) \/ Crash(p)
    PROVE  Clean'
<1>1. PICK op, n, src, s, at : Doing(p, op, n, src, s, at)
  BY ProcessStep
<1>2. PICK h, t : h = Head(s) /\ t = Tail(s)
  OBVIOUS
<1>3. CASE Register(p)
  BY <1>1, <1>2, <1>3, RegisterClean
<1>4. CASE Copy(p)
  BY <1>1, <1>2, <1>4, CopyClean
<1>5. CASE Pull(p)
  BY <1>1, <1>2, <1>5, PullClean
<1>6. CASE ChooseKey(p)
  BY <1>1, <1>2, <1>6, ChooseKeyClean
<1>7. CASE Mount(p)
  BY <1>1, <1>2, <1>7, MountClean
<1>8. CASE Edit(p)
  BY <1>1, <1>2, <1>8, EditClean
<1>9. CASE Unmount(p)
  BY <1>1, <1>2, <1>9, UnmountClean
<1>10. CASE Start(p)
  BY <1>1, <1>2, <1>10, StartClean
<1>11. CASE Undo(p)
  BY <1>1, <1>2, <1>11, UndoClean
<1>12. CASE Crash(p)
  BY <1>1, <1>2, <1>12, CrashClean
<1> QED
  BY <1>3, <1>4, <1>5, <1>6, <1>7, <1>8, <1>9, <1>10, <1>11, <1>12 DEF Session

LEMMA BeginClean ==
    ASSUME Core, Clean, ~OverLeftovers, NEW p \in Procs, NEW op, NEW n, NEW src, NEW u,
           Begins(p, op, n, src, u)
    PROVE  Clean'
<1>1. /\ \A q \in Procs \ {p} : cmd'[q] = cmd[q]
      /\ Doing(p, op, n, src, u, "out")'
      /\ \A q \in Procs \ {p} : cmd[q].todo # <<>> => cmd[q].name # n /\ cmd[q].src # n
      /\ ~HasImage(u)
  BY AfterBeginning DEF Core
<1>2. UNCHANGED <<row, images, archive, saved, up, stale>> /\ n \in Names
  BY DEF Begins
<1>3. ImageInOrder(op, n, src, u, "out")'
  BY <1>1, <1>2 DEF Begins, ImageInOrder
<1>4. Settled(n)
  BY <1>2 DEF Clean
<1>5. Settled(n)' /\ Elsewhere(n)
  BY <1>2, <1>4, SettledAlike DEF Elsewhere
<1> QED
  BY <1>1, <1>2, <1>3, <1>5, CleanStep

LEMMA HostClean ==
    ASSUME Core, Clean, NEW n \in Names, Free(n), cmd' = cmd, Elsewhere(n), Settled(n)'
    PROVE  Clean'
<1>1. \A q \in Procs : cmd'[q] = cmd[q] /\ (cmd[q].todo # <<>> => cmd[q].name # n /\ cmd[q].src # n)
  BY DEF Free
<1>2. /\ \A q \in Procs : cmd'[q].todo # <<>> =>
            ImageInOrder(cmd[q].op, cmd[q].name, cmd[q].src, cmd[q].todo, cmd[q].image)'
      /\ \A m \in Names \ {n} : Settled(m)'
  BY <1>1, OthersClean
<1> QED
  BY <1>2 DEF Clean

LEMMA FreezeClean ==
    ASSUME Core, Clean, NEW n \in Names, Free(n), Freeze(n)
    PROVE  Clean'
<1>1. Settled(n)
  BY DEF Clean
<1>2. Settled(n)' /\ Elsewhere(n) /\ cmd' = cmd
  BY <1>1 DEF Freeze, Settled, Elsewhere, Core, DataTyped
<1> QED
  BY <1>2, HostClean

LEMMA UnfreezeClean ==
    ASSUME Core, Clean, NEW n \in Names, Free(n), Unfreeze(n)
    PROVE  Clean'
<1>1. Settled(n)
  BY DEF Clean
<1>2. Settled(n)' /\ Elsewhere(n) /\ cmd' = cmd
  BY <1>1 DEF Unfreeze, Settled, Elsewhere, Core, DataTyped
<1> QED
  BY <1>2, HostClean

LEMMA PushClean ==
    ASSUME Core, Clean, NEW n \in Names, Free(n), Push(n)
    PROVE  Clean'
<1>1. Settled(n)
  BY DEF Clean
<1>2. Settled(n)' /\ Elsewhere(n) /\ cmd' = cmd
  BY <1>1 DEF Push, Settled, Elsewhere, Core, DataTyped
<1> QED
  BY <1>2, HostClean

LEMMA DestroyClean ==
    ASSUME Core, Clean, NEW n \in Names, Free(n), Destroy(n)
    PROVE  Clean'
<1>1. \/ UNCHANGED <<images, stale>>
      \/ images' = [images EXCEPT ![n] = NoImage] /\ stale' = stale \ {n}
  BY DEF Destroy, RemoveImage, Put
<1>2. /\ row' = [row EXCEPT ![n] = "none"] /\ up' = up \ {n}
      /\ UNCHANGED <<archive, saved, cmd>>
  BY DEF Destroy
<1>3. Settled(n)
  BY DEF Clean
<1>4. Elsewhere(n) /\ row'[n] = "none" /\ n \notin up'
  BY <1>1, <1>2 DEF Elsewhere, Core, DataTyped
<1>5. n \in stale' => images'[n] # NoImage
  BY <1>1, <1>3 DEF Settled
<1>6. Settled(n)'
  BY <1>2, <1>3, <1>4, <1>5 DEF Settled
<1> QED
  BY <1>2, <1>4, <1>6, HostClean

LEMMA RebootClean ==
    ASSUME Core, Clean, Reboot
    PROVE  Clean'
<1>1. \A p \in Procs : cmd'[p].todo = <<>>
  BY DEF Reboot, Idle
<1>2. \A n \in Names : Settled(n)'
  BY DEF Reboot, Clean, Settled
<1> QED
  BY <1>1, <1>2 DEF Clean

LEMMA CleanInit == Init => Clean
BY DEF Init, Clean, Settled, Idle

LEMMA CleanNext ==
    ASSUME UnmountsWork, ~OverLeftovers, Core, Clean, [Next]_vars
    PROVE  Clean'
<1>1. ASSUME NEW p \in Procs, BeginCommand(p) PROVE Clean'
  <2>1. PICK op, n, src, u : Begins(p, op, n, src, u)
    BY <1>1, BeginCommandIs
  <2> QED
    BY <2>1, BeginClean
<1>2. ASSUME NEW n \in Names, Free(n), Freeze(n) \/ Unfreeze(n) \/ Push(n) \/ Destroy(n) PROVE Clean'
  BY <1>2, FreezeClean, UnfreezeClean, PushClean, DestroyClean
<1>3. CASE UNCHANGED vars
  BY <1>3 DEF vars, Clean, ImageInOrder, Settled
<1> QED
  BY <1>1, <1>2, <1>3, ProcessClean, RebootClean DEF Next

LEMMA CleanBoots ==
    ASSUME Core, Clean
    PROVE  BootsCleanImage
<1> SUFFICES ASSUME NEW n \in up
             PROVE  images[n].init = "umu" /\ n \notin Mounted
  BY DEF BootsCleanImage
<1>1. n \in Names /\ Settled(n)
  BY DEF Core, DataTyped, Clean
<1>2. row[n] = "running" /\ images[n].init = "umu" /\ n \notin stale
  BY <1>1 DEF Settled
<1>3. ASSUME NEW q \in Procs, cmd[q].image # "out", cmd[q].name = n PROVE FALSE
  <2>1. cmd[q].todo # <<>>
    BY <1>3 DEF Core, Commanding, AllShaped, Idle
  <2>2. row[n] \in {"none", "creating"}
    BY <1>3, <2>1 DEF Clean, ImageInOrder
  <2> QED
    BY <1>2, <2>2
<1> QED
  BY <1>2, <1>3 DEF Mounted

\* A VM only ever runs on an image that has umu-init and that the host has not
\* mounted, unless an umount fails or a clone is given the name of a disk that
\* a killed command left: whatever else fails, every command and the host may
\* be killed, and keys may be cut off.
THEOREM ImagesAreClean ==
    ASSUME UnmountsWork, ~OverLeftovers
    PROVE  Spec => []BootsCleanImage
<1>1. Core /\ Clean /\ [Next]_vars => Core' /\ Clean'
  BY CoreNext, CleanNext
<1>2. Init => Core /\ Clean
  BY CoreInit, CleanInit
<1>3. Core /\ Clean => BootsCleanImage
  BY CleanBoots
<1> QED
  BY <1>1, <1>2, <1>3, PTL DEF Spec

-----------------------------------------------------------------------------
(***************************************************************************)
(* The host key of a VM.                                                   *)
(***************************************************************************)
\* The failures that are excluded: a key that does not get into an image which
\* has another one.
KeysGetIn ==
    \A part \in {"mount", "edit"} :
       /\ <<"clone", "generate", part>> \notin MayFail
       /\ <<"clone", "reuse", part>> \notin MayFail
       /\ <<"load", "reuse", part>> \notin MayFail

\* The image of a command that has s left to do has got its key, if it gets one.
HasKey(s, at) ==
    /\ HasImage(s)
    /\ ~Has(s, "key")
    /\ Has(s, "generate") \/ Has(s, "reuse") => at = "done"

KeySaved(n) == images[n].key = NoKey \/ saved[n] \in {NoKey, images[n].key}

KeyInOrder(op, n, s, at) ==
    /\ row[n] \in {"none", "creating"}
    /\ HasKey(s, at) => KeySaved(n)
    /\ op = "deploy" /\ HasImage(s) /\ ~HasKey(s, at) => images[n].key = NoKey
    /\ Has(s, "generate") => saved[n] = NoKey
    /\ Has(s, "reuse") => saved[n] # NoKey
    /\ at = "failed" /\ Has(s, "generate") => op # "clone"
    /\ at = "failed" /\ Has(s, "reuse") => op = "deploy"

KeySettled(n) ==
    /\ n \in up => row[n] = "running"
    /\ row[n] \in {"running", "frozen"} => KeySaved(n)
    /\ images[n].key # Torn /\ archive[n].key # Torn /\ saved[n] # Torn

\* The key in its image is a project's own, or will be: until then a clone has
\* that of its source.
Owned(op, s, at) == HasImage(s) /\ (op = "clone" => HasKey(s, at))

Mine(n) ==
    \/ row[n] \in {"running", "frozen"}
    \/ \E p \in Procs : /\ cmd[p].todo # <<>> /\ cmd[p].name = n
                        /\ Owned(cmd[p].op, cmd[p].todo, cmd[p].image)

Holds(n, k) == k = saved[n] \/ k = archive[n].key \/ (Mine(n) /\ k = images[n].key)

KeysApart == \A m, n \in Names : \A k : m # n /\ Holds(m, k) /\ Holds(n, k) => k = NoKey

Keyed ==
    /\ \A p \in Procs : cmd[p].todo # <<>> =>
          KeyInOrder(cmd[p].op, cmd[p].name, cmd[p].todo, cmd[p].image)
    /\ \A n \in Names : KeySettled(n)
    /\ KeysApart

\* Where the keys of a project may come from.
KeyFrom(n, k) == Holds(n, k) \/ k = NoKey \/ k \in FreshKeys

LEMMA FreshIsNobodys ==
    ASSUME NEW k \in FreshKeys, NEW m \in Names
    PROVE  ~Holds(m, k) /\ k # Torn
BY MaxKeyAssumption DEF FreshKeys, UsedKeys, Holds, Torn

LEMMA OthersKeyed ==
    ASSUME Core, Keyed, NEW n \in Names, Elsewhere(n), NEW P \in SUBSET Procs,
           \A q \in P : cmd'[q] = cmd[q] /\ (cmd[q].todo # <<>> => cmd[q].name # n /\ cmd[q].src # n)
    PROVE  /\ \A q \in P : cmd'[q].todo # <<>> =>
                 KeyInOrder(cmd[q].op, cmd[q].name, cmd[q].todo, cmd[q].image)'
           /\ \A m \in Names \ {n} : KeySettled(m)'
<1>1. ASSUME NEW m \in Names \ {n} PROVE KeySettled(m)'
  <2>1. KeySettled(m)
    BY DEF Keyed
  <2> QED
    BY <2>1 DEF KeySettled, KeySaved, Elsewhere
<1>2. ASSUME NEW m \in Names \ {n}, NEW op, NEW s, NEW at, KeyInOrder(op, m, s, at)
      PROVE  KeyInOrder(op, m, s, at)'
  BY <1>2 DEF KeyInOrder, KeySaved, Elsewhere
<1>3. ASSUME NEW q \in P, cmd'[q].todo # <<>>
      PROVE  KeyInOrder(cmd[q].op, cmd[q].name, cmd[q].todo, cmd[q].image)'
  <2>1. PICK op, m, s, at : op = cmd[q].op /\ m = cmd[q].name /\ s = cmd[q].todo /\ at = cmd[q].image
    OBVIOUS
  <2>2. cmd'[q] = cmd[q] /\ s # <<>> /\ q \in Procs
    BY <1>3, <2>1
  <2>3. m \in Names \ {n}
    BY <2>1, <2>2 DEF Core, Commanding, AllShaped, Shaped
  <2>4. KeyInOrder(op, m, s, at)
    BY <2>1, <2>2 DEF Keyed
  <2>5. KeyInOrder(op, m, s, at)'
    BY <1>2, <2>3, <2>4
  <2>6. op = cmd'[q].op /\ m = cmd'[q].name /\ s = cmd'[q].todo /\ at = cmd'[q].image
    BY <2>1, <2>2
  <2> QED
    BY ONLY <2>5, <2>6 DEF KeyInOrder, KeySaved
<1> QED
  BY <1>1, <1>3

\* The keys of the others stay theirs, and those of n come from where they may.
LEMMA StillApart ==
    ASSUME Keyed, NEW n \in Names, Elsewhere(n),
           \A m \in Names \ {n} : Mine(m)' => Mine(m),
           KeyFrom(n, saved'[n]), KeyFrom(n, archive'[n].key), Mine(n)' => KeyFrom(n, images'[n].key)
    PROVE  KeysApart'
<1>1. ASSUME NEW m \in Names \ {n}, NEW k, Holds(m, k)' PROVE Holds(m, k)
  <2>1. saved'[m] = saved[m] /\ archive'[m] = archive[m] /\ images'[m] = images[m]
    BY DEF Elsewhere
  <2> QED
    BY <1>1, <2>1 DEF Holds
<1>2. ASSUME NEW k, Holds(n, k)' PROVE KeyFrom(n, k)
  BY <1>2 DEF Holds
<1>3. ASSUME NEW m \in Names \ {n}, NEW k, Holds(m, k), KeyFrom(n, k) PROVE k = NoKey
  <2>1. CASE Holds(n, k)
    BY <1>3, <2>1 DEF Keyed, KeysApart
  <2>2. CASE k \in FreshKeys
    BY <1>3, <2>2, FreshIsNobodys
  <2> QED
    BY <1>3, <2>1, <2>2 DEF KeyFrom
<1>4. ASSUME NEW m \in Names, NEW l \in Names, NEW k, m # l, Holds(m, k)', Holds(l, k)'
      PROVE  k = NoKey
  <2>1. CASE m = n
    <3>1. KeyFrom(n, k) /\ l \in Names \ {n} /\ Holds(l, k)
      BY <1>1, <1>2, <1>4, <2>1
    <3> QED
      BY <1>3, <3>1
  <2>2. CASE l = n
    <3>1. KeyFrom(n, k) /\ m \in Names \ {n} /\ Holds(m, k)
      BY <1>1, <1>2, <1>4, <2>2
    <3> QED
      BY <1>3, <3>1
  <2>3. CASE m # n /\ l # n
    <3>1. Holds(m, k) /\ Holds(l, k)
      BY <1>1, <1>4, <2>3
    <3> QED
      BY <1>4, <3>1 DEF Keyed, KeysApart
  <2> QED
    BY <2>1, <2>2, <2>3
<1> QED
  BY <1>4 DEF KeysApart

LEMMA KeyedStep ==
    ASSUME Core, Keyed, NEW p \in Procs, NEW op, NEW n \in Names, NEW src, NEW u, NEW to, Elsewhere(n),
           \A q \in Procs \ {p} : cmd'[q] = cmd[q],
           \A q \in Procs \ {p} : cmd[q].todo # <<>> => cmd[q].name # n /\ cmd[q].src # n,
           cmd'[p].todo # <<>> => u # <<>> /\ Doing(p, op, n, src, u, to)' /\ KeyInOrder(op, n, u, to)',
           KeySettled(n)',
           KeyFrom(n, saved'[n]), KeyFrom(n, archive'[n].key),
           row'[n] \in {"running", "frozen"} \/ (u # <<>> /\ Owned(op, u, to))
              => KeyFrom(n, images'[n].key)
    PROVE  Keyed'
<1>1. /\ \A q \in Procs \ {p} : cmd'[q].todo # <<>> =>
            KeyInOrder(cmd[q].op, cmd[q].name, cmd[q].todo, cmd[q].image)'
      /\ \A m \in Names \ {n} : KeySettled(m)'
  BY OthersKeyed
<1>2. cmd'[p].todo # <<>> =>
         /\ op = cmd'[p].op /\ n = cmd'[p].name
         /\ u = cmd'[p].todo /\ to = cmd'[p].image
  BY DEF Doing
<1>3. cmd'[p].todo # <<>> =>
         KeyInOrder(cmd[p].op, cmd[p].name, cmd[p].todo, cmd[p].image)'
  <2> SUFFICES ASSUME cmd'[p].todo # <<>>
               PROVE  KeyInOrder(cmd[p].op, cmd[p].name, cmd[p].todo, cmd[p].image)'
    OBVIOUS
  <2>1. KeyInOrder(op, n, u, to)'
    OBVIOUS
  <2>2. op = cmd'[p].op /\ n = cmd'[p].name /\ u = cmd'[p].todo /\ to = cmd'[p].image
    BY <1>2
  <2> QED
    BY ONLY <2>1, <2>2 DEF KeyInOrder, KeySaved
<1>4. ASSUME NEW m \in Names \ {n}, Mine(m)' PROVE Mine(m)
  <2>1. row'[m] = row[m]
    BY DEF Elsewhere
  <2>2. CASE row'[m] \in {"running", "frozen"}
    BY <2>1, <2>2 DEF Mine
  <2>3. CASE \E q \in Procs : /\ cmd'[q].todo # <<>> /\ cmd'[q].name = m
                              /\ Owned(cmd'[q].op, cmd'[q].todo, cmd'[q].image)
    <3>1. PICK q \in Procs : /\ cmd'[q].todo # <<>> /\ cmd'[q].name = m
                             /\ Owned(cmd'[q].op, cmd'[q].todo, cmd'[q].image)
      BY <2>3
    <3>2. q # p
      BY <1>2, <3>1
    <3>3. cmd'[q] = cmd[q]
      BY <3>2
    <3> QED
      BY <3>1, <3>3 DEF Mine
  <2> QED
    BY <1>4, <2>2, <2>3 DEF Mine
<1>5. ASSUME Mine(n)' PROVE KeyFrom(n, images'[n].key)
  <2>1. CASE row'[n] \in {"running", "frozen"}
    BY <2>1
  <2>2. CASE \E q \in Procs : /\ cmd'[q].todo # <<>> /\ cmd'[q].name = n
                              /\ Owned(cmd'[q].op, cmd'[q].todo, cmd'[q].image)
    <3>1. PICK q \in Procs : /\ cmd'[q].todo # <<>> /\ cmd'[q].name = n
                             /\ Owned(cmd'[q].op, cmd'[q].todo, cmd'[q].image)
      BY <2>2
    <3>2. q = p
      BY <3>1
    <3> QED
      BY <1>2, <3>1, <3>2
  <2> QED
    BY <1>5, <2>1, <2>2 DEF Mine
<1>6. KeysApart'
  BY <1>4, <1>5, StillApart
<1> QED
  BY <1>1, <1>3, <1>6 DEF Keyed

LEMMA KeyedGoesOn ==
    ASSUME Core, Keyed, NEW p \in Procs, NEW op, NEW n, NEW src, NEW s, NEW at,
           Doing(p, op, n, src, s, at), NEW u, NEW to, GoesOn(p, op, n, src, u, to), Elsewhere(n),
           u # <<>> => KeyInOrder(op, n, u, to)', KeySettled(n)',
           KeyFrom(n, saved'[n]), KeyFrom(n, archive'[n].key),
           row'[n] \in {"running", "frozen"} \/ (u # <<>> /\ Owned(op, u, to))
              => KeyFrom(n, images'[n].key)
    PROVE  Keyed'
<1>1. /\ \A q \in Procs \ {p} : cmd'[q] = cmd[q]
      /\ u = <<>> => cmd'[p] = Idle
      /\ u # <<>> => Doing(p, op, n, src, u, to)'
      /\ \A q \in Procs \ {p} : cmd[q].todo # <<>> => cmd[q].name # n /\ cmd[q].src # n
  BY AfterGoingOn DEF Core
<1>2. cmd'[p].todo # <<>> => u # <<>>
  BY <1>1 DEF Idle
<1>3. n \in Names
  BY DEF Doing, Shaped
<1> QED
  BY <1>1, <1>2, <1>3, KeyedStep

\* What is known before a process takes a step.
Sorted(op, n, s, at) ==
    /\ KeyInOrder(op, n, s, at) /\ KeySettled(n) /\ n \in Names /\ n \notin up
    /\ KeyFrom(n, saved[n]) /\ KeyFrom(n, archive[n].key)
    /\ Owned(op, s, at) => KeyFrom(n, images[n].key)

LEMMA ItIsSorted ==
    ASSUME Core, Keyed, NEW p \in Procs, NEW op, NEW n, NEW src, NEW s, NEW at,
           Doing(p, op, n, src, s, at)
    PROVE  Sorted(op, n, s, at)
<1>1. /\ n \in Names /\ s # <<>>
      /\ cmd[p].op = op /\ cmd[p].name = n /\ cmd[p].todo = s /\ cmd[p].image = at
  BY DEF Doing, Shaped
<1>2. KeyInOrder(cmd[p].op, cmd[p].name, cmd[p].todo, cmd[p].image)
  BY <1>1 DEF Keyed
<1>3. KeyInOrder(op, n, s, at)
  BY <1>1, <1>2
<1>4. KeySettled(n)
  BY <1>1 DEF Keyed
<1>5. n \notin up
  BY <1>3, <1>4 DEF KeyInOrder, KeySettled
<1>6. Owned(op, s, at) => Mine(n)
  BY <1>1 DEF Mine
<1>7. KeyFrom(n, saved[n]) /\ KeyFrom(n, archive[n].key) /\ (Owned(op, s, at) => KeyFrom(n, images[n].key))
  BY <1>6 DEF KeyFrom, Holds
<1> QED
  BY <1>1, <1>3, <1>4, <1>5, <1>7 DEF Sorted

\* u and "to" have no more of a key than s and "at".
Keeps(op, s, at, u, to) ==
    /\ HasKey(u, to) => HasKey(s, at) \/ (op = "deploy" /\ HasImage(s)) \/ Has(s, "generate")
    /\ op = "deploy" /\ HasImage(u) /\ ~HasKey(u, to) => HasImage(s) /\ ~HasKey(s, at)
    /\ Has(u, "generate") => Has(s, "generate")
    /\ Has(u, "reuse") => Has(s, "reuse")
    /\ Owned(op, u, to) => Owned(op, s, at)
    /\ to = "failed" => /\ Has(u, "generate") => op # "clone"
                        /\ Has(u, "reuse") => op = "deploy"

LEMMA KeepsKeyed ==
    ASSUME Core, Keyed, NEW p \in Procs, NEW op, NEW n, NEW src, NEW s, NEW at,
           Doing(p, op, n, src, s, at), NEW u, NEW to, GoesOn(p, op, n, src, u, to), Elsewhere(n),
           Keeps(op, s, at, u, to), row'[n] \in {"none", "creating"}, UNCHANGED up,
           saved'[n] = saved[n], archive'[n] = archive[n],
           images'[n].key \in {images[n].key, NoKey}
    PROVE  Keyed'
<1>1. Sorted(op, n, s, at)
  BY ItIsSorted
<1>2. KeyInOrder(op, n, s, at) /\ KeySettled(n) /\ n \notin up /\ NoKey # Torn
  BY <1>1, MaxKeyAssumption DEF Sorted, NoKey, Torn
<1>3. HasKey(u, to) => KeySaved(n)'
  BY <1>2 DEF Keeps, KeyInOrder, KeySaved
<1>4. op = "deploy" /\ HasImage(u) /\ ~HasKey(u, to) => images'[n].key = NoKey
  BY <1>2 DEF Keeps, KeyInOrder
<1>5. KeyInOrder(op, n, u, to)'
  BY <1>2, <1>3, <1>4 DEF Keeps, KeyInOrder
<1>6. KeySettled(n)'
  BY <1>2 DEF KeySettled
<1>7. Owned(op, u, to) => KeyFrom(n, images'[n].key)
  BY <1>1 DEF Sorted, Keeps, KeyFrom
<1>8. KeyFrom(n, saved'[n]) /\ KeyFrom(n, archive'[n].key)
  BY <1>1 DEF Sorted
<1> QED
  BY <1>5, <1>6, <1>7, <1>8, KeyedGoesOn

\* No image is left to a command.
LEMMA NoMoreKeyed ==
    ASSUME Core, Keyed, NEW p \in Procs, NEW op, NEW n, NEW src, NEW s, NEW at,
           Doing(p, op, n, src, s, at), NEW u, GoesOn(p, op, n, src, u, "out"), Elsewhere(n),
           ~HasImage(u), ~Has(u, "generate"), ~Has(u, "reuse"),
           row'[n] \in {"none", "creating"}, UNCHANGED up,
           saved'[n] = saved[n], archive'[n] = archive[n], images'[n].key # Torn
    PROVE  Keyed'
<1>1. Sorted(op, n, s, at)
  BY ItIsSorted
<1>2. KeyInOrder(op, n, u, "out")'
  BY DEF KeyInOrder, HasKey
<1>3. KeySettled(n)'
  BY <1>1 DEF KeySettled, Sorted
<1>4. KeyFrom(n, saved'[n]) /\ KeyFrom(n, archive'[n].key) /\ ~Owned(op, u, "out")
  BY <1>1 DEF Sorted, Owned
<1> QED
  BY <1>2, <1>3, <1>4, KeyedGoesOn

LEMMA GivesUpNoKey ==
    ASSUME NEW u, GivesUp(u)
    PROVE  ~HasImage(u) /\ ~Has(u, "generate") /\ ~Has(u, "reuse")
<1>1. ~HasImage(u)
  BY GivesUpHasImage
<1>2. \A x : Has(u, x) => x \in {"undisk", "unrow"}
  BY GivesUpHas
<1> QED
  BY <1>1, <1>2

\* A step is done, a session is begun, and a session failed.
LEMMA TailKeeps ==
    ASSUME NEW op, NEW s, NEW at, NEW h, NEW t, Leads(op, s, h, t), Without(s, h, t), Has(s, h),
           h \notin {"copy", "pull", "key"}, h \in {"generate", "reuse"} => at = "done"
    PROVE  Keeps(op, s, at, t, "out")
<1>1. ~Has(t, "generate") /\ ~Has(t, "reuse")
  BY DEF Leads, Without
<1>2. HasImage(t) => HasImage(s)
  BY TailHasImage
<1>3. Has(t, "key") <=> Has(s, "key")
  BY DEF Without
<1>4. Has(s, "generate") \/ Has(s, "reuse") => at = "done"
  BY DEF Leads
<1>5. HasKey(t, "out") => HasKey(s, at)
  BY <1>2, <1>3, <1>4 DEF HasKey
<1>6. HasImage(t) /\ ~HasKey(t, "out") => HasImage(s) /\ ~HasKey(s, at)
  BY <1>1, <1>2, <1>3 DEF HasKey
<1>7. Owned(op, t, "out") => Owned(op, s, at)
  BY <1>2, <1>5 DEF Owned
<1> QED
  BY <1>1, <1>5, <1>6, <1>7 DEF Keeps

LEMMA SessionKeeps ==
    ASSUME NEW op, NEW s, NEW at, NEW to, at # "done",
           to = "done" => ~Has(s, "generate") /\ ~Has(s, "reuse"),
           to = "failed" => (Has(s, "generate") => op # "clone") /\ (Has(s, "reuse") => op = "deploy")
    PROVE  Keeps(op, s, at, s, to)
<1>1. HasKey(s, to) <=> HasKey(s, at)
  BY DEF HasKey
<1> QED
  BY <1>1 DEF Keeps, Owned

LEMMA RemainsKeeps ==
    ASSUME NEW op, NEW s, NEW at, NEW h, NEW t, Leads(op, s, h, t), Without(s, h, t), Has(s, h),
           t \in Seq(Steps), Fits(op, t),
           NEW u, Remains(op, h, t, u), ~GivesUp(u), at # "done",
           h = "generate" => op # "clone", h = "reuse" => op = "deploy"
    PROVE  Keeps(op, s, at, u, "out")
<1>1. h \in Sessions \ {"init"}
  BY DEF Remains
<1>2. HasImage(s)
  BY <1>1, SessionHasImage
<1>3. ~Has(t, "generate") /\ ~Has(t, "reuse") /\ ~Has(s, "copy") /\ ~Has(s, "pull")
  BY <1>2 DEF Leads, Without, HasImage
<1>4. CASE h \notin {"generate", "reuse"} /\ u = t
  <2>1. h \notin {"copy", "pull", "key"}
    BY <1>1 DEF Sessions
  <2> QED
    BY <1>4, <2>1, TailKeeps
<1>5. CASE h = "reuse" /\ u = t
  <2>1. ~Has(s, "key") /\ op = "deploy"
    BY <1>5 DEF Leads
  <2>2. HasImage(t) => HasKey(t, "out")
    BY <1>3, <2>1 DEF HasKey, Without
  <2> QED
    BY <1>2, <1>3, <1>5, <2>1, <2>2 DEF Keeps, Owned
<1>6. CASE op = "deploy" /\ u = <<"name", "start">>
  <2>1. \A x : Has(u, x) <=> x \in {"name", "start"}
    BY <1>6, NameStartFits
  <2>2. HasKey(u, "out") /\ ~Has(u, "generate") /\ ~Has(u, "reuse")
    BY <2>1 DEF HasKey, HasImage
  <2> QED
    BY <1>2, <1>6, <2>2 DEF Keeps, Owned
<1>7. CASE h = "generate" /\ t # <<>> /\ u = Tail(t)
  <2>1. PICK k : k = Head(t)
    OBVIOUS
  <2>2. Without(t, k, u)
    BY <1>7, <2>1, TailIsWithout
  <2>3. ~Has(s, "key") /\ op # "clone"
    BY <1>7 DEF Leads
  <2>4. ~Has(u, "generate") /\ ~Has(u, "reuse") /\ ~Has(u, "key")
    BY <1>3, <2>2, <2>3 DEF Without
  <2>5. HasImage(u) => HasKey(u, "out")
    BY <2>4 DEF HasKey
  <2> QED
    BY <1>2, <1>7, <2>3, <2>4, <2>5 DEF Keeps, Owned
<1> QED
  BY <1>4, <1>5, <1>6, <1>7 DEF Remains

LEMMA GivenUpKeyed ==
    ASSUME Core, Keyed, NEW p \in Procs, NEW op, NEW n, NEW src, NEW s, NEW at,
           Doing(p, op, n, src, s, at), NEW u, GoesOn(p, op, n, src, u, "out"), Elsewhere(n),
           GivesUp(u), row'[n] = row[n], UNCHANGED up,
           saved'[n] = saved[n], archive'[n] = archive[n],
           images'[n].key \in {images[n].key, NoKey}
    PROVE  Keyed'
<1>1. Sorted(op, n, s, at)
  BY ItIsSorted
<1>2. row[n] \in {"none", "creating"} /\ images[n].key # Torn /\ NoKey # Torn
  BY <1>1, MaxKeyAssumption DEF Sorted, KeyInOrder, KeySettled, NoKey, Torn
<1>3. ~HasImage(u) /\ ~Has(u, "generate") /\ ~Has(u, "reuse")
  BY GivesUpNoKey
<1> QED
  BY <1>2, <1>3, NoMoreKeyed

LEMMA RegisterKeyed ==
    ASSUME Core, Keyed, NEW p \in Procs, NEW op, NEW n, NEW src, NEW s, NEW at,
           Doing(p, op, n, src, s, at), NEW h, h = Head(s), NEW t, t = Tail(s),
           Register(p)
    PROVE  Keyed'
<1>1. PICK u : /\ GoesOn(p, op, n, src, u, "out")
               /\ \/ u = t /\ row' = [row EXCEPT ![n] = "creating"]
                  \/ GivesUp(u) /\ row' = row
  BY RegisterDoes DEF Core
<1>2. UNCHANGED <<images, archive, saved, up, stale>> /\ h = "register"
  BY RegisterDoes DEF Core
<1>3. Sees(p, op, n, src, s, at, h, t)
  BY Begun DEF Core
<1>4. n \in Names
  BY <1>3 DEF Sees
<1>5. Elsewhere(n)
  BY <1>1, <1>2, <1>4 DEF Core, DataTyped, Elsewhere
<1>6. CASE u = t /\ row' = [row EXCEPT ![n] = "creating"]
  <2>1. Keeps(op, s, at, t, "out")
    BY <1>2, <1>3, TailKeeps DEF Sees
  <2>2. row'[n] = "creating"
    BY <1>4, <1>6 DEF Core, DataTyped
  <2> QED
    BY <1>1, <1>2, <1>5, <1>6, <2>1, <2>2, KeepsKeyed
<1>7. CASE GivesUp(u) /\ row' = row
  BY <1>1, <1>2, <1>5, <1>7, GivenUpKeyed
<1> QED
  BY <1>1, <1>6, <1>7

LEMMA CopyKeyed ==
    ASSUME Core, Keyed, NEW p \in Procs, NEW op, NEW n, NEW src, NEW s, NEW at,
           Doing(p, op, n, src, s, at), NEW h, h = Head(s), NEW t, t = Tail(s),
           Copy(p)
    PROVE  Keyed'
<1>1. PICK u : /\ GoesOn(p, op, n, src, u, "out")
               /\ \/ /\ u = t
                     /\ op = "clone" \/ images[n] = NoImage
                     /\ \E i : /\ i = IF op = "clone" THEN images[src] ELSE Base
                               /\ i # NoImage
                               /\ images' = [images EXCEPT ![n] = i]
                  \/ GivesUp(u) /\ images' = [images EXCEPT ![n] = Wiped]
                  \/ GivesUp(u) /\ images' = images
  BY CopyDoes DEF Core
<1>2. UNCHANGED <<row, archive, saved, up, stale>> /\ h = "copy"
  BY CopyDoes DEF Core
<1>3. Sees(p, op, n, src, s, at, h, t)
  BY Begun DEF Core
<1>4. n \in Names /\ (op = "clone" => src \in Names)
  BY DEF Doing, Shaped
<1>5. Elsewhere(n)
  BY <1>1, <1>2, <1>4 DEF Core, DataTyped, Elsewhere
<1>6. Sorted(op, n, s, at)
  BY ItIsSorted
<1>7. images \in [Names -> Image \cup {NoImage}]
  BY DEF Core, DataTyped
<1>8. CASE /\ u = t
           /\ \E i : /\ i = IF op = "clone" THEN images[src] ELSE Base
                     /\ i # NoImage
                     /\ images' = [images EXCEPT ![n] = i]
  <2>1. PICK i : /\ i = IF op = "clone" THEN images[src] ELSE Base
                 /\ images' = [images EXCEPT ![n] = i]
    BY <1>8
  <2>2. images'[n] = i
    BY <1>4, <1>7, <2>1
  <2>3. Has(s, "key") /\ ~Has(s, "generate") /\ ~Has(s, "reuse")
    BY <1>2, <1>3 DEF Sees, Leads
  <2>4. Has(t, "key") /\ ~Has(t, "generate") /\ ~Has(t, "reuse")
    BY <1>2, <1>3, <2>3 DEF Sees, Without
  <2>5. op # "clone" => i.key = NoKey
    BY <2>1 DEF Base
  <2>6. op = "clone" => i.key # Torn
    BY <1>4, <2>1 DEF Keyed, KeySettled
  <2>7. NoKey # Torn
    BY MaxKeyAssumption DEF NoKey, Torn
  <2>8. ~HasKey(t, "out")
    BY <2>4 DEF HasKey
  <2>9. KeyInOrder(op, n, t, "out")'
    BY <1>2, <1>6, <2>2, <2>4, <2>5, <2>8 DEF Sorted, KeyInOrder
  <2>10. KeySettled(n)'
    BY <1>2, <1>6, <2>2, <2>5, <2>6, <2>7 DEF Sorted, KeySettled, KeyInOrder
  <2>11. Owned(op, t, "out") => KeyFrom(n, images'[n].key)
    BY <2>2, <2>5, <2>8 DEF Owned, KeyFrom
  <2>12. /\ KeyFrom(n, saved'[n]) /\ KeyFrom(n, archive'[n].key)
         /\ row'[n] \notin {"running", "frozen"}
    BY <1>2, <1>6 DEF Sorted, KeyInOrder
  <2> QED
    BY <1>1, <1>5, <1>8, <2>9, <2>10, <2>11, <2>12, KeyedGoesOn
<1>9. CASE GivesUp(u) /\ (images' = [images EXCEPT ![n] = Wiped] \/ images' = images)
  <2>1. images'[n].key \in {images[n].key, NoKey}
    BY <1>4, <1>7, <1>9 DEF Wiped
  <2> QED
    BY <1>1, <1>2, <1>5, <1>9, <2>1, GivenUpKeyed
<1> QED
  BY <1>1, <1>8, <1>9

LEMMA PullKeyed ==
    ASSUME Core, Keyed, NEW p \in Procs, NEW op, NEW n, NEW src, NEW s, NEW at,
           Doing(p, op, n, src, s, at), NEW h, h = Head(s), NEW t, t = Tail(s),
           Pull(p)
    PROVE  Keyed'
<1>1. PICK u : /\ GoesOn(p, op, n, src, u, "out")
               /\ \/ /\ u = t
                     /\ archive[n] # NoImage
                     /\ images' = [images EXCEPT ![n] = archive[n]]
                     /\ stale' = stale \ {n}
                  \/ GivesUp(u) /\ UNCHANGED <<images, stale>>
  BY PullDoes DEF Core
<1>2. UNCHANGED <<row, archive, saved, up>> /\ h = "pull"
  BY PullDoes DEF Core
<1>3. Sees(p, op, n, src, s, at, h, t)
  BY Begun DEF Core
<1>4. n \in Names
  BY <1>3 DEF Sees
<1>5. Elsewhere(n)
  BY <1>1, <1>2, <1>4 DEF Core, DataTyped, Elsewhere
<1>6. Sorted(op, n, s, at)
  BY ItIsSorted
<1>8. CASE u = t /\ images' = [images EXCEPT ![n] = archive[n]]
  <2>1. images'[n] = archive[n]
    BY <1>4, <1>8 DEF Core, DataTyped
  <2>2. op = "load" /\ Has(s, "key") /\ ~Has(s, "generate") /\ ~Has(s, "reuse")
    BY <1>2, <1>3 DEF Sees, Leads
  <2>3. Has(t, "key") /\ ~Has(t, "generate") /\ ~Has(t, "reuse")
    BY <1>2, <1>3, <2>2 DEF Sees, Without
  <2>4. ~HasKey(t, "out")
    BY <2>3 DEF HasKey
  <2>5. KeyInOrder(op, n, t, "out")'
    BY <1>2, <1>6, <2>2, <2>3, <2>4 DEF Sorted, KeyInOrder
  <2>6. KeySettled(n)'
    BY <1>2, <1>6, <2>1 DEF Sorted, KeySettled, KeyInOrder
  <2>7. /\ KeyFrom(n, saved'[n]) /\ KeyFrom(n, archive'[n].key) /\ KeyFrom(n, images'[n].key)
        /\ row'[n] \notin {"running", "frozen"}
    BY <1>2, <1>6, <2>1 DEF Sorted, KeyInOrder
  <2> QED
    BY <1>1, <1>5, <1>8, <2>5, <2>6, <2>7, KeyedGoesOn
<1>9. CASE GivesUp(u) /\ UNCHANGED <<images, stale>>
  BY <1>1, <1>2, <1>5, <1>9, GivenUpKeyed
<1> QED
  BY <1>1, <1>8, <1>9

LEMMA ChooseKeyKeyed ==
    ASSUME Core, Keyed, NEW p \in Procs, NEW op, NEW n, NEW src, NEW s, NEW at,
           Doing(p, op, n, src, s, at), NEW h, h = Head(s), NEW t, t = Tail(s),
           ChooseKey(p)
    PROVE  Keyed'
<1>1. PICK u : GoesOn(p, op, n, src, u, "out") /\ KeyChosen(n, s, u)
  BY ChooseKeyDoes DEF Core
<1>2. UNCHANGED <<row, images, archive, saved, up, stale>> /\ h = "key"
  BY ChooseKeyDoes DEF Core
<1>3. Sees(p, op, n, src, s, at, h, t)
  BY Begun DEF Core
<1>4. Has(s, "key") /\ ~Has(s, "generate") /\ ~Has(s, "reuse")
  BY <1>2, <1>3 DEF Sees, Leads
<1>5. Sorted(op, n, s, at)
  BY ItIsSorted
<1>6. /\ HasImage(u) => HasImage(s)
      /\ Has(u, "generate") => saved[n] = NoKey
      /\ Has(u, "reuse") => saved[n] # NoKey
      /\ Has(u, "generate") \/ Has(u, "reuse")
  BY <1>1, <1>4 DEF KeyChosen, HasImage
<1>7. ~HasKey(u, "out") /\ ~HasKey(s, at)
  BY <1>4, <1>6 DEF HasKey
<1>8. KeyInOrder(op, n, u, "out")'
  BY <1>2, <1>5, <1>6, <1>7 DEF Sorted, KeyInOrder
<1>9. KeySettled(n)' /\ Elsewhere(n)
  BY <1>2, <1>5 DEF Sorted, KeySettled, KeySaved, Elsewhere
<1>10. Owned(op, u, "out") => KeyFrom(n, images'[n].key)
  BY <1>2, <1>5, <1>6, <1>7 DEF Sorted, Owned
<1>11. /\ KeyFrom(n, saved'[n]) /\ KeyFrom(n, archive'[n].key)
       /\ row'[n] \notin {"running", "frozen"}
  BY <1>2, <1>5 DEF Sorted, KeyInOrder
<1> QED
  BY <1>1, <1>8, <1>9, <1>10, <1>11, KeyedGoesOn

LEMMA MountKeyed ==
    ASSUME Core, Keyed, NEW p \in Procs, NEW op, NEW n, NEW src, NEW s, NEW at,
           Doing(p, op, n, src, s, at), NEW h, h = Head(s), NEW t, t = Tail(s),
           Mount(p), KeysGetIn
    PROVE  Keyed'
<1>1. UNCHANGED <<row, images, archive, saved, up, stale>> /\ h \in Sessions
  BY MountDoes DEF Core
<1>7. at = "out"
  BY DEF Doing, Mount
<1>6. \/ GoesOn(p, op, n, src, s, "in")
      \/ /\ <<op, h, "mount">> \in MayFail
         /\ \E u : GoesOn(p, op, n, src, u, "out") /\ Remains(op, h, t, u)
  BY MountDoes DEF Core
<1>2. Sees(p, op, n, src, s, at, h, t)
  BY Begun DEF Core
<1>3. Elsewhere(n) /\ row'[n] \in {"none", "creating"}
  BY <1>1, ItIsSorted DEF Elsewhere, Sorted, KeyInOrder
<1>4. CASE GoesOn(p, op, n, src, s, "in")
  <2>1. Keeps(op, s, at, s, "in")
    BY <1>7, SessionKeeps
  <2> QED
    BY <1>1, <1>3, <1>4, <2>1, KeepsKeyed
<1>5. CASE /\ <<op, h, "mount">> \in MayFail
           /\ \E u : GoesOn(p, op, n, src, u, "out") /\ Remains(op, h, t, u)
  <2>1. PICK u : GoesOn(p, op, n, src, u, "out") /\ Remains(op, h, t, u)
    BY <1>5
  <2>2. CASE GivesUp(u)
    BY <1>1, <1>3, <2>1, <2>2, GivenUpKeyed
  <2>3. CASE ~GivesUp(u)
    <3>1. (h = "generate" => op # "clone") /\ (h = "reuse" => op = "deploy")
      BY <1>2, <1>5, OpsAre DEF KeysGetIn, Sees
    <3>2. Keeps(op, s, at, u, "out")
      BY <1>2, <1>7, <2>1, <2>3, <3>1, RemainsKeeps DEF Sees
    <3> QED
      BY <1>1, <1>3, <2>1, <3>2, KeepsKeyed
  <2> QED
    BY <2>2, <2>3
<1> QED
  BY <1>4, <1>5, <1>6

\* A session before its edit has got its key or not as after it, unless that is
\* what it is for.
LEMMA EditKeyed ==
    ASSUME Core, Keyed, NEW p \in Procs, NEW op, NEW n, NEW src, NEW s, NEW at,
           Doing(p, op, n, src, s, at), NEW h, h = Head(s), NEW t, t = Tail(s),
           Edit(p), ~Tears, KeysGetIn
    PROVE  Keyed'
<1>1. PICK to \in {"done", "failed"} : GoesOn(p, op, n, src, s, to) /\ Edits(op, n, h, to)
  BY EditDoes DEF Core
<1>2. UNCHANGED <<row, archive, up, stale>> /\ h \in Sessions /\ at = "in"
  BY EditDoes DEF Core
<1>3. Sees(p, op, n, src, s, at, h, t)
  BY Begun DEF Core
<1>4. images[n] \in Image /\ HasImage(s) /\ n \in Names
  BY <1>2, SessionImage
<1>5. images \in [Names -> Image \cup {NoImage}] /\ saved \in [Names -> Keys]
  BY DEF Core, DataTyped
<1>6. Sorted(op, n, s, at)
  BY ItIsSorted
<1>7. \A x \in {"generate", "reuse"} : Has(s, x) <=> h = x
  BY <1>3 DEF Sees, Leads
<1>8. row'[n] \in {"none", "creating"} /\ KeyFrom(n, archive'[n].key)
  BY <1>2, <1>6 DEF Sorted, KeyInOrder
<1>9. ASSUME Elsewhere(n), Keeps(op, s, at, s, to), saved'[n] = saved[n], images'[n].key = images[n].key
      PROVE  Keyed'
  BY <1>1, <1>2, <1>8, <1>9, KeepsKeyed
<1>10. CASE to = "done" /\ h \in {"init", "ssh", "auth", "name"}
  <2>1. PICK i : i = [images[n] EXCEPT !.init = "umu"]
    OBVIOUS
  <2>2. i.key = images[n].key
    BY <1>4, <2>1, ImageFacts
  <2>3. saved' = saved /\ (images' = [images EXCEPT ![n] = i] \/ images' = images)
    BY <1>1, <1>10, <2>1 DEF Edits
  <2>4. Elsewhere(n) /\ images'[n].key = images[n].key
    BY <1>2, <1>4, <1>5, <2>2, <2>3 DEF Elsewhere
  <2>5. Keeps(op, s, at, s, to)
    BY <1>2, <1>7, <1>10, SessionKeeps
  <2> QED
    BY <1>9, <2>3, <2>4, <2>5
<1>11. CASE to = "done" /\ h = "generate"
  <2>1. /\ \E k \in FreshKeys : images' = [images EXCEPT ![n] = [images[n] EXCEPT !.key = k]]
        /\ saved' = saved
    BY <1>1, <1>11 DEF Edits
  <2>2. PICK k \in FreshKeys : images' = [images EXCEPT ![n] = [images[n] EXCEPT !.key = k]]
    BY <2>1
  <2>3. PICK i : i = [images[n] EXCEPT !.key = k]
    OBVIOUS
  <2>4. i.key = k /\ k # Torn
    BY <1>4, <2>3, ImageFacts, FreshIsNobodys
  <2>5. images'[n].key = k /\ Elsewhere(n)
    BY <1>2, <1>4, <1>5, <2>1, <2>2, <2>3, <2>4 DEF Elsewhere
  <2>6. Has(s, "generate") /\ ~Has(s, "reuse") /\ ~Has(s, "key")
    BY <1>3, <1>7, <1>11 DEF Sees, Leads
  <2>7. saved[n] = NoKey
    BY <1>6, <2>6 DEF Sorted, KeyInOrder
  <2>8. HasKey(s, to)
    BY <1>4, <1>11, <2>6 DEF HasKey
  <2>9. KeyInOrder(op, n, s, to)'
    BY <1>8, <1>11, <2>1, <2>6, <2>7, <2>8 DEF KeyInOrder, KeySaved
  <2>10. KeySettled(n)'
    BY <1>2, <1>6, <1>8, <2>1, <2>4, <2>5 DEF Sorted, KeySettled
  <2>11. KeyFrom(n, saved'[n]) /\ KeyFrom(n, images'[n].key)
    BY <1>6, <2>1, <2>5 DEF Sorted, KeyFrom
  <2> QED
    BY <1>1, <1>8, <2>5, <2>9, <2>10, <2>11, KeyedGoesOn
<1>12. CASE to = "done" /\ h = "reuse"
  <2>1. images' = [images EXCEPT ![n] = [images[n] EXCEPT !.key = saved[n]]] /\ saved' = saved
    BY <1>1, <1>12 DEF Edits
  <2>2. PICK k \in Keys : k = saved[n]
    BY <1>4, <1>5
  <2>3. PICK i : i = [images[n] EXCEPT !.key = k]
    OBVIOUS
  <2>4. i.key = k /\ k # Torn
    BY <1>4, <1>6, <2>2, <2>3, ImageFacts DEF Sorted, KeySettled
  <2>5. images'[n].key = k /\ Elsewhere(n)
    BY <1>2, <1>4, <1>5, <2>1, <2>2, <2>3, <2>4 DEF Elsewhere
  <2>6. Has(s, "reuse") /\ ~Has(s, "generate") /\ ~Has(s, "key")
    BY <1>3, <1>7, <1>12 DEF Sees, Leads
  <2>7. saved[n] # NoKey
    BY <1>6, <2>6 DEF Sorted, KeyInOrder
  <2>8. HasKey(s, to)
    BY <1>4, <1>12, <2>6 DEF HasKey
  <2>9. KeyInOrder(op, n, s, to)'
    BY <1>8, <1>12, <2>1, <2>2, <2>5, <2>6, <2>7, <2>8 DEF KeyInOrder, KeySaved
  <2>10. KeySettled(n)'
    BY <1>2, <1>6, <1>8, <2>1, <2>4, <2>5 DEF Sorted, KeySettled
  <2>11. KeyFrom(n, saved'[n]) /\ KeyFrom(n, images'[n].key)
    BY <1>6, <2>1, <2>2, <2>5 DEF Sorted
  <2> QED
    BY <1>1, <1>8, <2>5, <2>9, <2>10, <2>11, KeyedGoesOn
<1>13. CASE to = "done" /\ h = "store"
  <2>1. saved' = [saved EXCEPT ![n] = images[n].key] /\ images' = images
    BY <1>1, <1>13 DEF Edits
  <2>2. saved'[n] = images[n].key /\ Elsewhere(n)
    BY <1>2, <1>4, <1>5, <2>1 DEF Elsewhere
  <2>3. Has(s, "store") /\ ~Has(s, "generate") /\ ~Has(s, "reuse")
    BY <1>3, <1>7, <1>13 DEF Sees
  <2>4. ~Has(s, "key")
    BY <1>3, <2>3 DEF Sees, Leads
  <2>5. HasKey(s, to) /\ HasKey(s, at)
    BY <1>4, <2>3, <2>4 DEF HasKey
  <2>6. KeyFrom(n, images[n].key)
    BY <1>4, <1>6, <2>5 DEF Sorted, Owned
  <2>7. KeyInOrder(op, n, s, to)'
    BY <1>8, <1>13, <2>1, <2>2, <2>3, <2>5 DEF KeyInOrder, KeySaved
  <2>8. KeySettled(n)'
    BY <1>2, <1>6, <1>8, <2>1, <2>2 DEF Sorted, KeySettled
  <2> QED
    BY <1>1, <1>8, <2>1, <2>2, <2>6, <2>7, <2>8, KeyedGoesOn
<1>14. CASE to = "failed"
  <2>1. PICK i, k : /\ Broken(n, h, "in", i) /\ images' = [images EXCEPT ![n] = i]
                    /\ KeyBroken(n, h, "in", k) /\ saved' = [saved EXCEPT ![n] = k]
    BY <1>1, <1>14 DEF Edits
  <2>2. k = saved[n]
    BY <2>1 DEF KeyBroken
  <2>3. [images[n] EXCEPT !.init = "none"].key = images[n].key
    BY <1>4, ImageFacts
  <2>4. i.key = images[n].key
    BY <2>1, <2>3 DEF Broken
  <2>5. Elsewhere(n) /\ images'[n].key = images[n].key /\ saved'[n] = saved[n]
    BY <1>2, <1>4, <1>5, <2>1, <2>2, <2>4 DEF Elsewhere
  <2>6. <<op, h, "edit">> \in MayFail \/ h = "store"
    BY <1>1, <1>14 DEF Edits
  <2>7. (h = "generate" => op # "clone") /\ (h = "reuse" => op = "deploy")
    BY <1>3, <2>6, OpsAre DEF KeysGetIn, Sees
  <2>8. Keeps(op, s, at, s, to)
    BY <1>2, <1>7, <1>14, <2>7, SessionKeeps
  <2> QED
    BY <1>9, <2>5, <2>8
<1> QED
  BY <1>2, <1>10, <1>11, <1>12, <1>13, <1>14 DEF Sessions

LEMMA UnmountKeyed ==
    ASSUME Core, Keyed, NEW p \in Procs, NEW op, NEW n, NEW src, NEW s, NEW at,
           Doing(p, op, n, src, s, at), NEW h, h = Head(s), NEW t, t = Tail(s),
           Unmount(p)
    PROVE  Keyed'
<1>1. PICK u : GoesOn(p, op, n, src, u, "out") /\ Left(op, at, h, t, u)
  BY UnmountGoesOn DEF Core
<1>2. UNCHANGED <<row, archive, saved, up>> /\ h \in Sessions
  BY UnmountDoes DEF Core
<1>3. \/ UNCHANGED <<images, stale>>
      \/ images' = [images EXCEPT ![n] = Wiped] /\ stale' = stale \cup {n}
  BY UnmountDoes DEF Core
<1>20. Sees(p, op, n, src, s, at, h, t)
  BY Begun DEF Core
<1>4. Sees(p, op, n, src, s, at, h, t) /\ n \in Names
  BY <1>20 DEF Sees
<1>5. Elsewhere(n) /\ images'[n].key \in {images[n].key, NoKey}
  BY <1>2, <1>3, <1>4 DEF Core, DataTyped, Elsewhere, Wiped
<1>6. Sorted(op, n, s, at)
  BY ItIsSorted
<1>7. row'[n] \in {"none", "creating"}
  BY <1>2, <1>6 DEF Sorted, KeyInOrder
<1>8. CASE at = "done" /\ u = t
  <2>1. h \notin {"copy", "pull", "key"}
    BY <1>2 DEF Sessions
  <2>2. Keeps(op, s, at, t, "out")
    BY <1>4, <1>8, <2>1, TailKeeps DEF Sees
  <2> QED
    BY <1>1, <1>2, <1>5, <1>7, <1>8, <2>2, KeepsKeyed
<1>9. CASE at = "failed" /\ Remains(op, h, t, u) /\ ~GivesUp(u)
  <2>1. (h = "generate" => op # "clone") /\ (h = "reuse" => op = "deploy")
    BY <1>4, <1>6, <1>9 DEF Sees, Sorted, KeyInOrder
  <2>2. Keeps(op, s, at, u, "out")
    BY <1>4, <1>9, <2>1, RemainsKeeps DEF Sees
  <2> QED
    BY <1>1, <1>2, <1>5, <1>7, <2>2, KeepsKeyed
<1>10. CASE GivesUp(u)
  BY <1>1, <1>2, <1>5, <1>10, GivenUpKeyed
<1> QED
  BY <1>1, <1>8, <1>9, <1>10 DEF Left

LEMMA StartKeyed ==
    ASSUME Core, Keyed, NEW p \in Procs, NEW op, NEW n, NEW src, NEW s, NEW at,
           Doing(p, op, n, src, s, at), NEW h, h = Head(s), NEW t, t = Tail(s),
           Start(p)
    PROVE  Keyed'
<1>1. PICK u : /\ GoesOn(p, op, n, src, u, "out") /\ GivesUp(u)
               /\ \/ /\ u = <<>>
                     /\ row' = [row EXCEPT ![n] = "running"]
                     /\ up' = up \cup {n}
                  \/ UNCHANGED <<row, up>>
  BY StartDoes DEF Core
<1>2. UNCHANGED <<images, archive, saved, stale>> /\ h = "start"
  BY StartDoes DEF Core
<1>20. Sees(p, op, n, src, s, at, h, t)
  BY Begun DEF Core
<1>3. Sees(p, op, n, src, s, at, h, t) /\ n \in Names
  BY <1>20 DEF Sees
<1>4. Elsewhere(n)
  BY <1>1, <1>2, <1>3 DEF Core, DataTyped, Elsewhere
<1>5. Sorted(op, n, s, at)
  BY ItIsSorted
<1>6. CASE UNCHANGED <<row, up>>
  BY <1>1, <1>2, <1>4, <1>6, GivenUpKeyed
<1>7. CASE /\ u = <<>>
           /\ row' = [row EXCEPT ![n] = "running"]
           /\ up' = up \cup {n}
  <2>1. t = <<>>
    BY <1>2, <1>3 DEF Sees, Leads
  <2>2. \A x : Has(s, x) <=> x = "start"
    BY <1>2, <1>3, <2>1, EmptyHasNothing DEF Sees, Without
  <2>3. HasKey(s, at) /\ HasImage(s)
    BY <2>2 DEF HasKey, HasImage
  <2>4. KeySaved(n) /\ KeyFrom(n, images[n].key)
    BY <1>5, <2>3 DEF Sorted, KeyInOrder, Owned
  <2>5. row'[n] = "running"
    BY <1>3, <1>7 DEF Core, DataTyped
  <2>6. KeySettled(n)'
    BY <1>2, <1>5, <2>4, <2>5 DEF Sorted, KeySettled, KeySaved
  <2>7. KeyFrom(n, saved'[n]) /\ KeyFrom(n, archive'[n].key) /\ KeyFrom(n, images'[n].key)
    BY <1>2, <1>5, <2>4 DEF Sorted
  <2> QED
    BY <1>1, <1>4, <1>7, <2>6, <2>7, KeyedGoesOn
<1> QED
  BY <1>1, <1>6, <1>7

LEMMA UndoKeyed ==
    ASSUME Core, Keyed, NEW p \in Procs, NEW op, NEW n, NEW src, NEW s, NEW at,
           Doing(p, op, n, src, s, at), NEW h, h = Head(s), NEW t, t = Tail(s),
           Undo(p)
    PROVE  Keyed'
<1>1. /\ UNCHANGED <<archive, saved, up>> /\ h \in {"undisk", "unrow"}
      /\ GoesOn(p, op, n, src, t, "out")
      /\ \/ row' = row /\ images' = [images EXCEPT ![n] = NoImage] /\ stale' = stale \ {n}
         \/ UNCHANGED <<row, images, stale>>
         \/ row' = [row EXCEPT ![n] = "none"] /\ UNCHANGED <<images, stale>>
  BY UndoDoes DEF Core
<1>20. Sees(p, op, n, src, s, at, h, t)
  BY Begun DEF Core
<1>2. Sees(p, op, n, src, s, at, h, t) /\ n \in Names
  BY <1>20 DEF Sees
<1>3. Sorted(op, n, s, at)
  BY ItIsSorted
<1>4. ~Has(t, "generate") /\ ~Has(t, "reuse")
  BY <1>1, <1>2 DEF Sees, Leads, Without
<1>5. ~HasImage(t)
  BY <1>1, <1>2, UndoHasNoImage DEF Sees
<1>6. /\ Elsewhere(n)
      /\ row'[n] \in {"none", "creating"}
      /\ images'[n] \in {images[n], NoImage}
  BY <1>1, <1>2, <1>3 DEF Core, DataTyped, Elsewhere, Sorted, KeyInOrder
<1>7. images[n].key # Torn /\ NoImage.key # Torn
  BY <1>3, MaxKeyAssumption DEF Sorted, KeySettled, NoImage, NoKey, Torn
<1>8. images'[n].key # Torn
  BY <1>6, <1>7
<1> QED
  BY <1>1, <1>4, <1>5, <1>6, <1>8, NoMoreKeyed

LEMMA CrashKeyed ==
    ASSUME Core, Keyed, NEW p \in Procs, NEW op, NEW n, NEW src, NEW s, NEW at,
           Doing(p, op, n, src, s, at), NEW h, h = Head(s), NEW t, t = Tail(s),
           Crash(p), ~Tears
    PROVE  Keyed'
<1>1. /\ UNCHANGED <<row, archive, up>>
      /\ GoesOn(p, op, n, src, <<>>, "out")
      /\ \E i : Broken(n, h, at, i) /\ images' = [images EXCEPT ![n] = i]
      /\ \E k : KeyBroken(n, h, at, k) /\ saved' = [saved EXCEPT ![n] = k]
      /\ stale' = IF at = "out" THEN stale ELSE stale \cup {n}
  BY CrashDoes DEF Core
<1>2. PICK i, k : /\ Broken(n, h, at, i) /\ images' = [images EXCEPT ![n] = i]
                  /\ KeyBroken(n, h, at, k) /\ saved' = [saved EXCEPT ![n] = k]
  BY <1>1
<1>3. n \in Names /\ images \in [Names -> Image \cup {NoImage}] /\ saved \in [Names -> Keys]
  BY DEF Doing, Shaped, Core, DataTyped
<1>4. h = "init" => images[n] \in Image
  BY SessionImage DEF Sessions
<1>5. h = "init" => [images[n] EXCEPT !.init = "none"].key = images[n].key
  BY <1>4, ImageFacts
<1>6. i.key = images[n].key /\ k = saved[n]
  BY <1>2, <1>5 DEF Broken, KeyBroken
<1>7. Elsewhere(n) /\ saved'[n] = saved[n] /\ images'[n].key = images[n].key
  BY <1>1, <1>2, <1>3, <1>6 DEF Elsewhere
<1>8. GivesUp(<<>>)
  BY DEF GivesUp
<1> QED
  BY <1>1, <1>7, <1>8, GivenUpKeyed

LEMMA ProcessKeyed ==
    ASSUME Core, Keyed, ~Tears, KeysGetIn, NEW p \in Procs,
           \/ Register(p) \/ Copy(p) \/ Pull(p) \/ Session(p) \/ Start(p) \/ Undo(p) \/ Crash(p)
    PROVE  Keyed'
<1>1. PICK op, n, src, s, at : Doing(p, op, n, src, s, at)
  BY ProcessStep
<1>2. PICK h, t : h = Head(s) /\ t = Tail(s)
  OBVIOUS
<1>3. CASE Register(p)
  BY <1>1, <1>2, <1>3, RegisterKeyed
<1>4. CASE Copy(p)
  BY <1>1, <1>2, <1>4, CopyKeyed
<1>5. CASE Pull(p)
  BY <1>1, <1>2, <1>5, PullKeyed
<1>6. CASE ChooseKey(p)
  BY <1>1, <1>2, <1>6, ChooseKeyKeyed
<1>7. CASE Mount(p)
  BY <1>1, <1>2, <1>7, MountKeyed
<1>8. CASE Edit(p)
  BY <1>1, <1>2, <1>8, EditKeyed
<1>9. CASE Unmount(p)
  BY <1>1, <1>2, <1>9, UnmountKeyed
<1>10. CASE Start(p)
  BY <1>1, <1>2, <1>10, StartKeyed
<1>11. CASE Undo(p)
  BY <1>1, <1>2, <1>11, UndoKeyed
<1>12. CASE Crash(p)
  BY <1>1, <1>2, <1>12, CrashKeyed
<1> QED
  BY <1>3, <1>4, <1>5, <1>6, <1>7, <1>8, <1>9, <1>10, <1>11, <1>12 DEF Session

LEMMA BeginKeyed ==
    ASSUME Core, Keyed, NEW p \in Procs, NEW op, NEW n, NEW src, NEW u,
           Begins(p, op, n, src, u)
    PROVE  Keyed'
<1>1. /\ \A q \in Procs \ {p} : cmd'[q] = cmd[q]
      /\ Doing(p, op, n, src, u, "out")'
      /\ \A q \in Procs \ {p} : cmd[q].todo # <<>> => cmd[q].name # n /\ cmd[q].src # n
      /\ u # <<>> /\ ~HasImage(u) /\ ~Has(u, "generate") /\ ~Has(u, "reuse")
  BY AfterBeginning DEF Core
<1>2. UNCHANGED <<row, images, archive, saved, up, stale>> /\ n \in Names /\ row[n] = "none"
  BY DEF Begins
<1>3. KeyInOrder(op, n, u, "out")' /\ ~Owned(op, u, "out")
  BY <1>1, <1>2 DEF KeyInOrder, HasKey, Owned
<1>4. KeySettled(n)
  BY <1>2 DEF Keyed
<1>5. KeySettled(n)' /\ Elsewhere(n)
  BY <1>2, <1>4 DEF KeySettled, KeySaved, Elsewhere
<1>6. KeyFrom(n, saved'[n]) /\ KeyFrom(n, archive'[n].key)
  BY <1>2 DEF KeyFrom, Holds
<1> QED
  BY <1>1, <1>2, <1>3, <1>5, <1>6, KeyedStep

LEMMA HostKeyed ==
    ASSUME Core, Keyed, NEW n \in Names, Free(n), cmd' = cmd, Elsewhere(n), KeySettled(n)',
           saved'[n] = saved[n], KeyFrom(n, archive'[n].key),
           row'[n] \in {"running", "frozen"} => KeyFrom(n, images'[n].key)
    PROVE  Keyed'
<1>1. \A q \in Procs : cmd'[q] = cmd[q] /\ (cmd[q].todo # <<>> => cmd[q].name # n /\ cmd[q].src # n)
  BY DEF Free
<1>2. /\ \A q \in Procs : cmd'[q].todo # <<>> =>
            KeyInOrder(cmd[q].op, cmd[q].name, cmd[q].todo, cmd[q].image)'
      /\ \A m \in Names \ {n} : KeySettled(m)'
  BY <1>1, OthersKeyed
<1>3. ASSUME NEW m \in Names \ {n}, Mine(m)' PROVE Mine(m)
  <2>1. row'[m] = row[m]
    BY DEF Elsewhere
  <2> QED
    BY <1>3, <2>1 DEF Mine
<1>4. Mine(n)' => KeyFrom(n, images'[n].key)
  BY <1>1 DEF Mine
<1>5. KeyFrom(n, saved'[n])
  BY DEF KeyFrom, Holds
<1>6. KeysApart'
  BY <1>3, <1>4, <1>5, StillApart
<1> QED
  BY <1>2, <1>6 DEF Keyed

\* What the key of a project that has a VM is.
LEMMA ItsKey ==
    ASSUME Keyed, NEW n \in Names
    PROVE  /\ KeySettled(n) /\ KeyFrom(n, archive[n].key)
           /\ row[n] \in {"running", "frozen"} => KeySaved(n) /\ KeyFrom(n, images[n].key)
BY DEF Keyed, KeySettled, KeyFrom, Holds, Mine

LEMMA FreezeKeyed ==
    ASSUME Core, Keyed, NEW n \in Names, Free(n), Freeze(n)
    PROVE  Keyed'
<1>1. /\ KeySettled(n) /\ KeySaved(n) /\ KeyFrom(n, archive[n].key) /\ KeyFrom(n, images[n].key)
  BY ItsKey DEF Freeze
<1>2. KeySettled(n)' /\ Elsewhere(n) /\ cmd' = cmd
  BY <1>1 DEF Freeze, KeySettled, KeySaved, Elsewhere, Core, DataTyped
<1>3. UNCHANGED <<images, archive, saved>>
  BY DEF Freeze
<1> QED
  BY <1>1, <1>2, <1>3, HostKeyed

LEMMA UnfreezeKeyed ==
    ASSUME Core, Keyed, NEW n \in Names, Free(n), Unfreeze(n)
    PROVE  Keyed'
<1>1. /\ KeySettled(n) /\ KeySaved(n) /\ KeyFrom(n, archive[n].key) /\ KeyFrom(n, images[n].key)
  BY ItsKey DEF Unfreeze
<1>2. KeySettled(n)' /\ Elsewhere(n) /\ cmd' = cmd
  BY <1>1 DEF Unfreeze, KeySettled, KeySaved, Elsewhere, Core, DataTyped
<1>3. UNCHANGED <<images, archive, saved>>
  BY DEF Unfreeze
<1> QED
  BY <1>1, <1>2, <1>3, HostKeyed

LEMMA PushKeyed ==
    ASSUME Core, Keyed, NEW n \in Names, Free(n), Push(n)
    PROVE  Keyed'
<1>1. /\ KeySettled(n) /\ KeyFrom(n, images[n].key)
  BY ItsKey DEF Push
<1>2. /\ UNCHANGED <<images, saved, up, cmd>> /\ archive'[n] = images[n] /\ row'[n] = "none"
      /\ Elsewhere(n) /\ row[n] = "frozen"
  BY DEF Push, Elsewhere, Core, DataTyped
<1>3. KeySettled(n)'
  BY <1>1, <1>2 DEF KeySettled
<1> QED
  BY <1>1, <1>2, <1>3, HostKeyed

LEMMA DestroyKeyed ==
    ASSUME Core, Keyed, NEW n \in Names, Free(n), Destroy(n)
    PROVE  Keyed'
<1>1. UNCHANGED images \/ images' = [images EXCEPT ![n] = NoImage]
  BY DEF Destroy, RemoveImage, Put
<1>7. stale' = stale \/ stale' = stale \ {n}
  BY DEF Destroy, RemoveImage
<1>2. /\ row' = [row EXCEPT ![n] = "none"] /\ up' = up \ {n}
      /\ UNCHANGED <<archive, saved, cmd>>
  BY DEF Destroy
<1>3. KeySettled(n) /\ KeyFrom(n, archive[n].key)
  BY ItsKey
<1>4. Elsewhere(n) /\ row'[n] = "none" /\ n \notin up' /\ images'[n] \in {images[n], NoImage}
  BY <1>1, <1>2, <1>7 DEF Elsewhere, Core, DataTyped
<1>5. NoImage.key # Torn
  BY MaxKeyAssumption DEF NoImage, NoKey, Torn
<1>6. KeySettled(n)'
  BY <1>2, <1>3, <1>4, <1>5 DEF KeySettled
<1> QED
  BY <1>2, <1>3, <1>4, <1>6, HostKeyed

LEMMA RebootKeyed ==
    ASSUME Core, Keyed, Reboot
    PROVE  Keyed'
<1>1. \A p \in Procs : cmd'[p].todo = <<>>
  BY DEF Reboot, Idle
<1>2. UNCHANGED <<row, images, archive, saved, cmd>> /\ up' = {}
  BY DEF Reboot
<1>3. ASSUME NEW n \in Names PROVE KeySettled(n)'
  <2>1. KeySettled(n)
    BY DEF Keyed
  <2> QED
    BY <1>2, <2>1 DEF KeySettled, KeySaved
<1>4. ASSUME NEW n \in Names, NEW k, Holds(n, k)' PROVE Holds(n, k)
  BY <1>2, <1>4 DEF Holds, Mine
<1>5. KeysApart'
  BY <1>4 DEF Keyed, KeysApart
<1> QED
  BY <1>1, <1>3, <1>5 DEF Keyed

LEMMA KeyedInit == Init => Keyed
<1> SUFFICES ASSUME Init PROVE Keyed
  OBVIOUS
<1>1. ASSUME NEW n \in Names
      PROVE  /\ row[n] = "none" /\ n \notin up /\ saved[n] = NoKey
             /\ images[n].key = NoKey /\ archive[n].key = NoKey
  BY DEF Init, NoImage
<1>2. \A p \in Procs : cmd[p].todo = <<>>
  BY DEF Init, Idle
<1>3. ASSUME NEW n \in Names PROVE KeySettled(n)
  <2>1. NoKey # Torn
    BY MaxKeyAssumption DEF NoKey, Torn
  <2> QED
    BY <1>1, <2>1 DEF KeySettled
<1>4. \A n \in Names : \A k : Holds(n, k) => k = NoKey
  BY <1>1 DEF Holds
<1> QED
  BY <1>2, <1>3, <1>4 DEF Keyed, KeysApart

LEMMA KeyedNext ==
    ASSUME ~Tears, KeysGetIn, Core, Keyed, [Next]_vars
    PROVE  Keyed'
<1>1. ASSUME NEW p \in Procs, BeginCommand(p) PROVE Keyed'
  <2>1. PICK op, n, src, u : Begins(p, op, n, src, u)
    BY <1>1, BeginCommandIs
  <2> QED
    BY <2>1, BeginKeyed
<1>2. ASSUME NEW n \in Names, Free(n), Freeze(n) \/ Unfreeze(n) \/ Push(n) \/ Destroy(n) PROVE Keyed'
  BY <1>2, FreezeKeyed, UnfreezeKeyed, PushKeyed, DestroyKeyed
<1>3. CASE UNCHANGED vars
  BY <1>3 DEF vars, Keyed, KeyInOrder, KeySettled, KeySaved, KeysApart, Holds, Mine
<1> QED
  BY <1>1, <1>2, <1>3, ProcessKeyed, RebootKeyed DEF Next

LEMMA KeyedHosts ==
    ASSUME Core, Keyed
    PROVE  HostKeyPerVM
<1>1. ASSUME NEW n \in up
      PROVE  /\ n \in Names /\ KeySaved(n) /\ images[n].key # Torn
             /\ Holds(n, images[n].key)
  <2>1. n \in Names /\ KeySettled(n)
    BY DEF Core, DataTyped, Keyed
  <2> QED
    BY <2>1 DEF KeySettled, Holds, Mine
<1>2. ASSUME NEW n \in up, NEW m \in up \ {n}, images[m].key = images[n].key
      PROVE  images[n].key = NoKey
  BY <1>1, <1>2 DEF Keyed, KeysApart
<1> QED
  BY <1>1, <1>2 DEF HostKeyPerVM, KeySaved

\* A VM has a host key of its own, whole, and the one saved for its name if one
\* is; unless a key is cut off, or is not put into an image that already has
\* the key of another project or of an earlier VM: whatever else fails, umounts
\* included, every command and the host may be killed, and clones may be given
\* the names of disks that were left behind.
THEOREM HostKeysHold ==
    ASSUME ~Tears, KeysGetIn
    PROVE  Spec => []HostKeyPerVM
<1>1. Core /\ Keyed /\ [Next]_vars => Core' /\ Keyed'
  BY CoreNext, KeyedNext
<1>2. Init => Core /\ Keyed
  BY CoreInit, KeyedInit
<1>3. Core /\ Keyed => HostKeyPerVM
  BY KeyedHosts
<1> QED
  BY <1>1, <1>2, <1>3, PTL DEF Spec
=============================================================================
