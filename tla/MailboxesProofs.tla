-------------------------- MODULE MailboxesProofs --------------------------
(***************************************************************************)
(* Mailboxes is correct for any number of phones, workers, lines and       *)
(* changes.  The invariant says of each line how far it has come, from     *)
(* being listed to being given to the PBX, who may end its subscription,   *)
(* how many users its count stands for, and what news are on their way.    *)
(* A step of a thread is about one line: it keeps what holds of the others *)
(* (OtherLine), and the lemma of its action says what becomes of its own.  *)
(***************************************************************************)
EXTENDS MailboxesStacks, SequenceTheorems

(* Nothing knows a line that was not allocated. *)
Unmade(l) ==
    /\ l \notin Listed /\ l \notin Range(jobs) /\ sub[l] = "none" /\ attached[l] = {}
    /\ \A s \in Session : template[s] # l
    /\ \A t \in Thread : ~Mentions(t, l)

(* The list of lines and the queue of jobs have a line once. *)
Once(q) == \A i, j \in DOMAIN q : q[i] = q[j] => i = j
OnceInv == Once(lines) /\ Once(jobs)

(* A line is listed once, then told of once, then subscribed once, then given *)
(* to the PBX once.                                                           *)
NoneAt(step, l) == \A t \in Thread : ~At(t, step, l)
OneAt(step, l) == \A t, u \in Thread : At(t, step, l) /\ At(u, step, l) => t = u
Ordered(l) ==
    /\ OneAt("list", l) /\ OneAt("subscribe", l) /\ OneAt("watch", l)
    /\ ~NoneAt("list", l) =>
          l \notin Listed /\ l \notin Range(jobs) /\ NoneAt("subscribe", l) /\ sub[l] = "none"
    /\ l \in Range(jobs) => sub[l] = "none" /\ NoneAt("subscribe", l)
    /\ ~NoneAt("subscribe", l) => sub[l] = "none"
    /\ ~NoneAt("watch", l) =>
          sub[l] \in {"listed", "taken", "freed"} /\ l \notin pbx /\ NoneAt("join", l)

(* Who took a subscription off the list ends it, alone. *)
Ending(t, l) == At(t, "unsubscribe", l) \/ At(t, "join", l)
Ended(l) ==
    /\ \A t, u \in Thread : Ending(t, l) /\ Ending(u, l) => t = u
    /\ \A t \in Thread : Ending(t, l) => sub[l] = "taken"
    /\ l \in pbx => sub[l] \in {"listed", "taken"} /\ NoneAt("join", l)
    /\ ~Delivered(l) => l \in pbx \/ ~NoneAt("join", l)

(* Phones with a button for the line *)
Buttons(l) == {s \in Session : template[s] = l}
One(b) == IF b THEN 1 ELSE 0

(* The count of a line is the number of those who have it in use. *)
Counted(l) ==
    /\ IsFiniteSet(Buttons(l)) /\ IsFiniteSet(attached[l]) /\ IsFiniteSet(Puts(l))
    /\ refs[l] = Cardinality(Buttons(l)) + Cardinality(attached[l]) + Cardinality(Puts(l))
                 + One(l \in Listed) + One(l \in Range(jobs))
                 + One(sub[l] \in {"listed", "taken"})

(* A listed line is subscribed or will be, or is about to leave the list; the *)
(* last news the PBX has yet to deliver is what the mailbox holds.            *)
News(l) ==
    /\ l \in Listed /\ sub[l] = "none" => l \in Range(jobs) \/ ~NoneAt("subscribe", l)
    /\ l \in Listed /\ sub[l] \in {"taken", "freed", "lost"} =>
          \E t \in Thread : Has(t, "unlist", l)
    /\ sub[l] = "listed" => l \in pbx \/ ~NoneAt("watch", l)
    /\ l \in pbx => IF queue[l] = <<>> THEN shown[l] = mail
                    ELSE queue[l][Len(queue[l])] \in {"change", mail}

LineInv(l) ==
    /\ l \notin made => Unmade(l)
    /\ Ordered(l) /\ Ended(l) /\ Counted(l) /\ News(l)

(* The inductive invariant *)
IInv == TypeOK /\ StackInv /\ OnceInv /\ \A l \in Line : LineInv(l)

(***************************************************************************)
(* Lists in which a line comes once                                        *)
(***************************************************************************)
(* Taking the first line off *)
LEMMA TakenOff ==
    ASSUME NEW q \in Seq(Line), q # <<>>, Once(q)
    PROVE  /\ Tail(q) \in Seq(Line) /\ Once(Tail(q)) /\ Head(q) \in Range(q)
           /\ Range(Tail(q)) = Range(q) \ {Head(q)}
<1> DEFINE r == Tail(q)
<1>1. /\ Len(q) \in Nat \ {0} /\ r \in Seq(Line) /\ Len(r) = Len(q) - 1
      /\ \A i \in 1 .. Len(r) : r[i] = q[i + 1]
      /\ Head(q) = q[1] /\ DOMAIN q = 1 .. Len(q) /\ DOMAIN r = 1 .. Len(r)
  OBVIOUS
<1> HIDE DEF r
<1>2. Once(r)
  BY <1>1 DEF Once
<1>3. Range(r) = Range(q) \ {Head(q)}
  <2>1. ASSUME NEW i \in DOMAIN r PROVE r[i] \in Range(q) /\ r[i] # Head(q)
    <3>1. i + 1 \in DOMAIN q /\ i + 1 # 1 /\ 1 \in DOMAIN q
      BY <1>1
    <3> QED
      BY <1>1, <3>1 DEF Once, Range
  <2>2. ASSUME NEW i \in DOMAIN q, q[i] # Head(q) PROVE q[i] \in Range(r)
    <3>1. i - 1 \in DOMAIN r /\ r[i - 1] = q[i]
      BY <1>1, <2>2
    <3> QED
      BY <3>1 DEF Range
  <2> QED
    BY <2>1, <2>2 DEF Range
<1>4. Head(q) \in Range(q)
  BY <1>1 DEF Range
<1> QED
  BY <1>1, <1>2, <1>3, <1>4 DEF r

(* Adding a line that is not in the list, in front and at the end *)
LEMMA PutOn ==
    ASSUME NEW q \in Seq(Line), Once(q), NEW l \in Line, l \notin Range(q)
    PROVE  /\ <<l>> \o q \in Seq(Line) /\ Once(<<l>> \o q)
           /\ Range(<<l>> \o q) = Range(q) \cup {l}
           /\ Append(q, l) \in Seq(Line) /\ Once(Append(q, l))
           /\ Range(Append(q, l)) = Range(q) \cup {l}
<1>1. Len(q) \in Nat /\ DOMAIN q = 1 .. Len(q) /\ \A i \in 1 .. Len(q) : q[i] \in Range(q)
  BY DEF Range
<1>2. PICK r \in Seq(Line) : r = <<l>> \o q
  <2>1. <<l>> \in Seq(Line)
    OBVIOUS
  <2>2. <<l>> \o q \in Seq(Line)
    BY <2>1
  <2> QED
    BY <2>2, Zenon
<1>3. /\ Len(r) = Len(q) + 1 /\ DOMAIN r = 1 .. Len(r) /\ r[1] = l
      /\ \A i \in 1 .. Len(q) : r[i + 1] = q[i]
  BY <1>1, <1>2
<1>4. \A i \in 1 .. Len(r) : i # 1 => i - 1 \in 1 .. Len(q) /\ r[i] = q[i - 1]
  BY <1>1, <1>3
<1>5. Once(r)
  <2> SUFFICES ASSUME NEW i \in 1 .. Len(r), NEW k \in 1 .. Len(r), r[i] = r[k] PROVE i = k
    BY <1>3 DEF Once
  <2>1. CASE i # 1 /\ k # 1
    <3>1. i - 1 = k - 1
      BY <1>1, <1>4, <2>1 DEF Once
    <3> QED
      BY <1>1, <1>3, <3>1
  <2>2. CASE i = 1 \/ k = 1
    BY <1>1, <1>3, <1>4, <2>2
  <2> QED
    BY <2>1, <2>2
<1>6. Range(r) = Range(q) \cup {l}
  <2>1. \A i \in DOMAIN r : r[i] \in Range(q) \cup {l}
    BY <1>1, <1>3, <1>4
  <2>2. \A i \in DOMAIN q : q[i] \in Range(r)
    <3> TAKE i \in DOMAIN q
    <3>1. i + 1 \in DOMAIN r /\ r[i + 1] = q[i]
      BY <1>1, <1>3
    <3> QED
      BY <3>1 DEF Range
  <2>3. l \in Range(r)
    BY <1>1, <1>3 DEF Range
  <2> QED
    BY <2>1, <2>2, <2>3 DEF Range
<1>7. PICK z \in Seq(Line) : z = Append(q, l)
  <2>1. Append(q, l) \in Seq(Line)
    OBVIOUS
  <2> QED
    BY <2>1, Zenon
<1>8. /\ Len(z) = Len(q) + 1 /\ DOMAIN z = 1 .. Len(z) /\ z[Len(z)] = l
      /\ \A i \in 1 .. Len(q) : z[i] = q[i]
  BY <1>1, <1>7
<1>9. \A i \in 1 .. Len(z) : i # Len(z) => i \in 1 .. Len(q)
  BY <1>1, <1>8
<1>10. Once(z)
  BY <1>1, <1>8, <1>9 DEF Once
<1>11. Range(z) = Range(q) \cup {l}
  <2>1. \A i \in DOMAIN z : z[i] \in Range(q) \cup {l}
    BY <1>1, <1>8, <1>9
  <2>2. \A i \in DOMAIN q : i \in DOMAIN z /\ z[i] = q[i]
    BY <1>1, <1>8
  <2>3. Len(z) \in DOMAIN z
    BY <1>1, <1>8
  <2> QED
    BY <1>8, <2>1, <2>2, <2>3 DEF Range
<1> QED
  BY <1>2, <1>5, <1>6, <1>7, <1>10, <1>11

(* Removing a line that is in the list *)
LEMMA Removed ==
    ASSUME NEW q \in Seq(Line), Once(q), NEW l \in Range(q)
    PROVE  /\ RemoveFirst(q, l) \in Seq(Line) /\ Once(RemoveFirst(q, l))
           /\ Range(RemoveFirst(q, l)) = Range(q) \ {l}
<1>1. Len(q) \in Nat /\ DOMAIN q = 1 .. Len(q)
  OBVIOUS
<1>2. PICK n \in 1 .. Len(q) : q[n] = l
  BY <1>1 DEF Range
<1>3. {i \in 1 .. Len(q) : q[i] = l} = {n}
  BY <1>1, <1>2 DEF Once
<1>4. SelectInSeq(q, LAMBDA v : v = l) = n
  <2>1. SelectInSeq(q, LAMBDA v : v = l) =
           IF {i \in 1 .. Len(q) : q[i] = l} # {} THEN Min({i \in 1 .. Len(q) : q[i] = l}) ELSE 0
    BY DEF SelectInSeq
  <2>2. Min({n}) = n
    BY <1>1, <1>2 DEF Min
  <2> QED
    BY <1>3, <2>1, <2>2
<1>5. RemoveFirst(q, l) = RemoveAt(q, n)
  BY <1>2, <1>4 DEF RemoveFirst
<1>6. PICK r : r = RemoveFirst(q, l)
  OBVIOUS
<1>7. /\ r \in Seq(Line) /\ Len(r) = Len(q) - 1
      /\ \A i \in 1 .. Len(r) : r[i] = IF i < n THEN q[i] ELSE q[i + 1]
  <2>1. PICK a \in Seq(Line), b \in Seq(Line) :
           a = SubSeq(q, 1, n - 1) /\ b = SubSeq(q, n + 1, Len(q))
    <3>1. SubSeq(q, 1, n - 1) \in Seq(Line)
      BY <1>1, <1>2
    <3>2. SubSeq(q, n + 1, Len(q)) \in Seq(Line)
      BY <1>1, <1>2
    <3> QED
      BY <3>1, <3>2, Zenon
  <2>2. Len(a) = n - 1 /\ \A i \in 1 .. n - 1 : a[i] = q[i]
    BY <1>1, <1>2, <2>1
  <2>3. Len(b) = Len(q) - n /\ \A i \in 1 .. Len(q) - n : b[i] = q[n + i]
    <3>1. Len(b) = Len(q) - n
      <4>1. /\ n + 1 \in Int /\ Len(q) \in Int
            /\ \A i \in n + 1 .. Len(q) : q[i] \in Line
        BY <1>1, <1>2
      <4>2. Len(SubSeq(q, n + 1, Len(q))) =
               IF n + 1 <= Len(q) THEN Len(q) - (n + 1) + 1 ELSE 0
        BY <4>1, SubSeqProperties, Zenon
      <4>3. PICK k \in Nat : k = Len(q) /\ n \in 1 .. k
        BY <1>1, <1>2
      <4>4. (IF n + 1 <= k THEN k - (n + 1) + 1 ELSE 0) = k - n
        BY <4>3
      <4> QED
        BY <2>1, <4>2, <4>3, <4>4, Zenon
    <3>2. ASSUME NEW i \in 1 .. Len(q) - n PROVE b[i] = q[n + i]
      <4>1. b[i] = q[(n + 1) + i - 1]
        BY <1>1, <1>2, <2>1
      <4>2. (n + 1) + i - 1 = n + i
        BY <1>1, <1>2
      <4> QED
        BY <4>1, <4>2
    <3> QED
      BY <3>1, <3>2
  <2>4. r = a \o b
    BY <1>5, <1>6, <2>1 DEF RemoveAt
  <2>5. /\ r \in Seq(Line) /\ Len(r) = Len(a) + Len(b)
        /\ \A i \in 1 .. Len(a) + Len(b) : r[i] = IF i <= Len(a) THEN a[i] ELSE b[i - Len(a)]
    BY <2>4
  <2>6. Len(a) + Len(b) = Len(q) - 1
    BY <1>1, <1>2, <2>2, <2>3
  <2>7. ASSUME NEW i \in 1 .. Len(r) PROVE r[i] = IF i < n THEN q[i] ELSE q[i + 1]
    <3>1. CASE i < n
      BY <1>1, <1>2, <2>2, <2>5, <2>6, <3>1
    <3>2. CASE ~(i < n)
      <4>1. i - Len(a) \in 1 .. Len(q) - n /\ n + (i - Len(a)) = i + 1 /\ ~(i <= Len(a))
        BY <1>1, <1>2, <2>2, <2>5, <2>6, <3>2
      <4> QED
        BY <2>3, <2>5, <3>2, <4>1
    <3> QED
      BY <3>1, <3>2
  <2> QED
    BY <2>5, <2>6, <2>7
<1>8. \A i \in DOMAIN r :
         \E j \in DOMAIN q : j # n /\ r[i] = q[j] /\ j = IF i < n THEN i ELSE i + 1
  BY <1>1, <1>2, <1>7
<1>9. \A j \in DOMAIN q : j # n => \E i \in DOMAIN r : r[i] = q[j]
  <2> TAKE j \in DOMAIN q
  <2>1. CASE j < n
    <3>1. j \in DOMAIN r /\ r[j] = q[j]
      BY <1>1, <1>2, <1>7, <2>1
    <3> QED
      BY <3>1
  <2>2. CASE j > n
    <3>1. j - 1 \in DOMAIN r /\ r[j - 1] = q[j]
      BY <1>1, <1>2, <1>7, <2>2
    <3> QED
      BY <3>1
  <2> QED
    BY <1>1, <1>2, <2>1, <2>2
<1>10. Once(r)
  <2> SUFFICES ASSUME NEW i \in DOMAIN r, NEW k \in DOMAIN r, r[i] = r[k] PROVE i = k
    BY DEF Once
  <2>1. PICK j \in DOMAIN q : r[i] = q[j] /\ j = IF i < n THEN i ELSE i + 1
    BY <1>8
  <2>2. PICK m \in DOMAIN q : r[k] = q[m] /\ m = IF k < n THEN k ELSE k + 1
    BY <1>8
  <2>3. j = m
    BY <2>1, <2>2 DEF Once
  <2>4. i \in Nat /\ k \in Nat
    BY <1>7
  <2> QED
    BY <1>2, <2>1, <2>2, <2>3, <2>4
<1>11. Range(r) = Range(q) \ {l}
  <2>1. \A j \in DOMAIN q : q[j] = l => j = n
    BY <1>1, <1>2 DEF Once
  <2> QED
    BY <1>2, <1>8, <1>9, <2>1 DEF Range
<1> QED
  BY <1>6, <1>7, <1>10, <1>11

(***************************************************************************)
(* The other lines                                                         *)
(***************************************************************************)
SameLine(l) ==
    /\ l \in Listed' <=> l \in Listed
    /\ l \in Range(jobs)' <=> l \in Range(jobs)
    /\ l \in made' <=> l \in made
    /\ l \in pbx' <=> l \in pbx
    /\ l \in notifying' <=> l \in notifying
    /\ sub'[l] = sub[l] /\ attached'[l] = attached[l] /\ refs'[l] = refs[l]
    /\ queue'[l] = queue[l] /\ shown'[l] = shown[l] /\ mail' = mail
    /\ \A s \in Session : template'[s] = l <=> template[s] = l

(* A step on one line keeps what holds of another. *)
LEMMA OtherLine ==
    ASSUME TypeOK, NEW l \in Line, LineInv(l), SameLine(l), NEW line, line # l,
           NEW t \in Thread, NEW top, Effect(t, top, line)
    PROVE  LineInv(l)'
<1>1. \A u \in Thread : \A step \in Hot : At(u, step, l)' <=> At(u, step, l)
  BY DEF Effect
<1>2. /\ \A step \in Hot : NoneAt(step, l)' <=> NoneAt(step, l)
      /\ \A step \in Hot : OneAt(step, l)' <=> OneAt(step, l)
      /\ \A u \in Thread : Ending(u, l)' <=> Ending(u, l)
  <2>1. "unsubscribe" \in Hot /\ "join" \in Hot
    BY DEF Hot
  <2> QED
    BY <1>1, <2>1 DEF NoneAt, OneAt, Ending
<1>3. /\ "list" \in Hot /\ "subscribe" \in Hot /\ "watch" \in Hot
      /\ "join" \in Hot /\ "unsubscribe" \in Hot
  BY DEF Hot
<1>4. Ordered(l)'
  BY <1>2, <1>3 DEF LineInv, Ordered, SameLine
<1>5. Ended(l)'
  BY <1>2, <1>3 DEF LineInv, Ended, SameLine, Delivered
<1>6. Counted(l)'
  <2>1. Buttons(l)' = Buttons(l)
    BY DEF Buttons, SameLine
  <2>2. Puts(l)' = Puts(l)
    BY DEF Effect
  <2>3. One(l \in Listed)' = One(l \in Listed) /\ One(l \in Range(jobs))' = One(l \in Range(jobs))
    BY DEF One, SameLine
  <2> QED
    BY <2>1, <2>2, <2>3 DEF LineInv, Counted, SameLine
<1>7. News(l)'
  <2>1. \A u \in Thread : Has(u, "unlist", l) => Has(u, "unlist", l)'
    BY DEF Effect
  <2> QED
    BY <1>2, <1>3, <2>1 DEF LineInv, News, SameLine
<1>8. l \notin made' => Unmade(l)'
  <2>1. \A u \in Thread : Mentions(u, l)' => Mentions(u, l)
    BY DEF Effect
  <2> QED
    BY <2>1 DEF LineInv, Unmade, SameLine
<1> QED
  BY <1>4, <1>5, <1>6, <1>7, <1>8 DEF LineInv

(***************************************************************************)
(* The line of a step                                                      *)
(***************************************************************************)
(* The references of buttons, devices and of those who give theirs up *)
Users(l) == Cardinality(Buttons(l)) + Cardinality(attached[l]) + Cardinality(Puts(l))
Finite(l) == IsFiniteSet(Buttons(l)) /\ IsFiniteSet(attached[l]) /\ IsFiniteSet(Puts(l))

(* What adding to a set and taking from it does to its size *)
LEMMA Counts ==
    ASSUME NEW S, IsFiniteSet(S)
    PROVE  /\ Cardinality(S) \in Nat
           /\ \A x : x \notin S => /\ IsFiniteSet(S \cup {x})
                                  /\ Cardinality(S \cup {x}) = Cardinality(S) + 1
           /\ \A x \in S : /\ IsFiniteSet(S \ {x}) /\ Cardinality(S) > 0
                           /\ Cardinality(S \ {x}) = Cardinality(S) - 1
           /\ Cardinality(S) = 0 <=> S = {}
<1>1. Cardinality(S) \in Nat
  BY FS_CardinalityType
<1>2. ASSUME NEW x, x \notin S
      PROVE  IsFiniteSet(S \cup {x}) /\ Cardinality(S \cup {x}) = Cardinality(S) + 1
  BY <1>2, FS_AddElement
<1>3. Cardinality(S) = 0 <=> S = {}
  BY FS_EmptySet
<1>4. ASSUME NEW x \in S
      PROVE  /\ IsFiniteSet(S \ {x}) /\ Cardinality(S) > 0
             /\ Cardinality(S \ {x}) = Cardinality(S) - 1
  <2>1. S # {}
    OBVIOUS
  <2> QED
    BY <1>1, <1>3, <2>1, FS_RemoveElement
<1> QED
  BY <1>1, <1>2, <1>3, <1>4

(* The references to be given up, after a step *)
LEMMA PutsCount ==
    ASSUME NEW l, IsFiniteSet(Puts(l))
    PROVE  /\ Cardinality(Puts(l)) \in Nat
           /\ SamePuts(l) => IsFiniteSet(Puts(l)') /\ Cardinality(Puts(l)') = Cardinality(Puts(l))
           /\ MorePuts(l) =>
                 IsFiniteSet(Puts(l)') /\ Cardinality(Puts(l)') = Cardinality(Puts(l)) + 1
           /\ FewerPuts(l) =>
                 IsFiniteSet(Puts(l)') /\ Cardinality(Puts(l)') = Cardinality(Puts(l)) - 1
BY Counts DEF SamePuts, MorePuts, FewerPuts

(* A listed line, a line of a job and a line that a thread deals with are made. *)
LEMMA Known ==
    ASSUME TypeOK, NEW l \in Line, LineInv(l),
           \/ l \in Listed \/ l \in Range(jobs) \/ sub[l] # "none" \/ attached[l] # {}
           \/ \E s \in Session : template[s] = l
           \/ \E t \in Thread, step \in Step : At(t, step, l)
    PROVE  l \in made
<1>1. ASSUME NEW t \in Thread, NEW step \in Step, At(t, step, l) PROVE Mentions(t, l)
  <2>1. Depth(t) \in Nat /\ Depth(t) > 0 /\ Below(t, Depth(t)) = <<step, l>>
    BY <1>1, OnTop, TypeFacts
  <2> QED
    BY <2>1 DEF Mentions
<1> QED
  BY <1>1 DEF LineInv, Unmade

(* After a step that only begins or ends a step that matters to nobody else *)
LEMMA Cooler ==
    ASSUME NEW l \in Line, NEW t \in Thread, Effect(t, "none", l)
    PROVE  \A step \in Hot : \A u \in Thread : At(u, step, l)' <=> u # t /\ At(u, step, l)
BY DEF Effect, Hot

(* The steps on a line that other threads must know of *)
LEMMA HotSteps ==
    /\ "list" \in Hot /\ "subscribe" \in Hot /\ "watch" \in Hot
    /\ "join" \in Hot /\ "unsubscribe" \in Hot
BY DEF Hot

(* A thread is at one step. *)
LEMMA OneTop ==
    ASSUME NEW t, NEW step, NEW l, At(t, step, l)
    PROVE  \A other, m : At(t, other, m) => other = step /\ m = l
BY DEF At

(* Nothing changes for the subscription of the line. *)
Calm(l) ==
    /\ l \in Listed' <=> l \in Listed
    /\ l \in Range(jobs)' <=> l \in Range(jobs)
    /\ l \in made /\ l \in made'
    /\ l \in pbx' <=> l \in pbx
    /\ l \in notifying' <=> l \in notifying
    /\ sub'[l] = sub[l] /\ queue'[l] = queue[l] /\ shown'[l] = shown[l] /\ mail' = mail

(* A step that is nothing to the subscription keeps what holds of the line, if the *)
(* count is right after it.                                                        *)
LEMMA CalmLine ==
    ASSUME NEW l \in Line, LineInv(l), Calm(l), NEW t \in Thread, Effect(t, "none", l),
           \A step \in Hot : ~At(t, step, l), KeepsUnlist(l), Counted(l)'
    PROVE  LineInv(l)'
<1>1. \A u \in Thread : \A step \in Hot : At(u, step, l)' <=> At(u, step, l)
  BY Cooler
<1>2. /\ \A step \in Hot : NoneAt(step, l)' <=> NoneAt(step, l)
      /\ \A step \in Hot : OneAt(step, l)' <=> OneAt(step, l)
      /\ \A u \in Thread : Ending(u, l)' <=> Ending(u, l)
  BY <1>1, HotSteps DEF NoneAt, OneAt, Ending
<1>3. Ordered(l)'
  BY <1>2, HotSteps DEF LineInv, Ordered, Calm
<1>4. Ended(l)'
  BY <1>2, HotSteps DEF LineInv, Ended, Calm, Delivered
<1>5. News(l)'
  BY <1>2, HotSteps DEF LineInv, News, Calm, KeepsUnlist
<1> QED
  BY <1>3, <1>4, <1>5 DEF LineInv, Calm

(* Sums of the three kinds of users and the three single ones *)
LEMMA CountedFacts ==
    ASSUME NEW l, Counted(l)
    PROVE  /\ Cardinality(Buttons(l)) \in Nat /\ Cardinality(attached[l]) \in Nat
           /\ Cardinality(Puts(l)) \in Nat /\ Finite(l)
           /\ refs[l] = Users(l) + One(l \in Listed) + One(l \in Range(jobs))
                        + One(sub[l] \in {"listed", "taken"})
           /\ refs[l] \in Nat
BY Counts DEF Counted, Users, Finite, One

(* The single users of a line, and the count after a step *)
Ones(l) == One(l \in Listed) + One(l \in Range(jobs)) + One(sub[l] \in {"listed", "taken"})

Changed(l) ==
    refs[l] + (Cardinality(Buttons(l)') - Cardinality(Buttons(l)))
            + (Cardinality(attached'[l]) - Cardinality(attached[l]))
            + (Cardinality(Puts(l)') - Cardinality(Puts(l))) + (Ones(l)' - Ones(l))

(* These are numbers. *)
LEMMA OnesInt ==
    ASSUME NEW l
    PROVE  /\ One(l \in Listed) \in Int /\ One(l \in Range(jobs)) \in Int
           /\ One(sub[l] \in {"listed", "taken"}) \in Int /\ Ones(l) \in Int
           /\ One(l \in Listed)' \in Int /\ One(l \in Range(jobs))' \in Int
           /\ One(sub[l] \in {"listed", "taken"})' \in Int /\ Ones(l)' \in Int
BY DEF One, Ones

(* The count stays right when it moves as the users do. *)
LEMMA Recount ==
    ASSUME NEW l, Counted(l), IsFiniteSet(Buttons(l)'), IsFiniteSet(attached'[l]),
           IsFiniteSet(Puts(l)'), refs'[l] = Changed(l)
    PROVE  Counted(l)'
<1> DEFINE cb == Cardinality(Buttons(l))
           ca == Cardinality(attached[l])
           cp == Cardinality(Puts(l))
           db == Cardinality(Buttons(l)')
           da == Cardinality(attached'[l])
           dp == Cardinality(Puts(l)')
<1>1. /\ cb \in Nat /\ ca \in Nat /\ cp \in Nat /\ db \in Nat /\ da \in Nat /\ dp \in Nat
      /\ Ones(l) \in Int /\ Ones(l)' \in Int
  BY CountedFacts, FS_CardinalityType, OnesInt
<1>2. refs[l] = cb + ca + cp + Ones(l)
  <2>1. refs[l] = cb + ca + cp + One(l \in Listed) + One(l \in Range(jobs))
                     + One(sub[l] \in {"listed", "taken"})
    BY CountedFacts DEF Users
  <2> HIDE DEF cb, ca, cp
  <2> QED
    BY <1>1, <2>1, OnesInt DEF Ones
<1>3. refs'[l] = db + da + dp + Ones(l)'
  <2>1. refs'[l] = refs[l] + (db - cb) + (da - ca) + (dp - cp) + (Ones(l)' - Ones(l))
    BY DEF Changed
  <2> HIDE DEF cb, ca, cp, db, da, dp
  <2> QED
    BY <1>1, <1>2, <2>1
<1>4. refs'[l] = db + da + dp + One(l \in Listed)' + One(l \in Range(jobs))'
                 + One(sub[l] \in {"listed", "taken"})'
  <2> HIDE DEF db, da, dp
  <2> QED
    BY <1>1, <1>3, OnesInt DEF Ones
<1> QED
  BY <1>4 DEF Counted

(* None of the single users changes. *)
LEMMA OnesSame ==
    ASSUME NEW l \in Line, UNCHANGED <<lines, jobs, sub>>
    PROVE  Ones(l)' = Ones(l)
BY DEF Ones, One, Listed

(* A phone finds the line, or has to make one. *)
LEMMA RegisterLines ==
    ASSUME IInv, NEW s \in Session, Register(s)
    PROVE  OnceInv' /\ \A l \in Line : LineInv(l)'
<1> USE TypeFacts, Members DEF IInv
<1>1. OnceInv'
  BY DEF OnceInv, Register
<1>2. CASE lines = <<>>
  <2>1. \A m \in Line : SameLine(m)
    BY <1>2 DEF Register, SameLine, Listed, subVars, mailVars
  <2>2. Effect(s, "none", None)
    BY <1>2, RegisterDoes DEF Quietly
  <2> QED
    BY <1>1, <2>1, <2>2, OtherLine
<1>3. CASE lines # <<>>
  <2>1. PICK l \in Line : l = Head(lines) /\ l \in Listed
    BY <1>3
  <2>2. Effect(s, "none", l) /\ KeepsUnlist(l) /\ SamePuts(l)
    BY <1>3, <2>1, RegisterDoes DEF Quietly
  <2>3. /\ refs' = [refs EXCEPT ![l] = @ + 1] /\ template' = [template EXCEPT ![s] = l]
        /\ template[s] = None
    BY <1>3, <2>1 DEF Register, Retain
  <2>4. /\ refs \in [Line -> Nat] /\ template \in [Session -> Line \cup {None}]
        /\ UNCHANGED <<made, lines, attached, jobs, subVars, mailVars>>
    BY DEF Register, TypeOK
  <2>5. ASSUME NEW m \in Line \ {l} PROVE LineInv(m)'
    <3>1. SameLine(m)
      BY <2>3, <2>4 DEF SameLine, Listed, subVars, mailVars
    <3> QED
      BY <2>2, <3>1, OtherLine
  <2>6. LineInv(l)'
    <3>1. Calm(l)
      <4>1. l \in made
        BY <2>1, Known
      <4> QED
        BY <2>4, <4>1 DEF Calm, Listed, subVars, mailVars
    <3>2. Buttons(l)' = Buttons(l) \cup {s} /\ s \notin Buttons(l)
      BY <2>3, <2>4 DEF Buttons
    <3>3. Counted(l)'
      <4>1. Counted(l)
        BY DEF LineInv
      <4>2. refs'[l] = refs[l] + 1
        BY <2>3, <2>4
      <4>3. IsFiniteSet(Buttons(l)') /\ Cardinality(Buttons(l)') = Cardinality(Buttons(l)) + 1
        BY <3>2, <4>1, Counts DEF Counted
      <4>4. IsFiniteSet(Puts(l)') /\ Cardinality(Puts(l)') = Cardinality(Puts(l))
        BY <2>2, <4>1, PutsCount DEF Counted
      <4> QED
        BY <2>4, <4>1, <4>2, <4>3, <4>4, CountedFacts
           DEF Counted, Users, Listed, One, subVars
    <3>4. \A step : ~At(s, step, l)
      BY DEF Register, Idle, At
    <3> QED
      BY <2>2, <3>1, <3>3, <3>4, CalmLine
  <2> QED
    BY <1>1, <2>5, <2>6
<1> QED
  BY <1>2, <1>3

(* The line is not made. *)
LEMMA RefusedLines ==
    ASSUME IInv, NEW s \in Session, Refused(s)
    PROVE  OnceInv' /\ \A l \in Line : LineInv(l)'
<1> USE TypeFacts, Members DEF IInv
<1>1. OnceInv'
  BY DEF OnceInv, Refused, lineVars
<1>2. \A m \in Line : SameLine(m)
  BY DEF Refused, SameLine, Listed, lineVars, phoneVars, subVars, mailVars
<1>3. Effect(s, "none", None)
  BY EffectDone DEF Refused
<1> QED
  BY <1>1, <1>2, <1>3, OtherLine

(* A device is attached. *)
LEMMA AttachLines ==
    ASSUME IInv, NEW s \in Session, NEW l \in Line, Attach(s, l)
    PROVE  OnceInv' /\ \A m \in Line : LineInv(m)'
<1> USE TypeFacts, Members DEF IInv
<1>1. OnceInv'
  BY DEF OnceInv, Attach
<1>2. At(s, "attach", l) /\ Effect(s, "none", l) /\ KeepsUnlist(l) /\ SamePuts(l)
  BY EffectDone DEF Attach
<1>3. /\ refs \in [Line -> Nat] /\ attached \in [Line -> SUBSET Session]
      /\ UNCHANGED <<made, lines, template, jobs, subVars, mailVars>>
      /\ IF s \in attached[l] THEN UNCHANGED <<attached, refs>>
         ELSE /\ attached' = [attached EXCEPT ![l] = @ \cup {s}]
              /\ refs' = [refs EXCEPT ![l] = @ + 1]
  BY DEF Attach, TypeOK, Retain
<1>4. ASSUME NEW m \in Line \ {l} PROVE LineInv(m)'
  <2>1. SameLine(m)
    BY <1>3 DEF SameLine, Listed, subVars, mailVars
  <2> QED
    BY <1>2, <2>1, OtherLine
<1>5. LineInv(l)'
  <2>1. Calm(l)
    <3>1. l \in made
      BY <1>2, Known DEF Step
    <3> QED
      BY <1>3, <3>1 DEF Calm, Listed, subVars, mailVars
  <2>2. Counted(l)'
    <3>1. Counted(l) /\ Buttons(l)' = Buttons(l)
      BY <1>3 DEF LineInv, Buttons
    <3>2. IsFiniteSet(Puts(l)') /\ Cardinality(Puts(l)') = Cardinality(Puts(l))
      BY <1>2, <3>1, PutsCount DEF Counted
    <3>3. CASE s \in attached[l]
      BY <1>3, <3>1, <3>2, <3>3 DEF Counted, Listed, One, subVars
    <3>4. CASE s \notin attached[l]
      <4>1. attached'[l] = attached[l] \cup {s} /\ refs'[l] = refs[l] + 1
        BY <1>3, <3>4
      <4>2. IsFiniteSet(attached'[l]) /\ Cardinality(attached'[l]) = Cardinality(attached[l]) + 1
        <5>1. IsFiniteSet(attached[l])
          BY <3>1 DEF Counted
        <5>2. /\ IsFiniteSet(attached[l] \cup {s})
              /\ Cardinality(attached[l] \cup {s}) = Cardinality(attached[l]) + 1
          BY <5>1, <3>4, Counts
        <5> QED
          BY <5>2, <4>1
      <4> QED
        BY <1>3, <3>1, <3>2, <4>1, <4>2, CountedFacts
           DEF Counted, Users, Listed, One, subVars
    <3> QED
      BY <3>3, <3>4
  <2>3. \A step \in Hot : ~At(s, step, l)
    BY <1>2, OneTop DEF Hot
  <2> QED
    BY <1>2, <2>1, <2>2, <2>3, CalmLine
<1> QED
  BY <1>1, <1>4, <1>5

(* A phone is cleaned: it holds the line it finds. *)
LEMMA CleanLines ==
    ASSUME IInv, NEW s \in Session, Clean(s)
    PROVE  OnceInv' /\ \A l \in Line : LineInv(l)'
<1> USE TypeFacts, Members DEF IInv
<1>1. OnceInv'
  BY DEF OnceInv, Clean, lineVars
<1>2. CASE lines = <<>>
  <2>1. \A m \in Line : SameLine(m)
    BY <1>2 DEF Clean, SameLine, Listed, phoneVars, subVars, mailVars
  <2>2. Effect(s, "none", None)
    BY <1>2, CleanDoes DEF Quietly
  <2> QED
    BY <1>1, <2>1, <2>2, OtherLine
<1>3. CASE lines # <<>>
  <2>1. PICK l \in Line : l = Head(lines) /\ l \in Listed
    BY <1>3
  <2>2. Effect(s, "none", l) /\ KeepsUnlist(l) /\ MorePuts(l)
    BY <1>3, <2>1, CleanDoes DEF Holding
  <2>3. /\ refs \in [Line -> Nat] /\ refs' = [refs EXCEPT ![l] = @ + 1]
        /\ UNCHANGED <<made, lines, template, attached, jobs, subVars, mailVars>>
    BY <1>3, <2>1 DEF Clean, Retain, TypeOK, phoneVars
  <2>4. ASSUME NEW m \in Line \ {l} PROVE LineInv(m)'
    <3>1. SameLine(m)
      BY <2>3 DEF SameLine, Listed, subVars, mailVars
    <3> QED
      BY <2>2, <3>1, OtherLine
  <2>5. LineInv(l)'
    <3>1. Calm(l)
      <4>1. l \in made
        BY <2>1, Known
      <4> QED
        BY <2>3, <4>1 DEF Calm, Listed, subVars, mailVars
    <3>2. Counted(l)'
      <4>1. Counted(l) /\ Buttons(l)' = Buttons(l)
        BY <2>3 DEF LineInv, Buttons
      <4>2. refs'[l] = refs[l] + 1
        BY <2>3
      <4>3. IsFiniteSet(Puts(l)') /\ Cardinality(Puts(l)') = Cardinality(Puts(l)) + 1
        BY <2>2, <4>1, PutsCount DEF Counted
      <4>4. Ones(l)' = Ones(l)
        BY <2>3, OnesSame DEF subVars
      <4>5. /\ IsFiniteSet(Buttons(l)') /\ Cardinality(Buttons(l)') = Cardinality(Buttons(l))
            /\ IsFiniteSet(attached'[l]) /\ Cardinality(attached'[l]) = Cardinality(attached[l])
        BY <2>3, <4>1, CountedFacts DEF Counted
      <4>6. refs'[l] = Changed(l)
        BY <4>1, <4>2, <4>3, <4>4, <4>5, CountedFacts, OnesInt DEF Changed
      <4> QED
        BY <4>1, <4>3, <4>4, <4>5, <4>6, Recount
    <3>3. \A step : ~At(s, step, l)
      BY DEF Clean, Idle, At
    <3> QED
      BY <2>2, <3>1, <3>2, <3>3, CalmLine
  <2> QED
    BY <1>1, <2>4, <2>5
<1> QED
  BY <1>2, <1>3

(* A reload holds the line it deletes. *)
LEMMA DeleteLines ==
    ASSUME IInv, NEW l \in Line, Delete(l)
    PROVE  OnceInv' /\ \A m \in Line : LineInv(m)'
<1> USE TypeFacts, Members DEF IInv
<1>1. OnceInv'
  BY DEF OnceInv, Delete
<1>2. Effect(Admin, "none", l) /\ KeepsUnlist(l) /\ MorePuts(l)
  BY DeleteDoes DEF Holding
<1>3. /\ refs \in [Line -> Nat] /\ refs' = [refs EXCEPT ![l] = @ + 1] /\ l \in Listed
      /\ UNCHANGED <<made, lines, template, attached, jobs, subVars, mailVars>>
  BY DEF Delete, Retain, TypeOK
<1>4. ASSUME NEW m \in Line \ {l} PROVE LineInv(m)'
  <2>1. SameLine(m)
    BY <1>3 DEF SameLine, Listed, subVars, mailVars
  <2> QED
    BY <1>2, <2>1, OtherLine
<1>5. LineInv(l)'
  <2>1. Calm(l)
    <3>1. l \in made
      BY <1>3, Known
    <3> QED
      BY <1>3, <3>1 DEF Calm, Listed, subVars, mailVars
  <2>2. Counted(l)'
    <3>1. Counted(l) /\ Buttons(l)' = Buttons(l)
      BY <1>3 DEF LineInv, Buttons
    <3>2. refs'[l] = refs[l] + 1
      BY <1>3
    <3>3. IsFiniteSet(Puts(l)') /\ Cardinality(Puts(l)') = Cardinality(Puts(l)) + 1
      BY <1>2, <3>1, PutsCount DEF Counted
    <3>4. Ones(l)' = Ones(l)
      BY <1>3, OnesSame DEF subVars
    <3>5. /\ IsFiniteSet(Buttons(l)') /\ Cardinality(Buttons(l)') = Cardinality(Buttons(l))
          /\ IsFiniteSet(attached'[l]) /\ Cardinality(attached'[l]) = Cardinality(attached[l])
      BY <1>3, <3>1, CountedFacts DEF Counted
    <3>6. refs'[l] = Changed(l)
      BY <3>1, <3>2, <3>3, <3>4, <3>5, CountedFacts, OnesInt DEF Changed
    <3> QED
      BY <3>1, <3>3, <3>4, <3>5, <3>6, Recount
  <2>3. \A step : ~At(Admin, step, l)
    BY DEF Delete, Idle, At
  <2> QED
    BY <1>2, <2>1, <2>2, <2>3, CalmLine
<1> QED
  BY <1>1, <1>4, <1>5

(* A device leaves the line, or all of them do. *)
LEMMA LeaveLines ==
    ASSUME IInv, NEW t \in Thread, NEW l \in Line,
           \/ t \in Session /\ RemoveDevice(t, l)
           \/ t = Admin /\ Purge(l)
    PROVE  OnceInv' /\ \A m \in Line : LineInv(m)'
<1> USE TypeFacts, Members DEF IInv
<1>1. OnceInv'
  BY DEF OnceInv, RemoveDevice, Purge
<1>2. PICK step \in {"remove", "purge"} :
         At(t, step, l) /\ (Done(t) \/ Then(t, CleanLine(l)))
  BY DEF RemoveDevice, Purge
<1>3. Effect(t, "none", l) /\ KeepsUnlist(l) /\ SamePuts(l)
  <2>1. CASE Done(t)
    BY <1>2, <2>1, EffectDone
  <2>2. CASE Then(t, CleanLine(l))
    BY <1>2, <2>2, RemoveDoes DEF Quietly
  <2> QED
    BY <1>2, <2>1, <2>2
<1>4. /\ refs \in [Line -> Nat] /\ attached \in [Line -> SUBSET Session]
      /\ UNCHANGED <<made, lines, template, jobs, subVars, mailVars>>
  BY DEF RemoveDevice, Purge, TypeOK
<1>5. /\ \A m \in Line \ {l} : attached'[m] = attached[m] /\ refs'[m] = refs[m]
      /\ \/ attached'[l] = attached[l] /\ refs'[l] = refs[l]
         \/ /\ t \in attached[l] /\ attached'[l] = attached[l] \ {t}
            /\ refs'[l] = refs[l] - 1
         \/ attached'[l] = {} /\ refs'[l] = refs[l] - Cardinality(attached[l])
  <2>1. CASE RemoveDevice(t, l)
    BY <1>4, <2>1 DEF RemoveDevice, Release
  <2>2. CASE Purge(l)
    BY <1>4, <2>2 DEF Purge, Release
  <2> QED
    BY <2>1, <2>2
<1>6. ASSUME NEW m \in Line \ {l} PROVE LineInv(m)'
  <2>1. SameLine(m)
    BY <1>4, <1>5 DEF SameLine, Listed, subVars, mailVars
  <2> QED
    BY <1>3, <2>1, OtherLine
<1>7. LineInv(l)'
  <2>1. Calm(l)
    <3>1. l \in made
      BY <1>2, Known DEF Step
    <3> QED
      BY <1>4, <3>1 DEF Calm, Listed, subVars, mailVars
  <2>2. Counted(l)'
    <3>1. Counted(l) /\ Buttons(l)' = Buttons(l)
      BY <1>4 DEF LineInv, Buttons
    <3>2. IsFiniteSet(Puts(l)') /\ Cardinality(Puts(l)') = Cardinality(Puts(l))
      BY <1>3, <3>1, PutsCount DEF Counted
    <3>3. CASE attached'[l] = attached[l] /\ refs'[l] = refs[l]
      BY <1>4, <3>1, <3>2, <3>3 DEF Counted, Listed, One, subVars
    <3>4. CASE t \in attached[l] /\ attached'[l] = attached[l] \ {t} /\ refs'[l] = refs[l] - 1
      <4>1. IsFiniteSet(attached'[l]) /\ Cardinality(attached'[l]) = Cardinality(attached[l]) - 1
        BY <3>1, <3>4, Counts DEF Counted
      <4> QED
        BY <1>4, <3>1, <3>2, <3>4, <4>1, CountedFacts, SMTT(30)
           DEF Counted, Users, Listed, One, subVars
    <3>5. CASE attached'[l] = {} /\ refs'[l] = refs[l] - Cardinality(attached[l])
      <4>1. IsFiniteSet(attached'[l]) /\ Cardinality(attached'[l]) = 0
        BY <3>5, FS_EmptySet
      <4> QED
        BY <1>4, <3>1, <3>2, <3>5, <4>1, CountedFacts, SMTT(30)
           DEF Counted, Users, Listed, One, subVars
    <3> QED
      BY <1>5, <3>3, <3>4, <3>5
  <2>3. \A other \in Hot : ~At(t, other, l)
    BY <1>2, OneTop DEF Hot
  <2> QED
    BY <1>3, <2>1, <2>2, <2>3, CalmLine
<1> QED
  BY <1>1, <1>6, <1>7

(* The devices are unlocked. *)
LEMMA UnlockLines ==
    ASSUME IInv, NEW t \in Cleaner, NEW l \in Line, Unlock(t, l)
    PROVE  OnceInv' /\ \A m \in Line : LineInv(m)'
<1> USE TypeFacts, Members DEF IInv
<1>1. OnceInv'
  BY DEF OnceInv, Unlock, lineVars
<1>2. At(t, "unlock", l) /\ Effect(t, "none", l) /\ KeepsUnlist(l) /\ SamePuts(l)
  BY EffectDone DEF Unlock
<1>3. UNCHANGED <<made, refs, lines, template, attached, jobs, subVars, mailVars>>
  BY DEF Unlock, lineVars
<1>4. \A m \in Line : SameLine(m)
  BY <1>3 DEF SameLine, Listed, subVars, mailVars
<1>5. \A m \in Line \ {l} : LineInv(m)'
  BY <1>2, <1>4, OtherLine
<1>6. LineInv(l)'
  <2>1. Calm(l)
    <3>1. l \in made
      BY <1>2, Known DEF Step
    <3> QED
      BY <1>3, <3>1 DEF Calm, Listed, subVars, mailVars
  <2>2. Counted(l)'
    <3>1. Counted(l) /\ Buttons(l)' = Buttons(l)
      BY <1>3 DEF LineInv, Buttons
    <3> QED
      BY <1>2, <1>3, <3>1 DEF Counted, SamePuts, Listed, One, subVars
  <2>3. \A step \in Hot : ~At(t, step, l)
    BY <1>2, OneTop DEF Hot
  <2> QED
    BY <1>2, <2>1, <2>2, <2>3, CalmLine
<1> QED
  BY <1>1, <1>5, <1>6

(* A reference is given up. *)
LEMMA PutLines ==
    ASSUME IInv, NEW t \in Thread, NEW l \in Line, Put(t, l)
    PROVE  OnceInv' /\ \A m \in Line : LineInv(m)'
<1> USE TypeFacts, Members DEF IInv
<1>1. OnceInv'
  BY DEF OnceInv, Put
<1>2. At(t, "put", l) /\ Effect(t, "none", l) /\ KeepsUnlist(l) /\ FewerPuts(l)
  BY EffectDone DEF Put
<1>3. /\ refs \in [Line -> Nat] /\ refs' = [refs EXCEPT ![l] = @ - 1]
      /\ UNCHANGED <<made, lines, template, attached, jobs, subVars, mailVars>>
  BY DEF Put, Release, TypeOK, phoneVars
<1>4. ASSUME NEW m \in Line \ {l} PROVE LineInv(m)'
  <2>1. SameLine(m)
    BY <1>3 DEF SameLine, Listed, subVars, mailVars
  <2> QED
    BY <1>2, <2>1, OtherLine
<1>5. LineInv(l)'
  <2>1. Calm(l)
    <3>1. l \in made
      BY <1>2, Known DEF Step
    <3> QED
      BY <1>3, <3>1 DEF Calm, Listed, subVars, mailVars
  <2>2. Counted(l)'
    <3>1. Counted(l) /\ Buttons(l)' = Buttons(l)
      BY <1>3 DEF LineInv, Buttons
    <3>2. refs'[l] = refs[l] - 1
      BY <1>3
    <3>3. IsFiniteSet(Puts(l)') /\ Cardinality(Puts(l)') = Cardinality(Puts(l)) - 1
      BY <1>2, <3>1, PutsCount DEF Counted
    <3> QED
      BY <1>3, <3>1, <3>2, <3>3, CountedFacts, SMTT(30) DEF Counted, Users, Listed, One, subVars
  <2>3. \A step \in Hot : ~At(t, step, l)
    BY <1>2, OneTop DEF Hot
  <2> QED
    BY <1>2, <2>1, <2>2, <2>3, CalmLine
<1> QED
  BY <1>1, <1>4, <1>5

(* The button template is freed. *)
LEMMA ForgetLines ==
    ASSUME IInv, NEW s \in Session, Forget(s)
    PROVE  OnceInv' /\ \A m \in Line : LineInv(m)'
<1> USE TypeFacts, Members DEF IInv
<1>1. OnceInv'
  BY DEF OnceInv, Forget
<1>2. /\ At(s, "forget", None) /\ Effect(s, "none", None) /\ template[s] \in Line
  BY EffectDone, Tops DEF Forget
<1>3. PICK l \in Line : l = template[s]
  BY <1>2
<1>4. /\ refs \in [Line -> Nat] /\ refs' = [refs EXCEPT ![l] = @ - 1]
      /\ template \in [Session -> Line \cup {None}] /\ template' = [template EXCEPT ![s] = None]
      /\ UNCHANGED <<made, lines, attached, jobs, subVars, mailVars>>
  BY <1>3 DEF Forget, Release, TypeOK
<1>5. Effect(s, "none", l) /\ KeepsUnlist(l) /\ SamePuts(l)
  <2>1. \A step : ~At(s, step, l)
    BY <1>2, OneTop
  <2>2. \A u \in Thread : \A step \in Hot : At(u, step, l)' <=> At(u, step, l)
    BY <1>2 DEF Effect
  <2> QED
    BY <1>2, <2>1, <2>2 DEF Effect, KeepsUnlist, SamePuts, Hot
<1>6. ASSUME NEW m \in Line \ {l} PROVE LineInv(m)'
  <2>1. SameLine(m)
    BY <1>3, <1>4 DEF SameLine, Listed, subVars, mailVars
  <2> QED
    BY <1>5, <2>1, OtherLine
<1>7. LineInv(l)'
  <2>1. Calm(l)
    <3>1. l \in made
      BY <1>3, Known
    <3> QED
      BY <1>4, <3>1 DEF Calm, Listed, subVars, mailVars
  <2>2. Counted(l)'
    <3>1. Counted(l) /\ Buttons(l)' = Buttons(l) \ {s} /\ s \in Buttons(l)
      BY <1>3, <1>4 DEF LineInv, Buttons
    <3>2. refs'[l] = refs[l] - 1
      BY <1>4
    <3>3. IsFiniteSet(Puts(l)') /\ Cardinality(Puts(l)') = Cardinality(Puts(l))
      BY <1>5, <3>1, PutsCount DEF Counted
    <3>4. IsFiniteSet(Buttons(l)') /\ Cardinality(Buttons(l)') = Cardinality(Buttons(l)) - 1
      BY <3>1, Counts DEF Counted
    <3>5. Ones(l)' = Ones(l)
      BY <1>4, OnesSame DEF subVars
    <3>6. /\ IsFiniteSet(Puts(l)') /\ Cardinality(Puts(l)') = Cardinality(Puts(l))
          /\ IsFiniteSet(attached'[l]) /\ Cardinality(attached'[l]) = Cardinality(attached[l])
      BY <1>4, <3>1, <3>3, CountedFacts DEF Counted
    <3>7. refs'[l] = Changed(l)
      BY <3>1, <3>2, <3>4, <3>5, <3>6, CountedFacts, OnesInt DEF Changed
    <3> QED
      BY <3>1, <3>4, <3>5, <3>6, <3>7, Recount
  <2>3. \A step \in Hot : ~At(s, step, l)
    BY <1>2, OneTop
  <2> QED
    BY <1>5, <2>1, <2>2, <2>3, CalmLine
<1> QED
  BY <1>1, <1>6, <1>7

(***************************************************************************)
(* Steps that change what is known of a line                               *)
(***************************************************************************)
(* The same threads have the line on top for a step as before. *)
Stays(step, l) ==
    /\ NoneAt(step, l)' <=> NoneAt(step, l)
    /\ OneAt(step, l)' <=> OneAt(step, l)

(* A thread leaves step cur, which matters, *)
LEMMA Left ==
    ASSUME NEW l \in Line, NEW t \in Thread, NEW cur \in Hot, At(t, cur, l), OneAt(cur, l),
           Effect(t, "none", l)
    PROVE  /\ NoneAt(cur, l)' /\ OneAt(cur, l)'
           /\ \A step \in Hot \ {cur} : Stays(step, l)
           /\ \A u \in Thread : \A step \in Hot : At(u, step, l)' <=> u # t /\ At(u, step, l)
<1>1. "none" \notin Hot
  BY DEF Hot
<1>2. \A step \in Hot : At(t, step, l) => step = cur
  BY OneTop
<1>3. \A step \in Hot : \A u \in Thread : At(u, step, l)' <=> u # t /\ At(u, step, l)
  BY <1>1 DEF Effect
<1>4. NoneAt(cur, l)' /\ OneAt(cur, l)'
  BY <1>3 DEF NoneAt, OneAt
<1>5. ASSUME NEW step \in Hot \ {cur}
      PROVE  Stays(step, l)
  BY <1>2, <1>3 DEF Stays, NoneAt, OneAt
<1> QED
  BY <1>3, <1>4, <1>5

(* or comes to step top, which does, *)
LEMMA Reached ==
    ASSUME NEW l \in Line, NEW t \in Thread, NEW top \in Hot, NoneAt(top, l),
           Effect(t, top, l), \A step \in Hot : ~At(t, step, l)
    PROVE  /\ At(t, top, l)' /\ ~NoneAt(top, l)' /\ OneAt(top, l)'
           /\ \A step \in Hot \ {top} : Stays(step, l)
           /\ \A u \in Thread : \A step \in Hot :
                 At(u, step, l)' <=> IF u = t THEN step = top ELSE At(u, step, l)
<1>1. \A step \in Hot : \A u \in Thread :
         At(u, step, l)' <=> IF u = t THEN step = top ELSE At(u, step, l)
  BY DEF Effect
<1>2. At(t, top, l)' /\ ~NoneAt(top, l)' /\ OneAt(top, l)'
  BY <1>1 DEF NoneAt, OneAt
<1>3. ASSUME NEW step \in Hot \ {top}
      PROVE  Stays(step, l)
  BY <1>1 DEF Stays, NoneAt, OneAt
<1> QED
  BY <1>1, <1>2, <1>3

(* or goes on from the one to the other. *)
LEMMA Passed ==
    ASSUME NEW l \in Line, NEW t \in Thread, NEW cur \in Hot, NEW top \in Hot \ {cur},
           At(t, cur, l), OneAt(cur, l), NoneAt(top, l), Effect(t, top, l)
    PROVE  /\ At(t, top, l)' /\ ~NoneAt(top, l)' /\ OneAt(top, l)'
           /\ NoneAt(cur, l)' /\ OneAt(cur, l)'
           /\ \A step \in Hot \ {cur, top} : Stays(step, l)
           /\ \A u \in Thread : \A step \in Hot :
                 At(u, step, l)' <=> IF u = t THEN step = top ELSE At(u, step, l)
<1>1. \A step \in Hot : \A u \in Thread :
         At(u, step, l)' <=> IF u = t THEN step = top ELSE At(u, step, l)
  BY DEF Effect
<1>2. \A step \in Hot : At(t, step, l) => step = cur
  BY OneTop
<1>3. At(t, top, l)' /\ ~NoneAt(top, l)' /\ OneAt(top, l)'
  BY <1>1 DEF NoneAt, OneAt
<1>4. NoneAt(cur, l)' /\ OneAt(cur, l)'
  BY <1>1 DEF NoneAt, OneAt
<1>5. ASSUME NEW step \in Hot \ {cur, top}
      PROVE  Stays(step, l)
  BY <1>1, <1>2 DEF Stays, NoneAt, OneAt
<1> QED
  BY <1>1, <1>3, <1>4, <1>5

(* A step that does not matter to anybody else, whatever comes on top *)
LEMMA Cooled ==
    ASSUME NEW t, NEW top, NEW l, Effect(t, top, l), top \notin Hot
    PROVE  Effect(t, "none", l)
BY DEF Effect, Hot

(* A new line comes to the thread that makes it. *)
LEMMA CreateLines ==
    ASSUME IInv, NEW s \in Session, Create(s)
    PROVE  OnceInv' /\ \A m \in Line : LineInv(m)'
<1> USE TypeFacts, Members DEF IInv
<1>1. OnceInv'
  BY DEF OnceInv, Create
<1>2. PICK l \in Line \ made :
         /\ made' = made \cup {l} /\ refs' = [refs EXCEPT ![l] = 1]
         /\ template' = [template EXCEPT ![s] = l]
         /\ Then(s, <<<<"list", l>>, <<"attach", l>>>>)
  BY DEF Create
<1>3. At(s, "create", None) /\ Effect(s, "list", l) /\ KeepsUnlist(l) /\ SamePuts(l)
  BY <1>2, CreateDoes DEF Create, Quietly
<1>4. template[s] = None
  BY <1>3, Tops DEF Making
<1>5. /\ refs \in [Line -> Nat] /\ template \in [Session -> Line \cup {None}]
      /\ UNCHANGED <<lines, attached, jobs, subVars, mailVars>>
  BY DEF Create, TypeOK
<1>6. ASSUME NEW m \in Line \ {l} PROVE LineInv(m)'
  <2>1. SameLine(m)
    BY <1>2, <1>4, <1>5 DEF SameLine, Listed, subVars, mailVars
  <2> QED
    BY <1>3, <2>1, OtherLine
<1>7. LineInv(l)'
  <2>1. Unmade(l) /\ Ended(l) /\ Counted(l)
    BY <1>2 DEF LineInv
  <2>2. \A step : \A u \in Thread : ~At(u, step, l)
    <3> TAKE step
    <3> TAKE u \in Thread
    <3>1. At(u, step, l) => Depth(u) \in Nat /\ Depth(u) > 0 /\ Below(u, Depth(u)) = <<step, l>>
      BY OnTop
    <3> QED
      BY <2>1, <3>1 DEF Unmade, Mentions
  <2>3. /\ l \notin Listed' /\ l \notin Range(jobs)' /\ sub'[l] = "none" /\ attached'[l] = {}
        /\ l \in made' /\ l \notin pbx' /\ Delivered(l)'
    BY <1>2, <1>5, <2>1, <2>2, HotSteps
       DEF Unmade, Listed, subVars, Ended, Ending, Delivered, NoneAt
  <2>4. \A step \in Hot : \A u \in Thread : At(u, step, l)' <=> u = s /\ step = "list"
    BY <1>3, <2>2 DEF Effect
  <2>5. Ordered(l)'
    BY <2>3, <2>4, HotSteps DEF Ordered, OneAt, NoneAt
  <2>6. Ended(l)'
    BY <2>3, <2>4, HotSteps DEF Ended, Ending, NoneAt
  <2>7. News(l)'
    BY <2>3 DEF News
  <2>8. Counted(l)'
    <3>1. Buttons(l) = {} /\ attached[l] = {}
      BY <2>1 DEF Unmade, Buttons
    <3>2. Puts(l) = {}
      <4>1. ASSUME NEW q \in Puts(l) PROVE FALSE
        <5>1. q[1] \in Thread /\ q[2] \in 1 .. Depth(q[1]) /\ Below(q[1], q[2]) = <<"put", l>>
          BY DEF Puts
        <5> QED
          BY <2>1, <5>1 DEF Unmade, Mentions
      <4> QED
        BY <4>1
    <3>3. Puts(l)' = {} /\ attached'[l] = {} /\ refs'[l] = 1
      BY <1>2, <1>3, <1>5, <2>3, <3>2 DEF SamePuts
    <3>4. Buttons(l)' = {s}
      BY <1>2, <1>5, <2>1 DEF Unmade, Buttons
    <3>5. /\ One(l \in Listed)' = 0 /\ One(l \in Range(jobs))' = 0
          /\ One(sub[l] \in {"listed", "taken"})' = 0
      BY <2>3 DEF One
    <3>6. IsFiniteSet({s}) /\ Cardinality({s}) = 1 /\ IsFiniteSet({}) /\ Cardinality({}) = 0
      BY FS_EmptySet, FS_Singleton
    <3> QED
      BY <3>3, <3>4, <3>5, <3>6 DEF Counted
  <2> QED
    BY <2>3, <2>5, <2>6, <2>7, <2>8 DEF LineInv
<1> QED
  BY <1>1, <1>6, <1>7

(* The line is listed, and the job is queued. *)
LEMMA ListLines ==
    ASSUME IInv, NEW s \in Session, NEW l \in Line, List(s, l)
    PROVE  OnceInv' /\ \A m \in Line : LineInv(m)'
<1> USE TypeFacts, Members DEF IInv
<1>1. At(s, "list", l) /\ Effect(s, "none", l) /\ KeepsUnlist(l) /\ SamePuts(l)
  BY EffectDone DEF List
<1>2. /\ refs \in [Line -> Nat] /\ refs' = [refs EXCEPT ![l] = @ + 2]
      /\ lines' = <<l>> \o lines /\ jobs' = Append(jobs, l)
      /\ UNCHANGED <<made, template, attached, subVars, mailVars>>
  BY DEF List, TypeOK, phoneVars
<1>3. /\ l \notin Listed /\ l \notin Range(jobs) /\ NoneAt("subscribe", l) /\ sub[l] = "none"
      /\ Ordered(l) /\ Ended(l) /\ Counted(l) /\ l \in made
  <2>1. l \in made
    BY <1>1, Known DEF Step
  <2>2. ~NoneAt("list", l)
    BY <1>1 DEF NoneAt
  <2> QED
    BY <2>1, <2>2 DEF LineInv, Ordered
<1>4. lines \in Seq(Line) /\ jobs \in Seq(Line) /\ Once(lines) /\ Once(jobs)
  BY DEF TypeOK, OnceInv
<1>5. /\ Once(lines') /\ Once(jobs') /\ Range(lines') = Range(lines) \cup {l}
      /\ Range(jobs') = Range(jobs) \cup {l}
  BY <1>2, <1>3, <1>4, PutOn DEF Listed
<1>6. OnceInv'
  BY <1>5 DEF OnceInv
<1>7. ASSUME NEW m \in Line \ {l} PROVE LineInv(m)'
  <2>1. SameLine(m)
    BY <1>2, <1>5 DEF SameLine, Listed, subVars, mailVars
  <2> QED
    BY <1>1, <2>1, OtherLine
<1>8. LineInv(l)'
  <2>1. /\ NoneAt("list", l)' /\ OneAt("list", l)'
        /\ \A step \in Hot \ {"list"} : Stays(step, l)
    <3>1. OneAt("list", l) /\ "list" \in Hot
      BY <1>3, HotSteps DEF Ordered
    <3> QED
      BY <1>1, <3>1, Left
  <2>2. /\ l \in Listed' /\ l \in Range(jobs)' /\ sub'[l] = "none" /\ l \in made'
        /\ pbx' = pbx /\ (Delivered(l)' <=> Delivered(l))
    BY <1>2, <1>3, <1>5 DEF Listed, subVars, Delivered
  <2>3. NoneAt("watch", l) /\ l \notin pbx /\ NoneAt("join", l) /\ NoneAt("unsubscribe", l)
    BY <1>3 DEF Ordered, Ended, Ending, NoneAt
  <2>4. Ordered(l)'
    BY <1>3, <2>1, <2>2, <2>3, HotSteps DEF Ordered, Stays
  <2>5. Ended(l)'
    <3>1. \A u \in Thread : ~Ending(u, l)'
      <4>1. NoneAt("unsubscribe", l)' /\ NoneAt("join", l)'
        <5>1. "unsubscribe" \in Hot \ {"list"} /\ "join" \in Hot \ {"list"}
          BY HotSteps
        <5> QED
          BY <2>1, <2>3, <5>1 DEF Stays
      <4> QED
        BY <4>1 DEF Ending, NoneAt
    <3> QED
      BY <1>3, <2>1, <2>2, <2>3, <3>1, HotSteps DEF Ended, Stays
  <2>6. News(l)'
    BY <2>2, <2>3 DEF News
  <2>7. Counted(l)'
    <3>1. Buttons(l)' = Buttons(l) /\ attached'[l] = attached[l] /\ Puts(l)' = Puts(l)
      BY <1>1, <1>2 DEF Buttons, SamePuts
    <3>2. Ones(l)' = Ones(l) + 2
      <4>1. /\ One(l \in Listed)' = 1 /\ One(l \in Range(jobs))' = 1
            /\ One(sub[l] \in {"listed", "taken"})' = 0
        BY <2>2 DEF One
      <4>2. /\ One(l \in Listed) = 0 /\ One(l \in Range(jobs)) = 0
            /\ One(sub[l] \in {"listed", "taken"}) = 0
        BY <1>3 DEF One
      <4> QED
        BY <4>1, <4>2 DEF Ones
    <3>3. refs'[l] = refs[l] + 2
      BY <1>2
    <3>4. refs'[l] = Changed(l)
      BY <1>3, <3>1, <3>2, <3>3, CountedFacts, OnesInt DEF Changed
    <3> QED
      BY <1>3, <3>1, <3>4, Recount DEF Counted
  <2> QED
    BY <2>2, <2>4, <2>5, <2>6, <2>7 DEF LineInv
<1> QED
  BY <1>6, <1>7, <1>8

(* The line is released, and its subscription is taken off the list. *)
LEMMA DestroyedLines ==
    ASSUME IInv, NEW t \in Cleaner, NEW l \in Line, Destroyed(t, l)
    PROVE  OnceInv' /\ \A m \in Line : LineInv(m)'
<1> USE TypeFacts, Members DEF IInv
<1>1. OnceInv'
  BY DEF OnceInv, Destroyed
<1>2. /\ refs \in [Line -> Nat] /\ refs' = [refs EXCEPT ![l] = @ + 1] /\ At(t, "destroyed", l)
      /\ UNCHANGED <<made, lines, template, attached, jobs>>
      /\ UNCHANGED <<pbx, queue, notifying, shown, mailVars>>
  BY DEF Destroyed, Retain, TypeOK, phoneVars
<1>3. \A step \in Hot : ~At(t, step, l)
  BY <1>2, OneTop DEF Hot
<1>4. l \in made /\ Ordered(l) /\ Ended(l) /\ Counted(l) /\ News(l)
  BY <1>2, Known DEF LineInv, Step
<1>5. CASE sub[l] = "listed"
  <2>1. sub' = [sub EXCEPT ![l] = "taken"] /\ Effect(t, "unsubscribe", l)
           /\ KeepsUnlist(l) /\ MorePuts(l)
    BY <1>5, EndingDoes DEF Destroyed, Holding
  <2>2. sub \in [Line -> {"none", "listed", "taken", "freed", "lost"}]
    BY DEF TypeOK
  <2>3. ASSUME NEW m \in Line \ {l} PROVE LineInv(m)'
    <3>1. SameLine(m)
      BY <1>2, <2>1, <2>2 DEF SameLine, Listed, mailVars
    <3> QED
      BY <2>1, <3>1, OtherLine
  <2>4. \A u \in Thread : ~Ending(u, l)
    BY <1>4, <1>5 DEF Ended
  <2>5. NoneAt("unsubscribe", l) /\ NoneAt("join", l)
    BY <2>4 DEF Ending, NoneAt
  <2>6. /\ At(t, "unsubscribe", l)' /\ OneAt("unsubscribe", l)'
        /\ \A step \in Hot \ {"unsubscribe"} : Stays(step, l)
        /\ \A u \in Thread : \A step \in Hot :
              At(u, step, l)' <=> IF u = t THEN step = "unsubscribe" ELSE At(u, step, l)
    BY <1>3, <2>1, <2>5, HotSteps, Reached
  <2>7. Stays("list", l) /\ Stays("subscribe", l) /\ Stays("watch", l) /\ Stays("join", l)
    BY <2>6, HotSteps
  <2>8. /\ l \in Listed' <=> l \in Listed
        /\ l \in Range(jobs)' <=> l \in Range(jobs)
        /\ sub'[l] = "taken" /\ l \in made' /\ pbx' = pbx /\ (Delivered(l)' <=> Delivered(l))
    BY <1>2, <1>4, <2>1, <2>2 DEF Listed, Delivered
  <2>9. Ordered(l)'
    BY <1>4, <1>5, <2>7, <2>8 DEF Ordered, Stays
  <2>10. Ended(l)'
    <3>1. \A u \in Thread : Ending(u, l)' <=> u = t
      BY <2>4, <2>6, HotSteps DEF Ending
    <3> QED
      BY <1>4, <1>5, <2>5, <2>7, <2>8, <3>1 DEF Ended, Stays
  <2>11. News(l)'
    <3>1. Has(t, "unlist", l)
      <4>1. CleanStack(t, l, Base(t)) /\ Base(t) \in Nat /\ Base(t) > 0
        BY <1>2, Removing DEF Removal, Base
      <4>2. Depth(t) \in Nat /\ Depth(t) > 0 /\ Below(t, Depth(t)) = <<"destroyed", l>>
        BY <1>2, OnTop
      <4>3. Depth(t) > Base(t) /\ Below(t, Depth(t) - 1) = <<"unlist", l>>
        BY <4>1, <4>2 DEF CleanStack
      <4> QED
        BY <4>1, <4>2, <4>3 DEF Has
    <3>2. Has(t, "unlist", l)'
      BY <2>1, <3>1 DEF KeepsUnlist
    <3>3. l \in pbx' => IF queue'[l] = <<>> THEN shown'[l] = mail'
                       ELSE queue'[l][Len(queue'[l])] \in {"change", mail'}
      BY <1>2, <1>4 DEF News, mailVars
    <3> QED
      BY <2>8, <3>2, <3>3 DEF News
  <2>12. Counted(l)'
    <3>1. Buttons(l)' = Buttons(l) /\ attached'[l] = attached[l]
      BY <1>2 DEF Buttons
    <3>2. IsFiniteSet(Puts(l)') /\ Cardinality(Puts(l)') = Cardinality(Puts(l)) + 1
      BY <1>4, <2>1, PutsCount DEF Counted
    <3>3. Ones(l)' = Ones(l)
      BY <1>5, <2>8 DEF Ones, One
    <3>4. refs'[l] = refs[l] + 1
      BY <1>2
    <3>5. refs'[l] = Changed(l)
      BY <1>4, <3>1, <3>2, <3>3, <3>4, CountedFacts, OnesInt DEF Changed
    <3> QED
      BY <1>4, <3>1, <3>2, <3>5, Recount DEF Counted
  <2>13. LineInv(l)'
    BY <2>8, <2>9, <2>10, <2>11, <2>12 DEF LineInv
  <2> QED
    BY <1>1, <2>3, <2>13
<1>6. CASE sub[l] # "listed"
  <2>1. sub' = sub /\ Effect(t, "put", l) /\ KeepsUnlist(l) /\ MorePuts(l)
    <3>1. sub' = sub /\ Then(t, <<<<"put", l>>>>)
      BY <1>6 DEF Destroyed
    <3>2. "put" \in Step
      BY DEF Step
    <3> QED
      BY <1>2, <3>1, <3>2, EffectOne
  <2>2. Effect(t, "none", l)
    BY <2>1, Cooled DEF Hot
  <2>3. \A m \in Line : SameLine(m) \/ m = l
    BY <1>2, <2>1 DEF SameLine, Listed, mailVars
  <2>4. \A m \in Line \ {l} : LineInv(m)'
    BY <2>2, <2>3, OtherLine
  <2>5. Calm(l)
    BY <1>2, <1>4, <2>1 DEF Calm, Listed, mailVars
  <2>6. Counted(l)'
    <3>1. Buttons(l)' = Buttons(l) /\ attached'[l] = attached[l]
      BY <1>2 DEF Buttons
    <3>2. IsFiniteSet(Puts(l)') /\ Cardinality(Puts(l)') = Cardinality(Puts(l)) + 1
      BY <1>4, <2>1, PutsCount DEF Counted
    <3>3. Ones(l)' = Ones(l)
      BY <1>2, <2>1, OnesSame
    <3>4. refs'[l] = refs[l] + 1
      BY <1>2
    <3>5. refs'[l] = Changed(l)
      BY <1>4, <3>1, <3>2, <3>3, <3>4, CountedFacts, OnesInt DEF Changed
    <3> QED
      BY <1>4, <3>1, <3>2, <3>5, Recount DEF Counted
  <2> QED
    BY <1>1, <1>3, <2>1, <2>2, <2>4, <2>5, <2>6, CalmLine
<1> QED
  BY <1>5, <1>6

(* The line leaves the list. *)
LEMMA UnlistLines ==
    ASSUME IInv, NEW t \in Cleaner, NEW l \in Line, Unlist(t, l)
    PROVE  OnceInv' /\ \A m \in Line : LineInv(m)'
<1> USE TypeFacts, Members DEF IInv
<1>1. At(t, "unlist", l) /\ Effect(t, "none", l) /\ SamePuts(l)
  BY EffectDone DEF Unlist
<1>2. /\ refs \in [Line -> Nat] /\ lines \in Seq(Line) /\ Once(lines) /\ Once(jobs)
      /\ UNCHANGED <<made, template, attached, jobs, subVars, mailVars>>
  BY DEF Unlist, TypeOK, OnceInv, phoneVars
<1>3. \A step \in Hot : ~At(t, step, l)
  BY <1>1, OneTop DEF Hot
<1>4. l \in made /\ Ordered(l) /\ Ended(l) /\ Counted(l) /\ News(l)
  BY <1>1, Known DEF LineInv, Step
<1>5. /\ Once(lines') /\ Range(lines') = Listed \ {l}
      /\ refs' = [refs EXCEPT ![l] = @ - One(l \in Listed)]
  <2>1. CASE l \in Listed
    BY <1>2, <2>1, Removed DEF Unlist, Release, Listed, One
  <2>2. CASE l \notin Listed
    <3>1. refs' = refs /\ refs[l] - 0 = refs[l] /\ lines' = lines
      BY <1>2, <2>2 DEF Unlist
    <3>2. [refs EXCEPT ![l] = @ - One(l \in Listed)] = refs
      BY <1>2, <2>2, <3>1 DEF One
    <3> QED
      BY <1>2, <2>2, <3>1, <3>2 DEF Listed
  <2> QED
    BY <2>1, <2>2
<1>6. OnceInv'
  BY <1>2, <1>5 DEF OnceInv
<1>7. ASSUME NEW m \in Line \ {l} PROVE LineInv(m)'
  <2>1. SameLine(m)
    BY <1>2, <1>5 DEF SameLine, Listed, subVars, mailVars
  <2> QED
    BY <1>1, <2>1, OtherLine
<1>8. LineInv(l)'
  <2>1. \A u \in Thread : \A step \in Hot : At(u, step, l)' <=> At(u, step, l)
    BY <1>1, <1>3 DEF Effect, Hot
  <2>2. /\ \A step \in Hot : NoneAt(step, l)' <=> NoneAt(step, l)
        /\ \A step \in Hot : OneAt(step, l)' <=> OneAt(step, l)
        /\ \A u \in Thread : Ending(u, l)' <=> Ending(u, l)
    BY <2>1, HotSteps DEF NoneAt, OneAt, Ending
  <2>3. /\ l \notin Listed' /\ (l \in Range(jobs)' <=> l \in Range(jobs)) /\ sub'[l] = sub[l]
        /\ l \in made' /\ pbx' = pbx /\ (Delivered(l)' <=> Delivered(l))
        /\ queue' = queue /\ shown' = shown /\ mail' = mail
    BY <1>2, <1>4, <1>5 DEF Listed, subVars, mailVars, Delivered
  <2>4. Ordered(l)'
    BY <1>4, <2>2, <2>3, HotSteps DEF Ordered
  <2>5. Ended(l)'
    BY <1>4, <2>2, <2>3, HotSteps DEF Ended
  <2>6. News(l)'
    BY <1>4, <2>2, <2>3, HotSteps DEF News
  <2>7. Counted(l)'
    <3>1. Buttons(l)' = Buttons(l) /\ attached'[l] = attached[l] /\ Puts(l)' = Puts(l)
      BY <1>1, <1>2 DEF Buttons, SamePuts
    <3>2. Ones(l)' = Ones(l) - One(l \in Listed)
      <4>1. /\ One(l \in Listed)' = 0 /\ One(l \in Range(jobs))' = One(l \in Range(jobs))
            /\ One(sub[l] \in {"listed", "taken"})' = One(sub[l] \in {"listed", "taken"})
        BY <2>3 DEF One
      <4> QED
        BY <4>1, OnesInt DEF Ones
    <3>3. refs'[l] = refs[l] - One(l \in Listed)
      BY <1>2, <1>5
    <3>4. refs'[l] = Changed(l)
      BY <1>4, <3>1, <3>2, <3>3, CountedFacts, OnesInt, SMTT(30) DEF Changed
    <3> QED
      BY <1>4, <3>1, <3>4, Recount DEF Counted
  <2> QED
    BY <2>3, <2>4, <2>5, <2>6, <2>7 DEF LineInv
<1> QED
  BY <1>6, <1>7, <1>8

(* The subscription is freed. *)
LEMMA FreeLines ==
    ASSUME IInv, NEW t \in Cleaner, NEW l \in Line, NEW cur \in {"unsubscribe", "join"},
           At(t, cur, l), l \notin pbx, Delivered(l), Free(t, l),
           UNCHANGED <<made, lines, phoneVars, jobs, pbx, queue, notifying, shown, mailVars>>
    PROVE  OnceInv' /\ \A m \in Line : LineInv(m)'
<1> USE TypeFacts, Members DEF IInv
<1>1. OnceInv'
  BY DEF OnceInv
<1>2. Effect(t, "none", l) /\ KeepsUnlist(l) /\ SamePuts(l)
  BY EffectDone DEF Free
<1>3. /\ refs \in [Line -> Nat] /\ refs' = [refs EXCEPT ![l] = @ - 1]
      /\ sub \in [Line -> {"none", "listed", "taken", "freed", "lost"}]
      /\ sub' = [sub EXCEPT ![l] = "freed"]
      /\ UNCHANGED <<template, attached, mail>>
  BY DEF Free, Release, TypeOK, phoneVars, mailVars
<1>4. l \in made /\ Ordered(l) /\ Ended(l) /\ Counted(l) /\ News(l)
  <2>1. cur \in Step
    BY DEF Step
  <2> QED
    BY <2>1, Known DEF LineInv
<1>5. ASSUME NEW m \in Line \ {l} PROVE LineInv(m)'
  <2>1. SameLine(m)
    BY <1>3 DEF SameLine, Listed
  <2> QED
    BY <1>2, <2>1, OtherLine
<1>6. LineInv(l)'
  <2>1. Ending(t, l) /\ sub[l] = "taken" /\ \A u \in Thread : Ending(u, l) => u = t
    BY <1>4 DEF Ended, Ending
  <2>2. cur \in Hot /\ OneAt(cur, l)
    BY <2>1, HotSteps DEF OneAt, Ending
  <2>3. /\ NoneAt(cur, l)' /\ \A step \in Hot \ {cur} : Stays(step, l)
        /\ \A u \in Thread : \A step \in Hot : At(u, step, l)' <=> u # t /\ At(u, step, l)
    BY <1>2, <2>2, Left
  <2>4. Stays("list", l) /\ Stays("subscribe", l) /\ Stays("watch", l)
    BY <2>3, HotSteps
  <2>5. \A u \in Thread : ~Ending(u, l)'
    BY <2>1, <2>3, HotSteps DEF Ending
  <2>6. NoneAt("join", l)'
    BY <2>5 DEF NoneAt, Ending
  <2>7. /\ l \in Listed' <=> l \in Listed
        /\ l \in Range(jobs)' <=> l \in Range(jobs)
        /\ sub'[l] = "freed" /\ l \in made' /\ l \notin pbx' /\ Delivered(l)'
    BY <1>3, <1>4 DEF Listed, Delivered
  <2>8. Ordered(l)'
    BY <1>4, <2>1, <2>4, <2>6, <2>7 DEF Ordered, Stays
  <2>9. Ended(l)'
    BY <2>5, <2>7 DEF Ended
  <2>10. News(l)'
    <3>1. l \in Listed' => \E u \in Thread : Has(u, "unlist", l)'
      BY <1>2, <1>4, <2>1, <2>7 DEF News, KeepsUnlist
    <3> QED
      BY <2>7, <3>1 DEF News
  <2>11. Counted(l)'
    <3>1. Buttons(l)' = Buttons(l) /\ attached'[l] = attached[l] /\ Puts(l)' = Puts(l)
      BY <1>2, <1>3 DEF Buttons, SamePuts
    <3>2. Ones(l)' = Ones(l) - 1
      <4>1. /\ One(l \in Listed)' = One(l \in Listed)
            /\ One(l \in Range(jobs))' = One(l \in Range(jobs))
            /\ One(sub[l] \in {"listed", "taken"})' = 0 /\ One(sub[l] \in {"listed", "taken"}) = 1
        BY <2>1, <2>7 DEF One
      <4> QED
        BY <4>1, OnesInt DEF Ones
    <3>3. refs'[l] = refs[l] - 1
      BY <1>3
    <3>4. refs'[l] = Changed(l)
      BY <1>4, <3>1, <3>2, <3>3, CountedFacts, OnesInt DEF Changed
    <3> QED
      BY <1>4, <3>1, <3>4, Recount DEF Counted
  <2> QED
    BY <2>7, <2>8, <2>9, <2>10, <2>11 DEF LineInv
<1> QED
  BY <1>1, <1>5, <1>6

(* The PBX is told that the subscription ends, if it has it. *)
LEMMA UnsubscribeLines ==
    ASSUME IInv, NEW t \in Cleaner, NEW l \in Line, Unsubscribe(t, l)
    PROVE  OnceInv' /\ \A m \in Line : LineInv(m)'
<1> USE TypeFacts, Members DEF IInv
<1>1. At(t, "unsubscribe", l)
  BY DEF Unsubscribe
<1>2. l \in made /\ Ordered(l) /\ Ended(l) /\ Counted(l) /\ News(l)
  BY <1>1, Known DEF LineInv, Step
<1>3. Ending(t, l) /\ sub[l] = "taken" /\ \A u \in Thread : Ending(u, l) => u = t
  BY <1>1, <1>2 DEF Ended, Ending
<1>4. NoneAt("join", l) /\ OneAt("unsubscribe", l)
  <2>1. ~At(t, "join", l)
    BY <1>1, OneTop
  <2> QED
    BY <1>3, <2>1 DEF NoneAt, OneAt, Ending
<1>5. CASE l \in pbx
  <2>1. /\ pbx' = pbx \ {l} /\ Then(t, <<<<"join", l>>>>)
        /\ UNCHANGED <<made, refs, lines, template, attached, jobs>>
        /\ UNCHANGED <<sub, queue, notifying, shown, mail>>
    BY <1>5 DEF Unsubscribe, phoneVars, mailVars
  <2>2. Effect(t, "join", l) /\ KeepsUnlist(l) /\ SamePuts(l)
    <3>1. "join" \in Step
      BY DEF Step
    <3> QED
      BY <1>1, <2>1, <3>1, EffectOne
  <2>3. OnceInv'
    BY <2>1 DEF OnceInv
  <2>4. ASSUME NEW m \in Line \ {l} PROVE LineInv(m)'
    <3>1. SameLine(m)
      BY <2>1 DEF SameLine, Listed
    <3> QED
      BY <2>2, <3>1, OtherLine
  <2>5. /\ At(t, "join", l)' /\ ~NoneAt("join", l)' /\ NoneAt("unsubscribe", l)'
        /\ \A step \in Hot \ {"unsubscribe", "join"} : Stays(step, l)
        /\ \A u \in Thread : \A step \in Hot :
              At(u, step, l)' <=> IF u = t THEN step = "join" ELSE At(u, step, l)
    BY <1>1, <1>4, <2>2, HotSteps, Passed
  <2>6. Stays("list", l) /\ Stays("subscribe", l) /\ Stays("watch", l)
    BY <2>5, HotSteps
  <2>7. \A u \in Thread : Ending(u, l)' <=> u = t
    BY <1>3, <2>5, HotSteps DEF Ending
  <2>8. NoneAt("watch", l) /\ l \notin pbx' /\ sub'[l] = "taken" /\ l \in made'
    BY <1>2, <1>3, <1>5, <2>1 DEF Ordered
  <2>9. Ordered(l)'
    BY <1>2, <1>3, <2>1, <2>6, <2>8 DEF Ordered, Stays, Listed
  <2>10. Ended(l)'
    BY <2>5, <2>7, <2>8 DEF Ended
  <2>11. News(l)'
    <3>1. l \in Listed' => \E u \in Thread : Has(u, "unlist", l)'
      BY <1>2, <1>3, <2>1, <2>2 DEF News, KeepsUnlist, Listed
    <3> QED
      BY <2>8, <3>1 DEF News
  <2>12. Counted(l)'
    BY <1>2, <2>1, <2>2 DEF Counted, Buttons, SamePuts, Listed, One
  <2> QED
    BY <2>3, <2>4, <2>8, <2>9, <2>10, <2>11, <2>12 DEF LineInv
<1>6. CASE l \notin pbx
  <2>1. Delivered(l)
    BY <1>2, <1>4, <1>6 DEF Ended
  <2>2. /\ Free(t, l)
        /\ UNCHANGED <<made, lines, phoneVars, jobs, pbx, queue, notifying, shown, mailVars>>
    BY <1>6 DEF Unsubscribe
  <2> QED
    BY <1>1, <1>6, <2>1, <2>2, FreeLines
<1> QED
  BY <1>5, <1>6

(* Everything was delivered. *)
LEMMA JoinLines ==
    ASSUME IInv, NEW t \in Cleaner, NEW l \in Line, Join(t, l)
    PROVE  OnceInv' /\ \A m \in Line : LineInv(m)'
<1>1. At(t, "join", l) /\ Delivered(l) /\ Free(t, l) /\ t \in Thread
  BY Members DEF Join
<1>2. l \notin pbx
  BY <1>1 DEF IInv, LineInv, Ended, NoneAt
<1> QED
  BY <1>1, <1>2, FreeLines DEF Join

(* The pool begins to tell of a line. *)
LEMMA TakeLines ==
    ASSUME IInv, NEW w \in Worker, Take(w)
    PROVE  OnceInv' /\ \A m \in Line : LineInv(m)'
<1> USE TypeFacts, Members DEF IInv
<1>1. PICK l \in Line : l = Head(jobs) /\ l \in Range(jobs)
  BY DEF Take
<1>2. Effect(w, "subscribe", l) /\ KeepsUnlist(l) /\ MorePuts(l)
  BY <1>1, TakeDoes DEF Holding
<1>3. /\ jobs # <<>> /\ jobs' = Tail(jobs) /\ jobs \in Seq(Line) /\ Once(jobs)
      /\ UNCHANGED <<made, refs, lines, template, attached, subVars, mailVars>>
  BY DEF Take, TypeOK, OnceInv, lineVars, phoneVars
<1>4. Once(jobs') /\ Range(jobs') = Range(jobs) \ {l}
  BY <1>1, <1>3, TakenOff
<1>5. OnceInv'
  BY <1>3, <1>4 DEF OnceInv
<1>6. ASSUME NEW m \in Line \ {l} PROVE LineInv(m)'
  <2>1. SameLine(m)
    BY <1>3, <1>4 DEF SameLine, Listed, subVars, mailVars
  <2> QED
    BY <1>2, <2>1, OtherLine
<1>7. LineInv(l)'
  <2>1. l \in made /\ Ordered(l) /\ Ended(l) /\ Counted(l) /\ News(l)
    BY <1>1, Known DEF LineInv
  <2>2. /\ sub[l] = "none" /\ NoneAt("subscribe", l) /\ NoneAt("list", l) /\ NoneAt("watch", l)
        /\ l \notin pbx /\ \A u \in Thread : ~Ending(u, l)
    BY <1>1, <2>1 DEF Ordered, Ended
  <2>3. \A step \in Hot : ~At(w, step, l)
    BY DEF Take, Idle, At
  <2>4. /\ ~NoneAt("subscribe", l)' /\ OneAt("subscribe", l)'
        /\ \A step \in Hot \ {"subscribe"} : Stays(step, l)
        /\ \A u \in Thread : \A step \in Hot :
              At(u, step, l)' <=> IF u = w THEN step = "subscribe" ELSE At(u, step, l)
    BY <1>2, <2>2, <2>3, HotSteps, Reached
  <2>5. Stays("list", l) /\ Stays("watch", l) /\ Stays("join", l)
    BY <2>4, HotSteps
  <2>6. \A u \in Thread : ~Ending(u, l)'
    BY <2>2, <2>4, HotSteps DEF Ending
  <2>7. /\ l \in Listed' <=> l \in Listed
        /\ l \notin Range(jobs)' /\ sub'[l] = "none" /\ l \in made' /\ l \notin pbx'
        /\ Delivered(l)' <=> Delivered(l)
    BY <1>3, <1>4, <2>1, <2>2 DEF Listed, subVars, Delivered
  <2>8. Ordered(l)'
    BY <2>1, <2>2, <2>4, <2>5, <2>7 DEF Ordered, Stays
  <2>9. Ended(l)'
    BY <2>1, <2>2, <2>5, <2>6, <2>7 DEF Ended, Stays
  <2>10. News(l)'
    BY <2>4, <2>7 DEF News
  <2>11. Counted(l)'
    <3>1. Buttons(l)' = Buttons(l) /\ attached'[l] = attached[l]
      BY <1>3 DEF Buttons
    <3>2. IsFiniteSet(Puts(l)') /\ Cardinality(Puts(l)') = Cardinality(Puts(l)) + 1
      BY <1>2, <2>1, PutsCount DEF Counted
    <3>3. Ones(l)' = Ones(l) - 1
      <4>1. /\ One(l \in Listed)' = One(l \in Listed)
            /\ One(l \in Range(jobs))' = 0 /\ One(l \in Range(jobs)) = 1
            /\ One(sub[l] \in {"listed", "taken"})' = One(sub[l] \in {"listed", "taken"})
        BY <1>1, <2>2, <2>7 DEF One
      <4> QED
        BY <4>1, OnesInt DEF Ones
    <3>4. refs'[l] = refs[l]
      BY <1>3
    <3>5. refs'[l] = Changed(l)
      BY <2>1, <3>1, <3>2, <3>3, <3>4, CountedFacts, OnesInt, SMTT(30) DEF Changed
    <3> QED
      BY <2>1, <3>1, <3>2, <3>5, Recount DEF Counted
  <2> QED
    BY <2>7, <2>8, <2>9, <2>10, <2>11 DEF LineInv
<1> QED
  BY <1>5, <1>6, <1>7

(* The subscription is put on the list. *)
LEMMA SubscribeLines ==
    ASSUME IInv, NEW w \in Worker, NEW l \in Line, Subscribe(w, l)
    PROVE  OnceInv' /\ \A m \in Line : LineInv(m)'
<1> USE TypeFacts, Members DEF IInv
<1>1. At(w, "subscribe", l) /\ Then(w, <<<<"watch", l>>>>)
  BY DEF Subscribe
<1>2. Effect(w, "watch", l) /\ KeepsUnlist(l) /\ SamePuts(l)
  <2>1. "watch" \in Step
    BY DEF Step
  <2> QED
    BY <1>1, <2>1, EffectOne
<1>3. /\ refs \in [Line -> Nat] /\ refs' = [refs EXCEPT ![l] = @ + 1]
      /\ sub \in [Line -> {"none", "listed", "taken", "freed", "lost"}]
      /\ sub' = [sub EXCEPT ![l] = "listed"]
      /\ UNCHANGED <<made, lines, template, attached, jobs, pbx, queue, notifying, shown, mail>>
  BY DEF Subscribe, Retain, TypeOK, phoneVars, mailVars
<1>4. OnceInv'
  BY <1>3 DEF OnceInv
<1>5. ASSUME NEW m \in Line \ {l} PROVE LineInv(m)'
  <2>1. SameLine(m)
    BY <1>3 DEF SameLine, Listed
  <2> QED
    BY <1>2, <2>1, OtherLine
<1>6. LineInv(l)'
  <2>1. l \in made /\ Ordered(l) /\ Ended(l) /\ Counted(l) /\ News(l)
    BY <1>1, Known DEF LineInv, Step
  <2>2. ~NoneAt("subscribe", l)
    BY <1>1 DEF NoneAt
  <2>3. /\ sub[l] = "none" /\ NoneAt("list", l) /\ NoneAt("watch", l) /\ l \notin Range(jobs)
        /\ l \notin pbx /\ (\A u \in Thread : ~Ending(u, l)) /\ OneAt("subscribe", l)
    BY <2>1, <2>2 DEF Ordered, Ended
  <2>4. /\ ~NoneAt("watch", l)' /\ OneAt("watch", l)'
        /\ NoneAt("subscribe", l)' /\ OneAt("subscribe", l)'
        /\ \A step \in Hot \ {"subscribe", "watch"} : Stays(step, l)
        /\ \A u \in Thread : \A step \in Hot :
              At(u, step, l)' <=> IF u = w THEN step = "watch" ELSE At(u, step, l)
    BY <1>1, <1>2, <2>3, HotSteps, Passed
  <2>5. Stays("list", l) /\ Stays("join", l)
    BY <2>4, HotSteps
  <2>6. \A u \in Thread : ~Ending(u, l)'
    BY <2>3, <2>4, HotSteps DEF Ending
  <2>7. NoneAt("join", l)' /\ NoneAt("list", l)'
    BY <2>3, <2>5, <2>6 DEF NoneAt, Stays, Ending
  <2>8. /\ l \in Listed' <=> l \in Listed
        /\ l \notin Range(jobs)' /\ sub'[l] = "listed" /\ l \in made' /\ l \notin pbx'
        /\ Delivered(l)' <=> Delivered(l)
    BY <1>3, <2>1, <2>3 DEF Listed, Delivered
  <2>9. Ordered(l)'
    BY <2>1, <2>3, <2>4, <2>5, <2>7, <2>8 DEF Ordered, Stays
  <2>10. Ended(l)'
    BY <2>1, <2>3, <2>5, <2>6, <2>8 DEF Ended, Stays
  <2>11. News(l)'
    BY <2>4, <2>8 DEF News
  <2>12. Counted(l)'
    <3>1. Buttons(l)' = Buttons(l) /\ attached'[l] = attached[l] /\ Puts(l)' = Puts(l)
      BY <1>2, <1>3 DEF Buttons, SamePuts
    <3>2. Ones(l)' = Ones(l) + 1
      <4>1. /\ One(l \in Listed)' = One(l \in Listed)
            /\ One(l \in Range(jobs))' = One(l \in Range(jobs))
            /\ One(sub[l] \in {"listed", "taken"})' = 1 /\ One(sub[l] \in {"listed", "taken"}) = 0
        BY <1>3, <2>3, <2>8 DEF One
      <4> QED
        BY <4>1, OnesInt DEF Ones
    <3>3. refs'[l] = refs[l] + 1
      BY <1>3
    <3>4. refs'[l] = Changed(l)
      BY <2>1, <3>1, <3>2, <3>3, CountedFacts, OnesInt DEF Changed
    <3> QED
      BY <2>1, <3>1, <3>4, Recount DEF Counted
  <2> QED
    BY <2>8, <2>9, <2>10, <2>11, <2>12 DEF LineInv
<1> QED
  BY <1>4, <1>5, <1>6

(* The PBX is given the subscription. *)
LEMMA WatchLines ==
    ASSUME IInv, NEW w \in Worker, NEW l \in Line, Watch(w, l)
    PROVE  OnceInv' /\ \A m \in Line : LineInv(m)'
<1> USE TypeFacts, Members DEF IInv
<1>1. At(w, "watch", l) /\ Effect(w, "none", l) /\ KeepsUnlist(l) /\ SamePuts(l)
  BY EffectDone DEF Watch
<1>2. /\ UNCHANGED <<made, refs, lines, template, attached, jobs, notifying, shown, mail>>
      /\ sub \in [Line -> {"none", "listed", "taken", "freed", "lost"}]
      /\ queue \in [Line -> Seq(Mail \cup {"change"})]
      /\ IF sub[l] = "freed" THEN sub' = [sub EXCEPT ![l] = "lost"] /\ UNCHANGED <<pbx, queue>>
         ELSE /\ pbx' = pbx \cup {l} /\ queue' = [queue EXCEPT ![l] = <<"change">>]
              /\ UNCHANGED sub
  BY DEF Watch, TypeOK, lineVars, phoneVars, mailVars
<1>3. OnceInv'
  BY <1>2 DEF OnceInv
<1>4. ASSUME NEW m \in Line \ {l} PROVE LineInv(m)'
  <2>1. SameLine(m)
    BY <1>2 DEF SameLine, Listed
  <2> QED
    BY <1>1, <2>1, OtherLine
<1>5. LineInv(l)'
  <2>1. l \in made /\ Ordered(l) /\ Ended(l) /\ Counted(l) /\ News(l)
    BY <1>1, Known DEF LineInv, Step
  <2>2. ~NoneAt("watch", l)
    BY <1>1 DEF NoneAt
  <2>3. /\ sub[l] \in {"listed", "taken", "freed"} /\ NoneAt("subscribe", l) /\ NoneAt("list", l)
        /\ l \notin Range(jobs) /\ l \notin pbx /\ NoneAt("join", l) /\ OneAt("watch", l)
    BY <2>1, <2>2 DEF Ordered
  <2>4. /\ NoneAt("watch", l)' /\ OneAt("watch", l)'
        /\ \A step \in Hot \ {"watch"} : Stays(step, l)
        /\ \A u \in Thread : \A step \in Hot : At(u, step, l)' <=> u # w /\ At(u, step, l)
    BY <1>1, <2>3, HotSteps, Left
  <2>5. Stays("list", l) /\ Stays("subscribe", l) /\ Stays("join", l)
    BY <2>4, HotSteps
  <2>6. \A u \in Thread : Ending(u, l)' <=> Ending(u, l)
    <3>1. ~Ending(w, l)
      BY <1>1, OneTop DEF Ending
    <3> QED
      BY <2>4, <3>1, HotSteps DEF Ending
  <2>7. /\ l \in Listed' <=> l \in Listed
        /\ l \in Range(jobs)' <=> l \in Range(jobs)
        /\ l \in made'
    BY <1>2, <2>1 DEF Listed
  <2>8. Ordered(l)'
    BY <2>1, <2>3, <2>4, <2>5, <2>7 DEF Ordered, Stays
  <2>9. Ended(l)'
    <3>1. CASE sub[l] = "freed"
      <4>1. sub'[l] = "lost" /\ l \notin pbx' /\ (Delivered(l)' <=> Delivered(l))
        BY <1>2, <2>3, <3>1 DEF Delivered
      <4>2. \A u \in Thread : ~Ending(u, l)
        BY <2>1, <3>1 DEF Ended
      <4> QED
        BY <2>1, <2>3, <2>5, <2>6, <4>1, <4>2 DEF Ended, Stays
    <3>2. CASE sub[l] # "freed"
      <4>1. sub'[l] = sub[l] /\ l \in pbx'
        BY <1>2, <3>2
      <4> QED
        BY <2>1, <2>3, <2>5, <2>6, <3>2, <4>1 DEF Ended, Stays
    <3> QED
      BY <3>1, <3>2
  <2>10. News(l)'
    <3>1. CASE sub[l] = "freed"
      <4>1. sub'[l] = "lost" /\ l \notin pbx'
        BY <1>2, <2>3, <3>1
      <4>2. l \in Listed' => \E u \in Thread : Has(u, "unlist", l)'
        BY <1>1, <2>1, <2>7, <3>1 DEF News, KeepsUnlist
      <4> QED
        BY <4>1, <4>2 DEF News
    <3>2. CASE sub[l] # "freed"
      <4>1. sub'[l] \in {"listed", "taken"} /\ l \in pbx'
        BY <1>2, <2>3, <3>2
      <4>2. queue'[l] = <<"change">>
        BY <1>2, <3>2
      <4>3. queue'[l] # <<>> /\ queue'[l][Len(queue'[l])] = "change"
        BY <4>2
      <4>4. sub'[l] = "taken" /\ l \in Listed' => \E u \in Thread : Has(u, "unlist", l)'
        BY <1>1, <1>2, <2>1, <2>7, <3>2 DEF News, KeepsUnlist
      <4> QED
        BY <4>1, <4>3, <4>4 DEF News
    <3> QED
      BY <3>1, <3>2
  <2>11. Counted(l)'
    <3>1. sub'[l] \in {"listed", "taken"} <=> sub[l] \in {"listed", "taken"}
      BY <1>2
    <3> QED
      BY <1>1, <1>2, <2>1, <2>7, <3>1 DEF Counted, Buttons, SamePuts, One
  <2> QED
    BY <2>7, <2>8, <2>9, <2>10, <2>11 DEF LineInv
<1> QED
  BY <1>3, <1>4, <1>5

(***************************************************************************)
(* The mailbox                                                             *)
(***************************************************************************)
(* What a step of the PBX leaves alone *)
Outside(l) ==
    /\ todo' = todo /\ template' = template
    /\ l \in Listed' <=> l \in Listed
    /\ l \in Range(jobs)' <=> l \in Range(jobs)
    /\ l \in made' <=> l \in made
    /\ l \in pbx' <=> l \in pbx
    /\ sub'[l] = sub[l] /\ attached'[l] = attached[l] /\ refs'[l] = refs[l]

(* A step of the PBX keeps what holds of a line, if the news end with what the *)
(* mailbox holds.                                                              *)
LEMMA PbxLine ==
    ASSUME NEW l \in Line, LineInv(l), Outside(l),
           ~Delivered(l)' => ~Delivered(l) \/ l \in pbx,
           l \in pbx => IF queue'[l] = <<>> THEN shown'[l] = mail'
                       ELSE queue'[l][Len(queue'[l])] \in {"change", mail'}
    PROVE  LineInv(l)'
<1>1. /\ \A u \in Thread : \A step : At(u, step, l)' <=> At(u, step, l)
      /\ \A u \in Thread : Has(u, "unlist", l)' <=> Has(u, "unlist", l)
      /\ \A u \in Thread : Mentions(u, l)' <=> Mentions(u, l)
      /\ Puts(l)' = Puts(l)
  BY DEF Outside, At, Has, Mentions, Puts, Depth, Below
<1>2. /\ \A step : NoneAt(step, l)' <=> NoneAt(step, l)
      /\ \A step : OneAt(step, l)' <=> OneAt(step, l)
      /\ \A u \in Thread : Ending(u, l)' <=> Ending(u, l)
  BY <1>1 DEF NoneAt, OneAt, Ending
<1>3. Ordered(l)'
  BY <1>2 DEF LineInv, Ordered, Outside
<1>4. Ended(l)'
  BY <1>2 DEF LineInv, Ended, Outside
<1>5. Counted(l)'
  BY <1>1 DEF LineInv, Counted, Buttons, One, Outside
<1>6. News(l)'
  BY <1>1, <1>2 DEF LineInv, News, Outside
<1>7. l \notin made' => Unmade(l)'
  BY <1>1 DEF LineInv, Unmade, Outside
<1> QED
  BY <1>3, <1>4, <1>5, <1>6, <1>7 DEF LineInv

(* Something changes in the mailbox, and the PBX delivers it. *)
LEMMA PublishLines ==
    ASSUME IInv, Publish
    PROVE  OnceInv' /\ \A m \in Line : LineInv(m)'
<1> USE DEF IInv
<1>1. OnceInv'
  BY DEF OnceInv, Publish, lineVars
<1>2. ASSUME NEW l \in Line PROVE LineInv(l)'
  <2>1. /\ queue'[l] = IF l \in pbx THEN Append(queue[l], mail') ELSE queue[l]
        /\ notifying' = notifying /\ queue[l] \in Seq(Mail \cup {"change"}) /\ mail' \in Mail
    BY DEF Publish, TypeOK
  <2>2. Outside(l)
    BY DEF Outside, Publish, Listed, lineVars, phoneVars
  <2>3. ~Delivered(l)' => ~Delivered(l) \/ l \in pbx
    BY <2>1 DEF Delivered
  <2>4. l \in pbx => queue'[l] # <<>> /\ queue'[l][Len(queue'[l])] = mail'
    BY <2>1
  <2> QED
    BY <2>2, <2>3, <2>4, PbxLine
<1> QED
  BY <1>1, <1>2

(* A delivery: the last one shows what the mailbox holds. *)
LEMMA DeliverLines ==
    ASSUME IInv, NEW l \in Line, Deliver(l)
    PROVE  OnceInv' /\ \A m \in Line : LineInv(m)'
<1> USE DEF IInv
<1>1. OnceInv'
  BY DEF OnceInv, Deliver, lineVars
<1>2. /\ queue \in [Line -> Seq(Mail \cup {"change"})] /\ queue[l] # <<>> /\ mail' = mail
      /\ queue' = [queue EXCEPT ![l] = Tail(@)] /\ shown \in [Line -> Mail \cup {None}]
      /\ shown' = [shown EXCEPT ![l] = IF Head(queue[l]) = "change" THEN mail ELSE Head(queue[l])]
      /\ notifying' \subseteq notifying \cup {l}
  BY DEF Deliver, TypeOK, mailVars
<1>3. ASSUME NEW m \in Line PROVE Outside(m)
  BY DEF Outside, Deliver, Listed, lineVars, phoneVars
<1>4. ASSUME NEW m \in Line \ {l} PROVE LineInv(m)'
  <2>1. queue'[m] = queue[m] /\ shown'[m] = shown[m] /\ (m \in notifying' => m \in notifying)
    BY <1>2
  <2>2. ~Delivered(m)' => ~Delivered(m)
    BY <2>1 DEF Delivered
  <2>3. News(m)
    BY DEF LineInv
  <2> QED
    BY <1>2, <1>3, <2>1, <2>2, <2>3, PbxLine DEF News
<1>5. LineInv(l)'
  <2>1. ~Delivered(l) /\ News(l)
    BY <1>2 DEF Delivered, LineInv
  <2>2. PICK q \in Seq(Mail \cup {"change"}) : q = queue[l] /\ q # <<>>
    BY <1>2
  <2>3. queue'[l] = Tail(q) /\ shown'[l] = IF Head(q) = "change" THEN mail ELSE Head(q)
    BY <1>2, <2>2
  <2>4. CASE l \in pbx
    <3>1. q[Len(q)] \in {"change", mail}
      BY <2>1, <2>2, <2>4 DEF News
    <3>2. CASE Tail(q) = <<>>
      <4>1. Len(q) = 1 /\ Head(q) = q[Len(q)]
        <5>1. PICK n \in Nat : n = Len(q) /\ Len(Tail(q)) = n - 1 /\ Head(q) = q[1]
          BY <2>2
        <5>2. Len(<<>>) = 0
          OBVIOUS
        <5>3. n - 1 = 0
          BY <3>2, <5>1, <5>2, Zenon
        <5>4. n = 1
          BY <5>3
        <5> QED
          BY <5>1, <5>4
      <4> QED
        BY <1>2, <1>3, <2>1, <2>3, <3>1, <3>2, <4>1, PbxLine
    <3>3. CASE Tail(q) # <<>>
      <4>1. Tail(q)[Len(Tail(q))] = q[Len(q)]
        BY <2>2, <3>3
      <4> QED
        BY <1>2, <1>3, <2>1, <2>3, <3>1, <3>3, <4>1, PbxLine
    <3> QED
      BY <3>2, <3>3
  <2>5. CASE l \notin pbx
    BY <1>3, <2>1, <2>5, PbxLine
  <2> QED
    BY <2>4, <2>5
<1> QED
  BY <1>1, <1>4, <1>5

(* The devices are told. *)
LEMMA NotifyLines ==
    ASSUME IInv, NEW l \in Line, Notify(l)
    PROVE  OnceInv' /\ \A m \in Line : LineInv(m)'
<1> USE DEF IInv
<1>1. OnceInv'
  BY DEF OnceInv, Notify, lineVars
<1>2. ASSUME NEW m \in Line PROVE LineInv(m)'
  <2>1. Outside(m) /\ queue' = queue /\ shown' = shown /\ mail' = mail
           /\ notifying' \subseteq notifying
    BY DEF Outside, Notify, Listed, lineVars, phoneVars, mailVars
  <2>2. News(m) /\ (~Delivered(m)' => ~Delivered(m))
    BY <2>1 DEF LineInv, Delivered
  <2> QED
    BY <2>1, <2>2, PbxLine DEF News
<1> QED
  BY <1>1, <1>2

(***************************************************************************)
(* The invariant                                                           *)
(***************************************************************************)
LEMMA InitInv ==
    ASSUME Init
    PROVE  IInv
<1>1. TypeOK
  BY MailboxesAssumption DEF Init, TypeOK
<1>2. \A t \in Thread : Idle(t) /\ todo[t] = <<>> /\ Depth(t) = 0
  BY DEF Init, Idle, Depth
<1>3. StackInv
  BY <1>2 DEF StackInv, Stands
<1>4. OnceInv
  BY DEF Init, OnceInv, Once
<1>5. ASSUME NEW l \in Line PROVE LineInv(l)
  <2>1. /\ l \notin Listed /\ l \notin Range(jobs) /\ sub[l] = "none" /\ attached[l] = {}
        /\ refs[l] = 0 /\ l \notin pbx /\ Delivered(l)
    BY DEF Init, Listed, Range, Delivered
  <2>2. \A s \in Session : template[s] # l
    BY MailboxesAssumption DEF Init
  <2>3. /\ \A t \in Thread : ~Mentions(t, l)
        /\ \A t \in Thread : \A step : ~At(t, step, l)
    BY <1>2 DEF Mentions, At
  <2>4. Unmade(l)
    BY <2>1, <2>2, <2>3 DEF Unmade
  <2>5. \A step : NoneAt(step, l) /\ OneAt(step, l)
    BY <2>3 DEF NoneAt, OneAt
  <2>6. \A t \in Thread : ~Ending(t, l)
    BY <2>3 DEF Ending
  <2>7. Ordered(l) /\ Ended(l) /\ News(l)
    BY <2>1, <2>5, <2>6 DEF Ordered, Ended, News
  <2>8. Counted(l)
    <3>1. Buttons(l) = {}
      BY <2>2 DEF Buttons
    <3>2. Puts(l) = {}
      BY <1>2 DEF Puts
    <3>3. IsFiniteSet({}) /\ Cardinality({}) = 0
      BY FS_EmptySet
    <3> QED
      BY <2>1, <3>1, <3>2, <3>3 DEF Counted, One
  <2> QED
    BY <2>4, <2>7, <2>8 DEF LineInv
<1> QED
  BY <1>1, <1>3, <1>4, <1>5 DEF IInv

(* Every step keeps what is known of the lines. *)
LEMMA LinesKept ==
    ASSUME IInv, [Next]_vars
    PROVE  OnceInv' /\ \A l \in Line : LineInv(l)'
<1>1. ASSUME NEW s \in Session, SessionStep(s)
      PROVE  OnceInv' /\ \A l \in Line : LineInv(l)'
  <2>1. s \in Thread
    BY Members
  <2> QED
    BY <1>1, <2>1, RegisterLines, RefusedLines, CreateLines, CleanLines, ForgetLines,
       ListLines, AttachLines, LeaveLines DEF SessionStep
<1>2. ASSUME NEW t \in Cleaner, CleanStep(t)
      PROVE  OnceInv' /\ \A l \in Line : LineInv(l)'
  BY <1>2, DestroyedLines, UnsubscribeLines, JoinLines, UnlistLines, UnlockLines, Members
     DEF CleanStep
<1>3. ASSUME NEW w \in Worker, WorkerStep(w)
      PROVE  OnceInv' /\ \A l \in Line : LineInv(l)'
  BY <1>3, TakeLines, SubscribeLines, WatchLines DEF WorkerStep
<1>4. ASSUME NEW t \in Thread, NEW l \in Line, Put(t, l)
      PROVE  OnceInv' /\ \A m \in Line : LineInv(m)'
  BY <1>4, PutLines
<1>5. ASSUME NEW l \in Line, Delete(l) \/ Purge(l) \/ Deliver(l) \/ Notify(l)
      PROVE  OnceInv' /\ \A m \in Line : LineInv(m)'
  BY <1>5, DeleteLines, LeaveLines, DeliverLines, NotifyLines, Members
<1>6. CASE Publish
  BY <1>6, PublishLines
<1>7. CASE UNCHANGED vars
  <2>1. OnceInv'
    BY <1>7 DEF IInv, OnceInv, vars, lineVars
  <2>2. ASSUME NEW l \in Line PROVE LineInv(l)'
    <3>1. Outside(l) /\ queue' = queue /\ shown' = shown /\ mail' = mail /\ notifying' = notifying
      BY <1>7 DEF Outside, Listed, vars, lineVars, phoneVars, subVars, mailVars
    <3>2. LineInv(l) /\ News(l) /\ (~Delivered(l)' => ~Delivered(l))
      BY <3>1 DEF IInv, LineInv, Delivered
    <3> QED
      BY <3>1, <3>2, PbxLine DEF News
  <2> QED
    BY <2>1, <2>2
<1> QED
  BY <1>1, <1>2, <1>3, <1>4, <1>5, <1>6, <1>7 DEF Next

(* The counts are numbers: references are never given up that nobody has. *)
LEMMA RefsKept ==
    ASSUME TypeOK, [Next]_vars, \A l \in Line : LineInv(l)'
    PROVE  refs' \in [Line -> Nat]
<1>1. refs' = refs \/ \E l, n : refs' = [refs EXCEPT ![l] = n]
  <2>1. ASSUME NEW s \in Session, SessionStep(s)
        PROVE  refs' = refs \/ \E l, n : refs' = [refs EXCEPT ![l] = n]
    <3>1. CASE Register(s) \/ Refused(s) \/ Create(s) \/ Clean(s) \/ Forget(s)
      BY <3>1 DEF Register, Refused, Create, Clean, Forget, Retain, Release, lineVars
    <3>2. ASSUME NEW l \in Line, List(s, l) \/ Attach(s, l) \/ RemoveDevice(s, l)
          PROVE  refs' = refs \/ \E m, n : refs' = [refs EXCEPT ![m] = n]
      BY <3>2 DEF List, Attach, RemoveDevice, Retain, Release
    <3> QED
      BY <2>1, <3>1, <3>2 DEF SessionStep
  <2>2. ASSUME NEW t \in Cleaner, CleanStep(t)
        PROVE  refs' = refs \/ \E l, n : refs' = [refs EXCEPT ![l] = n]
    BY <2>2 DEF CleanStep, Destroyed, Unsubscribe, Join, Unlist, Unlock, Free, Retain, Release,
                lineVars
  <2>3. ASSUME NEW w \in Worker, WorkerStep(w)
        PROVE  refs' = refs \/ \E l, n : refs' = [refs EXCEPT ![l] = n]
    BY <2>3 DEF WorkerStep, Take, Subscribe, Watch, Retain, lineVars
  <2>4. ASSUME NEW t \in Thread, NEW l \in Line, Put(t, l)
        PROVE  refs' = refs \/ \E m, n : refs' = [refs EXCEPT ![m] = n]
    BY <2>4 DEF Put, Release
  <2>5. ASSUME NEW l \in Line, Delete(l) \/ Purge(l) \/ Deliver(l) \/ Notify(l)
        PROVE  refs' = refs \/ \E m, n : refs' = [refs EXCEPT ![m] = n]
    BY <2>5 DEF Delete, Purge, Deliver, Notify, Retain, Release, lineVars
  <2>6. CASE Publish \/ UNCHANGED vars
    BY <2>6 DEF Publish, vars, lineVars
  <2> QED
    BY <2>1, <2>2, <2>3, <2>4, <2>5, <2>6 DEF Next
<1>2. refs \in [Line -> Nat]
  BY DEF TypeOK
<1>3. ASSUME NEW l \in Line PROVE refs'[l] \in Nat
  <2>1. Counted(l)'
    BY DEF LineInv
  <2>2. /\ Cardinality(Buttons(l)') \in Nat /\ Cardinality(attached'[l]) \in Nat
        /\ Cardinality(Puts(l)') \in Nat
    BY <2>1, FS_CardinalityType DEF Counted
  <2>3. /\ One(l \in Listed)' \in Nat /\ One(l \in Range(jobs))' \in Nat
        /\ One(sub[l] \in {"listed", "taken"})' \in Nat
    BY DEF One
  <2> QED
    BY <2>1, <2>2, <2>3 DEF Counted
<1> QED
  BY <1>1, <1>2, <1>3

(* The rest of the state of phones, lists and counters *)
PhoneType ==
    /\ made \subseteq Line /\ lines \in Seq(Line) /\ jobs \in Seq(Line)
    /\ template \in [Session -> Line \cup {None}]
    /\ attached \in [Line -> SUBSET Session] /\ devlock \in [Line -> Cleaner \cup {None}]
    /\ regs \in 0 .. MaxRegs /\ deletes \in 0 .. MaxDeletes
SubType ==
    /\ sub \in [Line -> {"none", "listed", "taken", "freed", "lost"}]
    /\ pbx \subseteq Line /\ notifying \subseteq Line
    /\ queue \in [Line -> Seq(Mail \cup {"change"})]
    /\ mail \in Mail /\ shown \in [Line -> Mail \cup {None}] /\ changes \in 0 .. MaxMail

(* They keep their types: phones, lists and counters *)
LEMMA PhoneTypeKept ==
    ASSUME TypeOK, OnceInv, StackInv, [Next]_vars
    PROVE  PhoneType'
<1> USE TypeFacts, Members
<1>1. PhoneType
  BY DEF TypeOK, PhoneType
<1>2. CASE UNCHANGED <<made, lines, phoneVars, jobs>>
  BY <1>1, <1>2 DEF PhoneType, phoneVars
<1>3. ASSUME NEW s \in Session, Register(s) PROVE PhoneType'
  <2>1. regs' \in 0 .. MaxRegs
    BY <1>1, <1>3, MailboxesAssumption DEF Register, PhoneType
  <2>2. template' \in [Session -> Line \cup {None}]
    BY <1>1, <1>3 DEF Register, PhoneType
  <2> QED
    BY <1>1, <1>3, <2>1, <2>2 DEF Register, PhoneType
<1>4. ASSUME NEW s \in Session, Create(s) PROVE PhoneType'
  BY <1>1, <1>4 DEF Create, PhoneType
<1>5. ASSUME NEW s \in Session, Forget(s) PROVE PhoneType'
  BY <1>1, <1>5 DEF Forget, PhoneType
<1>6. ASSUME NEW s \in Session, NEW l \in Line, List(s, l) PROVE PhoneType'
  <2>1. lines' \in Seq(Line) /\ jobs' \in Seq(Line)
    <3>1. <<l>> \in Seq(Line)
      OBVIOUS
    <3> QED
      BY <1>1, <1>6, <3>1 DEF List, PhoneType
  <2> QED
    BY <1>1, <1>6, <2>1 DEF List, PhoneType, phoneVars
<1>7. ASSUME NEW s \in Session, NEW l \in Line, Attach(s, l) PROVE PhoneType'
  BY <1>1, <1>7 DEF Attach, PhoneType
<1>8. ASSUME NEW s \in Session, NEW l \in Line, RemoveDevice(s, l) PROVE PhoneType'
  <2>1. /\ attached' \in [Line -> SUBSET Session] /\ devlock' \in [Line -> Cleaner \cup {None}]
    BY <1>1, <1>8 DEF RemoveDevice, PhoneType
  <2> QED
    BY <1>1, <1>8, <2>1 DEF RemoveDevice, PhoneType
<1>9. ASSUME NEW l \in Line, Delete(l) PROVE PhoneType'
  <2>1. deletes' \in 0 .. MaxDeletes
    BY <1>1, <1>9, MailboxesAssumption DEF Delete, PhoneType
  <2> QED
    BY <1>1, <1>9, <2>1 DEF Delete, PhoneType
<1>10. ASSUME NEW l \in Line, Purge(l) PROVE PhoneType'
  <2>1. /\ attached' \in [Line -> SUBSET Session] /\ devlock' \in [Line -> Cleaner \cup {None}]
    BY <1>1, <1>10 DEF Purge, PhoneType
  <2> QED
    BY <1>1, <1>10, <2>1 DEF Purge, PhoneType
<1>11. ASSUME NEW t \in Cleaner, NEW l \in Line, Unlist(t, l) PROVE PhoneType'
  <2>1. lines' \in Seq(Line)
    BY <1>1, <1>11, Removed DEF Unlist, PhoneType, OnceInv, Listed
  <2> QED
    BY <1>1, <1>11, <2>1 DEF Unlist, PhoneType, phoneVars
<1>12. ASSUME NEW t \in Cleaner, NEW l \in Line, Unlock(t, l) PROVE PhoneType'
  BY <1>1, <1>12 DEF Unlock, PhoneType, lineVars
<1>13. ASSUME NEW w \in Worker, Take(w) PROVE PhoneType'
  <2>1. jobs' \in Seq(Line)
    BY <1>1, <1>13 DEF Take, PhoneType
  <2> QED
    BY <1>1, <1>13, <2>1 DEF Take, PhoneType, lineVars, phoneVars
<1>14. ASSUME NEW s \in Session, Refused(s) \/ Clean(s) PROVE PhoneType'
  BY <1>2, <1>14 DEF Refused, Clean, lineVars
<1>15. ASSUME NEW t \in Cleaner, NEW l \in Line,
              Destroyed(t, l) \/ Unsubscribe(t, l) \/ Join(t, l)
       PROVE  PhoneType'
  BY <1>2, <1>15 DEF Destroyed, Unsubscribe, Join
<1>16. ASSUME NEW w \in Worker, NEW l \in Line, Subscribe(w, l) \/ Watch(w, l) PROVE PhoneType'
  BY <1>2, <1>16 DEF Subscribe, Watch, lineVars
<1>17. ASSUME NEW t \in Thread, NEW l \in Line, Put(t, l) PROVE PhoneType'
  BY <1>2, <1>17 DEF Put
<1>18. ASSUME NEW l \in Line, Deliver(l) \/ Notify(l) PROVE PhoneType'
  BY <1>2, <1>18 DEF Deliver, Notify, lineVars
<1>19. CASE Publish \/ UNCHANGED vars
  BY <1>2, <1>19 DEF Publish, vars, lineVars
<1> QED
  BY <1>3, <1>4, <1>5, <1>6, <1>7, <1>8, <1>9, <1>10, <1>11, <1>12, <1>13, <1>14, <1>15, <1>16,
     <1>17, <1>18, <1>19 DEF Next, SessionStep, CleanStep, WorkerStep

(* The subscriptions and the mailbox keep their types. *)
LEMMA SubTypeKept ==
    ASSUME TypeOK, [Next]_vars
    PROVE  SubType'
<1>1. SubType
  BY DEF TypeOK, SubType
<1>2. CASE UNCHANGED <<subVars, mailVars>>
  BY <1>1, <1>2 DEF SubType, subVars, mailVars
<1>3. ASSUME NEW s \in Session, SessionStep(s) PROVE SubType'
  BY <1>2, <1>3 DEF SessionStep, Register, Refused, Create, Clean, Forget, List, Attach,
                    RemoveDevice
<1>4. ASSUME NEW t \in Cleaner, NEW l \in Line, Destroyed(t, l) \/ Unsubscribe(t, l) \/ Join(t, l)
      PROVE  SubType'
  <2>1. UNCHANGED <<queue, notifying, shown, mail, changes>> /\ pbx' \subseteq pbx
    BY <1>4 DEF Destroyed, Unsubscribe, Join, mailVars
  <2>2. \/ sub' = sub \/ sub' = [sub EXCEPT ![l] = "taken"] \/ sub' = [sub EXCEPT ![l] = "freed"]
    BY <1>4 DEF Destroyed, Unsubscribe, Join, Free
  <2>3. sub' \in [Line -> {"none", "listed", "taken", "freed", "lost"}]
    BY <1>1, <2>2 DEF SubType
  <2> QED
    BY <1>1, <2>1, <2>3 DEF SubType
<1>5. ASSUME NEW t \in Cleaner, NEW l \in Line, Unlist(t, l) \/ Unlock(t, l) PROVE SubType'
  BY <1>2, <1>5 DEF Unlist, Unlock
<1>6. ASSUME NEW w \in Worker, Take(w) PROVE SubType'
  BY <1>2, <1>6 DEF Take
<1>7. ASSUME NEW w \in Worker, NEW l \in Line, Subscribe(w, l) PROVE SubType'
  BY <1>1, <1>7 DEF Subscribe, SubType, mailVars
<1>8. ASSUME NEW w \in Worker, NEW l \in Line, Watch(w, l) PROVE SubType'
  <2>1. <<"change">> \in Seq(Mail \cup {"change"})
    OBVIOUS
  <2>2. queue' \in [Line -> Seq(Mail \cup {"change"})]
    BY <1>1, <1>8, <2>1 DEF Watch, SubType
  <2>3. sub' \in [Line -> {"none", "listed", "taken", "freed", "lost"}] /\ pbx' \subseteq Line
    BY <1>1, <1>8 DEF Watch, SubType
  <2> QED
    BY <1>1, <1>8, <2>2, <2>3 DEF Watch, SubType, mailVars
<1>9. ASSUME NEW t \in Thread, NEW l \in Line, Put(t, l) PROVE SubType'
  BY <1>2, <1>9 DEF Put
<1>10. ASSUME NEW l \in Line, Delete(l) \/ Purge(l) PROVE SubType'
  BY <1>2, <1>10 DEF Delete, Purge
<1>11. ASSUME NEW l \in Line, Deliver(l) PROVE SubType'
  <2>1. queue[l] \in Seq(Mail \cup {"change"}) /\ queue[l] # <<>>
    BY <1>1, <1>11 DEF Deliver, SubType
  <2>2. Tail(queue[l]) \in Seq(Mail \cup {"change"}) /\ Head(queue[l]) \in Mail \cup {"change"}
    BY <2>1
  <2>3. queue' \in [Line -> Seq(Mail \cup {"change"})]
    BY <1>1, <1>11, <2>2 DEF Deliver, SubType
  <2>4. shown' \in [Line -> Mail \cup {None}]
    BY <1>1, <1>11, <2>2 DEF Deliver, SubType
  <2> QED
    BY <1>1, <1>11, <2>3, <2>4 DEF Deliver, SubType, mailVars
<1>12. ASSUME NEW l \in Line, Notify(l) PROVE SubType'
  BY <1>1, <1>12 DEF Notify, SubType, mailVars
<1>13. CASE Publish
  <2>1. mail' \in Mail /\ \A l \in Line : queue[l] \in Seq(Mail \cup {"change"})
    BY <1>1, <1>13 DEF Publish, SubType
  <2>2. \A l \in Line : Append(queue[l], mail') \in Seq(Mail \cup {"change"})
    BY <2>1
  <2>3. queue' \in [Line -> Seq(Mail \cup {"change"})]
    BY <1>13, <2>1, <2>2 DEF Publish
  <2>4. changes' \in 0 .. MaxMail
    BY <1>1, <1>13, MailboxesAssumption DEF Publish, SubType
  <2> QED
    BY <1>1, <1>13, <2>1, <2>3, <2>4 DEF Publish, SubType
<1>14. CASE UNCHANGED vars
  BY <1>2, <1>14 DEF vars
<1> QED
  BY <1>3, <1>4, <1>5, <1>6, <1>7, <1>8, <1>9, <1>10, <1>11, <1>12, <1>13, <1>14
     DEF Next, CleanStep, WorkerStep

(* Every step keeps the invariant. *)
LEMMA Inductive ==
    ASSUME IInv, [Next]_vars
    PROVE  IInv'
<1>1. StackInv' /\ StackType'
  BY StackKept DEF IInv
<1>2. OnceInv' /\ \A l \in Line : LineInv(l)'
  BY LinesKept
<1>3. TypeOK'
  BY <1>1, <1>2, RefsKept, PhoneTypeKept, SubTypeKept
     DEF IInv, TypeOK, PhoneType, SubType, StackType, Entry
<1> QED
  BY <1>1, <1>2, <1>3 DEF IInv

(* It holds in every state. *)
LEMMA Invariant == Spec => []IInv
<1>1. Init => IInv
  BY InitInv
<1>2. IInv /\ [Next]_vars => IInv'
  BY Inductive
<1> QED
  BY <1>1, <1>2, PTL DEF Spec

(***************************************************************************)
(* What it says                                                            *)
(***************************************************************************)
(* A line that a thread has yet to deal with is held for it. *)
LEMMA MentionHeld ==
    ASSUME IInv, NEW t \in Thread, NEW l \in Line, Mentions(t, l)
    PROVE  Buttons(l) # {} \/ Puts(l) # {}
<1> USE TypeFacts, Members DEF IInv
<1>1. PICK k \in 1 .. Depth(t) : Below(t, k)[2] = l
  BY DEF Mentions
<1>2. Depth(t) \in Nat /\ ~Idle(t)
  BY <1>1, OnTop
<1>3. ASSUME NEW b \in {1, 2}, NEW m \in Line, CleanStack(t, m, b), k >= b
      PROVE  Puts(l) # {}
  <2>1. m = l /\ Below(t, b) = <<"put", l>> /\ b \in 1 .. Depth(t)
    BY <1>1, <1>2, <1>3 DEF CleanStack
  <2>2. <<t, b>> \in Puts(l)
    BY <2>1 DEF Puts
  <2> QED
    BY <2>2
<1>4. CASE t \in Session
  <2>1. CASE Making(t)
    BY <1>1, <2>1 DEF Making
  <2>2. CASE Joining(t)
    <3>1. template[t] = l
      BY <1>1, <2>2 DEF Joining
    <3> QED
      BY <1>4, <3>1 DEF Buttons
  <2>3. CASE Leaving(t)
    <3>1. k # 1
      BY <1>1, <2>3 DEF Leaving
    <3>2. k >= 2 /\ Depth(t) > 1
      BY <1>1, <1>2, <3>1
    <3> QED
      BY <1>3, <2>3, <3>2 DEF Leaving
  <2> QED
    BY <1>2, <1>4, <2>1, <2>2, <2>3 DEF StackInv, Stands
<1>5. CASE t = Admin
  <2>1. PICK m \in Line : CleanStack(t, m, 1)
    BY <1>2, <1>5 DEF StackInv, Stands
  <2> QED
    BY <1>1, <1>3, <2>1
<1>6. CASE t \in Worker
  <2>1. Telling(t)
    BY <1>2, <1>6 DEF StackInv, Stands
  <2>2. PICK m \in Line :
           /\ Depth(t) \in 1 .. 2 /\ Below(t, 1) = <<"put", m>>
           /\ Depth(t) = 2 => Below(t, 2) \in {"subscribe", "watch"} \X {m}
    BY <2>1 DEF Telling
  <2>3. m = l
    BY <1>1, <2>2
  <2>4. <<t, 1>> \in Puts(l)
    BY <1>2, <2>2, <2>3 DEF Puts
  <2> QED
    BY <2>4
<1> QED
  BY <1>4, <1>5, <1>6 DEF Thread, Cleaner

(* Whoever has a line in use is counted. *)
LEMMA Kept ==
    ASSUME IInv
    PROVE  KeptWhileUsed
<1> USE TypeFacts, Members DEF IInv
<1>1. ASSUME NEW l \in Line
      PROVE  /\ Counted(l) /\ Ended(l) /\ Users(l) \in Nat
             /\ refs[l] = Users(l) + One(l \in Listed) + One(l \in Range(jobs))
                          + One(sub[l] \in {"listed", "taken"})
             /\ Buttons(l) # {} \/ attached[l] # {} \/ Puts(l) # {} => Users(l) > 0
             /\ Buttons(l) = {} /\ attached[l] = {} /\ Puts(l) = {} => Users(l) = 0
  <2>1. Counted(l) /\ Ended(l)
    BY DEF LineInv
  <2>2. /\ Cardinality(Buttons(l)) \in Nat /\ (Cardinality(Buttons(l)) = 0 <=> Buttons(l) = {})
        /\ Cardinality(attached[l]) \in Nat /\ (Cardinality(attached[l]) = 0 <=> attached[l] = {})
        /\ Cardinality(Puts(l)) \in Nat /\ (Cardinality(Puts(l)) = 0 <=> Puts(l) = {})
    BY <2>1, Counts DEF Counted
  <2> QED
    BY <2>1, <2>2, CountedFacts DEF Users
<1>2. ASSUME NEW l \in Line, InUse(l) PROVE refs[l] > 0
  <2>1. CASE l \in Listed \/ l \in Range(jobs) \/ sub[l] \in {"listed", "taken"}
    <3>1. One(l \in Listed) \in Nat /\ One(l \in Range(jobs)) \in Nat
      BY DEF One
    <3>2. One(sub[l] \in {"listed", "taken"}) \in Nat
      BY DEF One
    <3>3. \/ One(l \in Listed) = 1 \/ One(l \in Range(jobs)) = 1
          \/ One(sub[l] \in {"listed", "taken"}) = 1
      BY <2>1 DEF One
    <3> QED
      BY <1>1, <3>1, <3>2, <3>3
  <2>2. CASE l \in pbx
    BY <1>1, <2>1, <2>2 DEF Ended
  <2>3. CASE l \in notifying
    <3>1. ~Delivered(l)
      BY <2>3 DEF Delivered
    <3>2. l \in pbx \/ \E t \in Thread : Ending(t, l)
      BY <1>1, <3>1 DEF Ended, NoneAt, Ending
    <3> QED
      BY <1>1, <2>1, <2>2, <3>2 DEF Ended
  <2>4. CASE Buttons(l) # {} \/ attached[l] # {} \/ Puts(l) # {}
    <3>1. /\ One(l \in Listed) \in Nat /\ One(l \in Range(jobs)) \in Nat
          /\ One(sub[l] \in {"listed", "taken"}) \in Nat
      BY DEF One
    <3>2. Users(l) \in Nat /\ Users(l) > 0
      BY <1>1, <2>4
    <3>3. refs[l] = Users(l) + One(l \in Listed) + One(l \in Range(jobs))
                    + One(sub[l] \in {"listed", "taken"})
      BY <1>1
    <3> HIDE DEF IInv
    <3> QED
      BY <3>1, <3>2, <3>3
  <2>5. CASE \E s \in Session : template[s] = l
    BY <2>4, <2>5 DEF Buttons
  <2>6. CASE Pointed(l)
    <3>1. PICK t \in Thread : \E n \in DOMAIN todo[t] : todo[t][n][2] = l
      BY <2>6 DEF Pointed
    <3>2. PICK n \in DOMAIN todo[t] : todo[t][n][2] = l
      BY <3>1
    <3>3. todo[t] \in Seq(Entry)
      BY DEF StackType
    <3>4. Mentions(t, l)
      <4>1. /\ Len(todo[t]) + 1 - n \in 1 .. Len(todo[t])
            /\ Len(todo[t]) + 1 - (Len(todo[t]) + 1 - n) = n
        BY <3>2, <3>3
      <4> QED
        BY <3>2, <4>1 DEF Mentions, Depth, Below
    <3> QED
      BY <2>4, <3>4, MentionHeld
  <2> QED
    BY <1>2, <2>1, <2>2, <2>3, <2>4, <2>5, <2>6 DEF InUse
<1>3. ASSUME Quiet, NEW l \in Line, ~InUse(l) PROVE refs[l] = 0
  <2>1. Buttons(l) = {} /\ attached[l] = {}
    BY <1>3 DEF InUse, Buttons
  <2>2. Puts(l) = {}
    <3>1. \A t \in Thread : Depth(t) = 0
      BY <1>3, OnTop DEF Quiet
    <3> QED
      BY <3>1 DEF Puts
  <2>3. /\ One(l \in Listed) = 0 /\ One(l \in Range(jobs)) = 0
        /\ One(sub[l] \in {"listed", "taken"}) = 0
    BY <1>3 DEF InUse, One
  <2> QED
    BY <1>1, <2>1, <2>2, <2>3
<1> QED
  BY <1>2, <1>3 DEF KeptWhileUsed

(* When all is quiet nothing is left that would excuse a listed line. *)
LEMMA Told ==
    ASSUME IInv
    PROVE  Informed
<1> USE TypeFacts, Members DEF IInv
<1> SUFFICES ASSUME Quiet, NEW l \in Listed
             PROVE  sub[l] = "listed" /\ l \in pbx /\ shown[l] = mail
  BY DEF Informed
<1>1. l \in Line
  <2>1. lines \in Seq(Line)
    BY DEF TypeOK
  <2> QED
    BY <2>1 DEF Listed, Range
<1>2. News(l) /\ sub[l] \in {"none", "listed", "taken", "freed", "lost"}
  BY <1>1 DEF LineInv, TypeOK
<1>3. /\ \A step : NoneAt(step, l) /\ \A t \in Thread : ~At(t, step, l)
      /\ \A t \in Thread : ~Has(t, "unlist", l)
  <2>1. \A t \in Thread : Depth(t) = 0
    BY OnTop DEF Quiet
  <2> QED
    BY <2>1 DEF Quiet, Idle, NoneAt, At, Has
<1>4. l \notin Range(jobs) /\ queue[l] = <<>>
  BY <1>1 DEF Quiet, Range, Delivered
<1> QED
  BY <1>2, <1>3, <1>4 DEF News

(* The variables have their types: the count of a line never goes below zero, *)
(* whoever gives a reference up (sccp_line_release).                         *)
THEOREM TypeCorrect == Spec => []TypeOK
<1>1. IInv => TypeOK
  BY DEF IInv
<1> QED
  BY <1>1, Invariant, PTL

(* A line is alive for as long as the list, a phone, a job, a thread or the PBX *)
(* has it in use, and released when nothing does and all is quiet, for any      *)
(* number of phones, workers, lines and reloads (sccp_line_clean,               *)
(* createSubscription, removeSubscription).                                     *)
THEOREM LineKept == Spec => []KeptWhileUsed
<1>1. IInv => KeptWhileUsed
  BY Kept
<1> QED
  BY <1>1, Invariant, PTL

(* When all is quiet a listed line is subscribed and shows what its mailbox *)
(* holds (handleLineCreationEvent, createSubscription, pbx_mwi_event).      *)
THEOREM LinesInformed == Spec => []Informed
<1>1. IInv => Informed
  BY Told
<1> QED
  BY <1>1, Invariant, PTL
=============================================================================
