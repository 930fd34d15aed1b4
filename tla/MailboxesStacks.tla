-------------------------- MODULE MailboxesStacks --------------------------
(***************************************************************************)
(* How the threads of Mailboxes stand, and what each action does to what   *)
(* they have yet to do.  A stack is read from the bottom, for its bottom   *)
(* does not move: depth 1 is the last step a thread will take.             *)
(* MailboxesProofs rests on this.                                          *)
(***************************************************************************)
EXTENDS Mailboxes, FiniteSetTheorems, TLAPS

Depth(t) == Len(todo[t])
Below(t, k) == todo[t][Len(todo[t]) + 1 - k]

Entry == Step \X (Line \cup {None})
StackType == todo \in [Thread -> Seq(Entry)]

(* A line that is being removed is held by the reference that is given up *)
(* at depth b; the subscription is left on top, and the line goes from    *)
(* the list after it.                                                     *)
Removal == {"remove", "purge", "destroyed", "unsubscribe", "join", "unlist", "unlock", "put"}
CleanStack(t, l, b) ==
    /\ b <= Depth(t) /\ Below(t, b) = <<"put", l>>
    /\ \A k \in b .. Depth(t) :
          /\ Below(t, k) \in Removal \X {l}
          /\ Below(t, k)[1] \in {"unsubscribe", "join"} => k = Depth(t)
          /\ Below(t, k)[1] = "destroyed" => k > b /\ Below(t, k - 1) = <<"unlist", l>>

Making(s) == Depth(s) = 1 /\ Below(s, 1) = <<"create", None>> /\ template[s] = None
Joining(s) ==
    /\ Depth(s) \in 1 .. 2 /\ template[s] \in Line /\ Below(s, 1) = <<"attach", template[s]>>
    /\ Depth(s) = 2 => Below(s, 2) = <<"list", template[s]>>
Leaving(s) ==
    /\ Depth(s) > 0 /\ template[s] \in Line /\ Below(s, 1) = <<"forget", None>>
    /\ Depth(s) > 1 => \E l \in Line : CleanStack(s, l, 2)
Telling(w) ==
    \E l \in Line :
        /\ Depth(w) \in 1 .. 2 /\ Below(w, 1) = <<"put", l>>
        /\ Depth(w) = 2 => Below(w, 2) \in {"subscribe", "watch"} \X {l}

Stands(t) ==
    \/ Idle(t)
    \/ t \in Session /\ (Making(t) \/ Joining(t) \/ Leaving(t))
    \/ t = Admin /\ \E l \in Line : CleanStack(t, l, 1)
    \/ t \in Worker /\ Telling(t)
StackInv == \A t \in Thread : Stands(t)

(* A line that a thread has yet to deal with *)
Mentions(t, l) == \E k \in 1 .. Depth(t) : Below(t, k)[2] = l
Has(t, step, l) == \E k \in 1 .. Depth(t) : Below(t, k) = <<step, l>>

(* The references that threads have yet to give up *)
Puts(l) == {p \in Thread \X Nat : p[2] \in 1 .. Depth(p[1]) /\ Below(p[1], p[2]) = <<"put", l>>}

(* What is on top. *)
LEMMA OnTop ==
    ASSUME StackType, NEW t \in Thread
    PROVE  /\ Depth(t) \in Nat
           /\ \A step, l : At(t, step, l) <=> Depth(t) > 0 /\ Below(t, Depth(t)) = <<step, l>>
           /\ Idle(t) <=> Depth(t) = 0
<1> DEFINE q == todo[t]
<1>1. q \in Seq(Entry)
  BY DEF StackType
<1>2. Len(q) \in Nat /\ (q = <<>> <=> Len(q) = 0)
  BY <1>1
<1>3. q # <<>> => Head(q) = q[1]
  BY <1>1
<1>4. Len(q) + 1 - Len(q) = 1
  BY <1>2
<1> QED
  BY <1>2, <1>3, <1>4 DEF Depth, Below, At, Idle

(* Popping *)
LEMMA Popped ==
    ASSUME StackType, NEW t \in Thread, todo[t] # <<>>, Done(t)
    PROVE  /\ Depth(t) \in Nat /\ Depth(t) > 0
           /\ Depth(t)' = Depth(t) - 1
           /\ \A k \in 1 .. Depth(t) - 1 : Below(t, k)' = Below(t, k)
           /\ \A u \in Thread \ {t} : todo'[u] = todo[u]
           /\ StackType'
<1> DEFINE q == todo[t]
<1>1. q \in Seq(Entry)
  BY DEF StackType
<1>2. Len(q) \in Nat \ {0}
  BY <1>1
<1>3. todo'[t] = <<>> \o Tail(q) /\ \A u \in Thread \ {t} : todo'[u] = todo[u]
  BY DEF Done, Then, StackType
<1> DEFINE r == todo'[t]
<1>4. Len(r) = Len(q) - 1 /\ \A k \in 1 .. Len(q) - 1 : r[k] = q[k + 1]
  BY <1>1, <1>2, <1>3
<1>5. ASSUME NEW k \in 1 .. Len(q) - 1 PROVE r[Len(r) + 1 - k] = q[Len(q) + 1 - k]
  <2>1. Len(r) + 1 - k \in 1 .. Len(q) - 1 /\ (Len(r) + 1 - k) + 1 = Len(q) + 1 - k
    BY <1>2, <1>4
  <2> QED
    BY <2>1, <1>4
<1>6. StackType'
  BY <1>1, <1>2 DEF Done, Then, StackType
<1> QED
  BY <1>2, <1>3, <1>4, <1>5, <1>6 DEF Depth, Below

(* The first step goes on to others: the top gives way to them. *)
LEMMA Pushed ==
    ASSUME StackType, NEW t \in Thread, NEW n \in Nat \ {0}, Depth(t) = n,
           NEW steps \in Seq(Entry), Then(t, steps)
    PROVE  /\ Depth(t)' = n - 1 + Len(steps)
           /\ \A k \in 1 .. n - 1 : Below(t, k)' = Below(t, k)
           /\ \A k \in 1 .. Len(steps) : Below(t, n - 1 + k)' = steps[Len(steps) + 1 - k]
           /\ \A u \in Thread \ {t} : todo'[u] = todo[u]
           /\ StackType'
<1> DEFINE q == todo[t]
           m == Len(steps)
           r == todo'[t]
<1>0. q \in Seq(Entry) /\ Len(q) = n
  BY DEF StackType, Depth
<1>1. q \in Seq(Entry) /\ Tail(q) \in Seq(Entry)
  BY <1>0
<1>2. Len(q) \in Nat \ {0} /\ m \in Nat
  BY <1>0
<1>3. r = steps \o Tail(q) /\ \A u \in Thread \ {t} : todo'[u] = todo[u]
  BY DEF Then, StackType
<1>4. /\ Len(r) = Len(q) - 1 + m
      /\ \A k \in 1 .. m : r[k] = steps[k]
      /\ \A k \in m + 1 .. Len(q) - 1 + m : r[k] = q[k - m + 1]
  <2> HIDE DEF q
  <2>1. Len(Tail(q)) = Len(q) - 1 /\ \A k \in 1 .. Len(q) - 1 : Tail(q)[k] = q[k + 1]
    BY <1>1, <1>2
  <2> DEFINE z == Tail(q)
  <2> HIDE DEF z
  <2>2. Len(steps \o z) = m + Len(z)
     /\ \A k \in 1 .. m + Len(z) : (steps \o z)[k] = IF k <= m THEN steps[k] ELSE z[k - m]
    BY <1>1 DEF z
  <2> QED
    BY <1>2, <1>3, <2>1, <2>2 DEF z
<1>5. ASSUME NEW k \in 1 .. Len(q) - 1 PROVE r[Len(r) + 1 - k] = q[Len(q) + 1 - k]
  <2>1. Len(r) + 1 - k \in m + 1 .. Len(q) - 1 + m /\ (Len(r) + 1 - k) - m + 1 = Len(q) + 1 - k
    BY <1>2, <1>4
  <2> QED
    BY <2>1, <1>4
<1>6. ASSUME NEW k \in 1 .. m PROVE r[Len(r) + 1 - (n - 1 + k)] = steps[m + 1 - k]
  <2>1. Len(r) + 1 - (n - 1 + k) = m + 1 - k
    <3> HIDE DEF r, q, m
    <3> QED
      BY <1>2, <1>4 DEF Depth, q
  <2>2. m + 1 - k \in 1 .. m
    BY <1>2
  <2> QED
    BY <2>1, <2>2, <1>4
<1>7. StackType'
  BY <1>1, <1>2 DEF Then, StackType
<1> QED
  BY <1>2, <1>3, <1>4, <1>5, <1>6, <1>7 DEF Depth, Below

(* Starting with an empty stack. *)
LEMMA Started ==
    ASSUME StackType, NEW t \in Thread,
           NEW steps \in Seq(Entry), todo' = [todo EXCEPT ![t] = steps]
    PROVE  /\ Depth(t)' = Len(steps)
           /\ \A k \in 1 .. Len(steps) : Below(t, k)' = steps[Len(steps) + 1 - k]
           /\ \A u \in Thread \ {t} : todo'[u] = todo[u]
           /\ StackType'
<1>1. todo'[t] = steps /\ \A u \in Thread \ {t} : todo'[u] = todo[u]
  BY DEF StackType
<1>2. StackType'
  BY DEF StackType
<1> QED
  BY <1>1, <1>2 DEF Depth, Below

(* A thread stands as it did when neither its stack nor its button changes. *)
LEMMA StandsStill ==
    ASSUME StackType, NEW u \in Thread, Stands(u), todo'[u] = todo[u],
           u \in Session => template'[u] = template[u]
    PROVE  Stands(u)'
<1>1. /\ Depth(u)' = Depth(u)
      /\ \A k : Below(u, k)' = Below(u, k)
      /\ Idle(u)' <=> Idle(u)
  BY DEF Depth, Below, Idle
<1>2. \A l, b : CleanStack(u, l, b)' <=> CleanStack(u, l, b)
  <2> TAKE l, b
  <2> QED
    BY <1>1 DEF CleanStack
<1> QED
  BY <1>1, <1>2 DEF Stands, Making, Joining, Leaving, Telling

(* A step of one thread, which stands after it, is nothing to the others. *)
LEMMA StackStep ==
    ASSUME StackType, StackInv, NEW t \in Thread, Stands(t)',
           \A u \in Thread \ {t} : todo'[u] = todo[u],
           \A s \in Session \ {t} : template'[s] = template[s]
    PROVE  StackInv'
<1> SUFFICES ASSUME NEW u \in Thread, u # t PROVE Stands(u)'
  BY DEF StackInv
<1> QED
  BY StandsStill DEF StackInv

(* Where the removal of a line starts in the stack of a thread *)
Base(t) == IF t \in Session THEN 2 ELSE 1

(* A thread at a step of a removal has the rest of it below. *)
LEMMA Removing ==
    ASSUME StackType, StackInv, NEW t \in Cleaner, NEW step \in Removal, NEW l \in Line,
           At(t, step, l)
    PROVE  /\ CleanStack(t, l, Base(t))
           /\ t \in Session => template[t] \in Line /\ Below(t, 1) = <<"forget", None>>
<1>1. t \in Thread /\ t \notin Worker
  BY MailboxesAssumption DEF Thread, Cleaner
<1> DEFINE n == Depth(t)
<1>2. n \in Nat /\ n > 0 /\ Below(t, n) = <<step, l>> /\ ~Idle(t)
  BY <1>1, OnTop
<1>3. step \notin {"create", "list", "attach", "forget"}
  BY DEF Removal
<1>4. CASE t \in Session
  <2>1. Making(t) \/ Joining(t) \/ Leaving(t)
    BY <1>1, <1>2, <1>4, MailboxesAssumption DEF StackInv, Stands
  <2>2. ~Making(t) /\ ~Joining(t)
    BY <1>2, <1>3 DEF Making, Joining
  <2>3. Leaving(t) /\ n > 1
    BY <1>2, <1>3, <2>1, <2>2 DEF Leaving
  <2>4. PICK m \in Line : CleanStack(t, m, 2)
    BY <2>3 DEF Leaving
  <2>5. m = l
    BY <1>2, <2>4 DEF CleanStack
  <2> QED
    BY <1>4, <2>3, <2>4, <2>5 DEF Leaving, Base
<1>5. CASE t = Admin
  <2>1. t \notin Session
    BY <1>5, MailboxesAssumption
  <2>2. PICK m \in Line : CleanStack(t, m, 1)
    BY <1>1, <1>2, <2>1 DEF StackInv, Stands
  <2>3. m = l
    BY <1>2, <2>2 DEF CleanStack
  <2> QED
    BY <2>1, <2>2, <2>3 DEF Base
<1> QED
  BY <1>4, <1>5 DEF Cleaner

(* What a step of a removal leaves to be done instead of itself. *)
Follow(l) == {<<>>, <<<<"put", l>>>>, <<<<"unsubscribe", l>>, <<"put", l>>>>, <<<<"join", l>>>>,
              CleanLine(l)}

(* Those are lists of steps. *)
LEMMA FollowType ==
    ASSUME NEW l \in Line, NEW steps \in Follow(l)
    PROVE  steps \in Seq(Entry)
<1>2. /\ <<"put", l>> \in Entry /\ <<"unsubscribe", l>> \in Entry /\ <<"join", l>> \in Entry
      /\ <<"destroyed", l>> \in Entry /\ <<"unlist", l>> \in Entry /\ <<"unlock", l>> \in Entry
  BY DEF Step, Entry
<1>3. <<>> \in Seq(Entry) /\ <<<<"put", l>>>> \in Seq(Entry) /\ <<<<"join", l>>>> \in Seq(Entry)
  BY <1>2
<1>4. <<<<"unsubscribe", l>>, <<"put", l>>>> \in Seq(Entry)
  BY <1>2
<1>5. <<<<"destroyed", l>>, <<"unlist", l>>, <<"unlock", l>>>> \in Seq(Entry)
  BY <1>2
<1> QED
  BY <1>3, <1>4, <1>5 DEF Follow, CleanLine

(* A step of a removal leaves the rest of it as it should be. *)
LEMMA CleanNext ==
    ASSUME StackType, NEW t \in Thread, NEW l \in Line, NEW b \in {1, 2}, NEW n \in Nat,
           Depth(t) = n, n > b, CleanStack(t, l, b), NEW steps \in Follow(l), Then(t, steps)
    PROVE  CleanStack(t, l, b)'
<1> DEFINE m == Len(steps)
<1>1. /\ Depth(t)' = n - 1 + m
      /\ \A k \in 1 .. n - 1 : Below(t, k)' = Below(t, k)
      /\ \A k \in 1 .. m : Below(t, n - 1 + k)' = steps[m + 1 - k]
  <2>1. steps \in Seq(Entry) /\ n \in Nat \ {0}
    BY FollowType
  <2> QED
    BY <2>1, Pushed
<1>2. Depth(t)' \in Nat /\ b <= Depth(t)' /\ Below(t, b)' = <<"put", l>>
  BY <1>1, FollowType DEF CleanStack
<1>3. ASSUME NEW k \in b .. n - 1
      PROVE  /\ Below(t, k)' \in Removal \X {l}
             /\ Below(t, k)'[1] \notin {"unsubscribe", "join"}
             /\ Below(t, k)'[1] = "destroyed" => k > b /\ Below(t, k - 1)' = <<"unlist", l>>
  <2>1. Below(t, k)' = Below(t, k) /\ k \in b .. Depth(t) /\ k # Depth(t)
    BY <1>1
  <2>2. k > b => Below(t, k - 1)' = Below(t, k - 1)
    BY <1>1
  <2> QED
    BY <2>1, <2>2 DEF CleanStack
<1>4. ASSUME NEW j \in 1 .. m
      PROVE  /\ steps[m + 1 - j] \in Removal \X {l}
             /\ steps[m + 1 - j][1] \in {"unsubscribe", "join"} => j = m
             /\ steps[m + 1 - j][1] = "destroyed" =>
                   j > 1 /\ steps[m + 1 - (j - 1)] = <<"unlist", l>>
  BY DEF Follow, CleanLine, Removal
<1>5. ASSUME NEW k \in n .. n - 1 + m
      PROVE  /\ Below(t, k)' \in Removal \X {l}
             /\ Below(t, k)'[1] \in {"unsubscribe", "join"} => k = n - 1 + m
             /\ Below(t, k)'[1] = "destroyed" => k > b /\ Below(t, k - 1)' = <<"unlist", l>>
  <2> DEFINE j == k - (n - 1)
  <2>1. m \in Nat
    BY FollowType
  <2>2. j \in 1 .. m /\ k = n - 1 + j
    BY <2>1
  <2>3. Below(t, k)' = steps[m + 1 - j]
    BY <1>1, <2>2
  <2>4. j > 1 => Below(t, k - 1)' = steps[m + 1 - (j - 1)]
    <3>1. j > 1 => j - 1 \in 1 .. m /\ k - 1 = n - 1 + (j - 1)
      BY <2>1, <2>2
    <3> QED
      BY <1>1, <3>1
  <2>5. (j = m => k = n - 1 + m) /\ (j > 1 => k > b)
    BY <2>1, <2>2
  <2> HIDE DEF j
  <2> QED
    BY <1>4, <2>2, <2>3, <2>4, <2>5
<1>6. ASSUME NEW k \in b .. n - 1 + m PROVE k \in b .. n - 1 \/ k \in n .. n - 1 + m
  BY FollowType
<1>7. ASSUME NEW k \in b .. n - 1 + m
      PROVE  /\ Below(t, k)' \in Removal \X {l}
             /\ Below(t, k)'[1] \in {"unsubscribe", "join"} => k = n - 1 + m
             /\ Below(t, k)'[1] = "destroyed" => k > b /\ Below(t, k - 1)' = <<"unlist", l>>
  BY <1>3, <1>5, <1>6
<1> QED
  BY <1>1, <1>2, <1>7 DEF CleanStack

(* What is on top tells how a thread stands. *)
LEMMA Tops ==
    ASSUME StackType, StackInv, NEW t \in Thread, NEW l \in Line \cup {None}
    PROVE  /\ At(t, "create", l) => t \in Session /\ Making(t) /\ Depth(t) = 1
           /\ At(t, "list", l) =>
                 t \in Session /\ template[t] = l /\ l \in Line /\ Depth(t) = 2
                   /\ Below(t, 1) = <<"attach", l>>
           /\ At(t, "attach", l) => t \in Session /\ template[t] = l /\ Depth(t) = 1
           /\ At(t, "forget", l) => t \in Session /\ template[t] \in Line /\ Depth(t) = 1
           /\ \A step \in {"subscribe", "watch"} : At(t, step, l) =>
                 t \in Worker /\ Depth(t) = 2 /\ l \in Line /\ Below(t, 1) = <<"put", l>>
           /\ t \in Worker /\ At(t, "put", l) => Depth(t) = 1
           /\ \A step \in Removal \ {"put"} : At(t, step, l) => t \in Cleaner /\ l \in Line
<1> DEFINE n == Depth(t)
<1>1. n \in Nat /\ \A step : At(t, step, l) <=> n > 0 /\ Below(t, n) = <<step, l>>
  BY OnTop
<1>2. Stands(t)
  BY DEF StackInv
<1>3. CASE Idle(t)
  BY <1>3 DEF Idle, At
<1>4. CASE t \in Session /\ Making(t)
  BY <1>1, <1>4, MailboxesAssumption DEF Making, Removal
<1>5. CASE t \in Session /\ Joining(t)
  <2>1. n = 1 \/ n = 2
    BY <1>1, <1>5 DEF Joining
  <2>2. ASSUME NEW step, At(t, step, l)
        PROVE  /\ template[t] = l /\ l \in Line
               /\ \/ step = "attach" /\ n = 1
                  \/ step = "list" /\ n = 2 /\ Below(t, 1) = <<"attach", l>>
    <3>1. Below(t, n) = <<step, l>>
      BY <1>1, <2>2
    <3>2. CASE n = 1
      BY <1>5, <3>1, <3>2 DEF Joining
    <3>3. CASE n = 2
      BY <1>5, <3>1, <3>3 DEF Joining
    <3> QED
      BY <2>1, <3>2, <3>3
  <2> QED
    BY <1>5, <2>2, MailboxesAssumption DEF Removal
<1>6. CASE t \in Session /\ Leaving(t)
  <2>1. ASSUME NEW step, At(t, step, l)
        PROVE  (n = 1 /\ step = "forget") \/ (step \in Removal /\ l \in Line)
    <3>1. Below(t, n) = <<step, l>> /\ n > 0
      BY <1>1, <2>1
    <3>2. CASE n = 1
      BY <1>6, <3>1, <3>2 DEF Leaving
    <3>3. CASE n > 1
      <4>1. PICK m \in Line : CleanStack(t, m, 2)
        BY <1>6, <3>3 DEF Leaving
      <4>2. Below(t, n) \in Removal \X {m}
        BY <1>1, <3>1, <3>3, <4>1 DEF CleanStack
      <4> QED
        BY <3>1, <4>2
    <3> QED
      BY <1>1, <3>1, <3>2, <3>3
  <2> QED
    BY <1>6, <2>1, MailboxesAssumption DEF Removal, Cleaner, Leaving
<1>7. CASE t = Admin /\ \E m \in Line : CleanStack(t, m, 1)
  <2>1. \A step : At(t, step, l) => step \in Removal /\ l \in Line
    BY <1>1, <1>7 DEF CleanStack
  <2> QED
    BY <1>7, <2>1, MailboxesAssumption DEF Removal, Cleaner
<1>8. CASE t \in Worker /\ Telling(t)
  <2>1. PICK m \in Line :
           /\ n \in 1 .. 2 /\ Below(t, 1) = <<"put", m>>
           /\ n = 2 => Below(t, 2) \in {"subscribe", "watch"} \X {m}
    BY <1>8 DEF Telling
  <2>2. n = 1 \/ n = 2
    BY <2>1
  <2>3. ASSUME NEW step, At(t, step, l)
        PROVE  l = m /\ ((n = 1 /\ step = "put") \/ (n = 2 /\ step \in {"subscribe", "watch"}))
    <3>1. Below(t, n) = <<step, l>>
      BY <1>1, <2>3
    <3>2. CASE n = 1
      BY <2>1, <3>1, <3>2
    <3>3. CASE n = 2
      BY <2>1, <3>1, <3>3
    <3> QED
      BY <2>2, <3>2, <3>3
  <2> QED
    BY <1>8, <2>1, <2>3, MailboxesAssumption DEF Removal
<1> QED
  BY <1>2, <1>3, <1>4, <1>5, <1>6, <1>7, <1>8 DEF Stands

(* A step of a removal that is not the last. *)
LEMMA RemovalStep ==
    ASSUME StackType, StackInv, NEW t \in Cleaner, NEW step \in Removal \ {"put"},
           NEW l \in Line, At(t, step, l), NEW steps \in Follow(l), Then(t, steps),
           template' = template
    PROVE  StackInv'
<1>1. t \in Thread /\ t \notin Worker
  BY MailboxesAssumption DEF Thread, Cleaner
<1>2. /\ CleanStack(t, l, Base(t))
      /\ t \in Session => template[t] \in Line /\ Below(t, 1) = <<"forget", None>>
  BY Removing
<1> DEFINE n == Depth(t)
           b == Base(t)
<1>3. n \in Nat /\ n > 0 /\ Below(t, n) = <<step, l>> /\ b \in {1, 2}
  BY <1>1, OnTop DEF Base
<1>4. n > b
  BY <1>2, <1>3 DEF CleanStack
<1>5. CleanStack(t, l, b)'
  <2> HIDE DEF b
  <2>1. CleanStack(t, l, b)
    BY <1>2 DEF b
  <2> QED
    BY <1>1, <1>3, <1>4, <2>1, CleanNext
<1>6. /\ \A k \in 1 .. n - 1 : Below(t, k)' = Below(t, k)
      /\ \A u \in Thread \ {t} : todo'[u] = todo[u]
      /\ Depth(t)' \in Nat
  BY <1>1, <1>3, Pushed, FollowType
<1>7. Stands(t)'
  <2>1. CASE t \in Session
    <3>1. b = 2 /\ Below(t, 1)' = Below(t, 1)
      BY <1>3, <1>4, <1>6, <2>1 DEF Base
    <3>2. CleanStack(t, l, 2)'
      BY <1>5, <3>1
    <3>3. Depth(t)' > 0 /\ template'[t] \in Line
      BY <1>2, <1>6, <3>2, <2>1 DEF CleanStack
    <3>4. Leaving(t)'
      BY <1>2, <2>1, <3>1, <3>2, <3>3 DEF Leaving
    <3> QED
      BY <2>1, <3>4 DEF Stands
  <2>2. CASE t = Admin
    <3>1. b = 1
      BY <2>2, MailboxesAssumption DEF Base
    <3>2. CleanStack(t, l, 1)'
      BY <1>5, <3>1
    <3> QED
      BY <2>2, <3>2 DEF Stands
  <2> QED
    BY <2>1, <2>2 DEF Cleaner
<1> QED
  BY <1>1, <1>6, <1>7, StackStep

(* Taking the top off *)
LEMMA PutDown ==
    ASSUME StackType, StackInv, NEW t \in Thread, NEW l \in Line, At(t, "put", l), Done(t),
           template' = template
    PROVE  StackInv'
<1> DEFINE n == Depth(t)
<1>1. /\ n \in Nat /\ n > 0 /\ Depth(t)' = n - 1 /\ Below(t, n) = <<"put", l>>
      /\ \A k \in 1 .. n - 1 : Below(t, k)' = Below(t, k)
      /\ \A u \in Thread \ {t} : todo'[u] = todo[u]
      /\ StackType'
      /\ Idle(t)' <=> n - 1 = 0
  <2>1. todo[t] # <<>>
    BY DEF At
  <2>2. StackType' => (Idle(t)' <=> Depth(t)' = 0)
    BY DEF StackType, Idle, Depth
  <2> QED
    BY <2>1, <2>2, OnTop, Popped
<1>2. Stands(t)'
  <2>1. CASE t \in Worker
    BY <1>1, <2>1, Tops DEF Stands
  <2>2. CASE t \in Cleaner
    <3> DEFINE b == Base(t)
    <3>1. /\ CleanStack(t, l, b)
          /\ t \in Session => template[t] \in Line /\ Below(t, 1) = <<"forget", None>>
      BY <2>2, Removing DEF Removal
    <3>2. b \in {1, 2} /\ b <= n
      BY <3>1 DEF CleanStack, Base
    <3>3. CASE b = n /\ t = Admin
      BY <1>1, <3>3, MailboxesAssumption DEF Base, Stands
    <3>4. CASE b = n /\ t \in Session
      <4>1. Depth(t)' = 1 /\ Below(t, 1)' = <<"forget", None>> /\ template'[t] \in Line
        BY <1>1, <3>1, <3>4 DEF Base
      <4> QED
        BY <3>4, <4>1 DEF Stands, Leaving
    <3>5. CASE b < n
      <4>1. CleanStack(t, l, b)'
        <5> HIDE DEF b
        <5>1. CleanStack(t, l, b) /\ <<>> \in Follow(l) /\ Then(t, <<>>)
          BY <3>1 DEF b, Done, Follow
        <5> QED
          BY <1>1, <3>2, <3>5, <5>1, CleanNext
      <4>2. CASE t = Admin
        <5>1. b = 1
          BY <4>2, MailboxesAssumption DEF Base
        <5>2. CleanStack(t, l, 1)'
          BY <4>1, <5>1
        <5> QED
          BY <4>2, <5>2 DEF Stands
      <4>3. CASE t \in Session
        <5>1. b = 2 /\ Below(t, 1)' = <<"forget", None>> /\ template'[t] \in Line
          BY <1>1, <3>1, <3>2, <3>5, <4>3 DEF Base
        <5>2. CleanStack(t, l, 2)' /\ Depth(t)' > 0
          BY <1>1, <3>2, <3>5, <4>1, <5>1
        <5>3. Leaving(t)'
          BY <5>1, <5>2 DEF Leaving
        <5> QED
          BY <4>3, <5>3 DEF Stands
      <4> QED
        BY <2>2, <4>2, <4>3 DEF Cleaner
    <3> QED
      BY <1>1, <2>2, <3>2, <3>3, <3>4, <3>5 DEF Cleaner
  <2> QED
    BY <2>1, <2>2 DEF Thread
<1> QED
  BY <1>1, <1>2, StackStep

(* What the types say of the stacks, the list of lines and the jobs *)
LEMMA TypeFacts ==
    ASSUME TypeOK
    PROVE  /\ StackType /\ template \in [Session -> Line \cup {None}]
           /\ lines # <<>> => Head(lines) \in Line /\ Head(lines) \in Listed
           /\ jobs # <<>> => Head(jobs) \in Line /\ Head(jobs) \in Range(jobs)
<1>1. lines \in Seq(Line) /\ jobs \in Seq(Line)
  BY DEF TypeOK
<1>2. /\ lines # <<>> => 1 \in DOMAIN lines /\ Head(lines) = lines[1] /\ lines[1] \in Line
      /\ jobs # <<>> => 1 \in DOMAIN jobs /\ Head(jobs) = jobs[1] /\ jobs[1] \in Line
  BY <1>1
<1> QED
  BY <1>2 DEF TypeOK, StackType, Entry, Listed, Range

(* The steps there are *)
LEMMA Entries ==
    ASSUME NEW l \in Line \cup {None}
    PROVE  \A step \in Step : <<step, l>> \in Entry
BY DEF Entry

(* Beginning 1 step *)
LEMMA Began1 ==
    ASSUME StackType, NEW t \in Thread, NEW a \in Entry,
           todo' = [todo EXCEPT ![t] = <<a>>]
    PROVE  /\ Depth(t)' = 1 /\ Below(t, 1)' = a
           /\ \A u \in Thread \ {t} : todo'[u] = todo[u]
           /\ StackType'
<1>1. <<a>> \in Seq(Entry)
  OBVIOUS
<1>2. PICK steps \in Seq(Entry) : steps = <<a>>
  BY <1>1, Zenon
<1>3. steps \in Seq(Entry) /\ Len(steps) = 1 /\ steps[1] = a
  BY <1>2
<1>4. todo' = [todo EXCEPT ![t] = steps]
  BY <1>2
<1>5. /\ Depth(t)' = Len(steps)
      /\ \A k \in 1 .. Len(steps) : Below(t, k)' = steps[Len(steps) + 1 - k]
      /\ \A u \in Thread \ {t} : todo'[u] = todo[u]
      /\ StackType'
  BY <1>4, Started
<1>6. /\ Depth(t)' = 1 /\ \A k \in 1 .. 1 : Below(t, k)' = steps[1 + 1 - k]
      /\ \A u \in Thread \ {t} : todo'[u] = todo[u]
      /\ StackType'
  BY <1>3, <1>5
<1>7. Below(t, 1)' = steps[1]
  BY <1>6
<1> QED
  BY <1>3, <1>6, <1>7

(* Beginning 2 steps *)
LEMMA Began2 ==
    ASSUME StackType, NEW t \in Thread, NEW a \in Entry, NEW b \in Entry,
           todo' = [todo EXCEPT ![t] = <<a, b>>]
    PROVE  /\ Depth(t)' = 2 /\ Below(t, 1)' = b /\ Below(t, 2)' = a
           /\ \A u \in Thread \ {t} : todo'[u] = todo[u]
           /\ StackType'
<1>1. <<a, b>> \in Seq(Entry)
  OBVIOUS
<1>2. PICK steps \in Seq(Entry) : steps = <<a, b>>
  BY <1>1, Zenon
<1>3. steps \in Seq(Entry) /\ Len(steps) = 2 /\ steps[1] = a /\ steps[2] = b
  BY <1>2
<1>4. todo' = [todo EXCEPT ![t] = steps]
  BY <1>2
<1>5. /\ Depth(t)' = Len(steps)
      /\ \A k \in 1 .. Len(steps) : Below(t, k)' = steps[Len(steps) + 1 - k]
      /\ \A u \in Thread \ {t} : todo'[u] = todo[u]
      /\ StackType'
  BY <1>4, Started
<1>6. /\ Depth(t)' = 2 /\ \A k \in 1 .. 2 : Below(t, k)' = steps[2 + 1 - k]
      /\ \A u \in Thread \ {t} : todo'[u] = todo[u]
      /\ StackType'
  BY <1>3, <1>5
<1>7. Below(t, 1)' = steps[2] /\ Below(t, 2)' = steps[1]
  BY <1>6
<1> QED
  BY <1>3, <1>6, <1>7

(* Beginning 3 steps *)
LEMMA Began3 ==
    ASSUME StackType, NEW t \in Thread, NEW a \in Entry, NEW b \in Entry, NEW c \in Entry,
           todo' = [todo EXCEPT ![t] = <<a, b, c>>]
    PROVE  /\ Depth(t)' = 3 /\ Below(t, 1)' = c /\ Below(t, 2)' = b /\ Below(t, 3)' = a
           /\ \A u \in Thread \ {t} : todo'[u] = todo[u]
           /\ StackType'
<1>1. <<a, b, c>> \in Seq(Entry)
  OBVIOUS
<1>2. PICK steps \in Seq(Entry) : steps = <<a, b, c>>
  BY <1>1, Zenon
<1>3. steps \in Seq(Entry) /\ Len(steps) = 3 /\ steps[1] = a /\ steps[2] = b /\ steps[3] = c
  BY <1>2
<1>4. todo' = [todo EXCEPT ![t] = steps]
  BY <1>2
<1>5. /\ Depth(t)' = Len(steps)
      /\ \A k \in 1 .. Len(steps) : Below(t, k)' = steps[Len(steps) + 1 - k]
      /\ \A u \in Thread \ {t} : todo'[u] = todo[u]
      /\ StackType'
  BY <1>4, Started
<1>6. /\ Depth(t)' = 3 /\ \A k \in 1 .. 3 : Below(t, k)' = steps[3 + 1 - k]
      /\ \A u \in Thread \ {t} : todo'[u] = todo[u]
      /\ StackType'
  BY <1>3, <1>5
<1>7. Below(t, 1)' = steps[3] /\ Below(t, 2)' = steps[2] /\ Below(t, 3)' = steps[1]
  BY <1>6
<1> QED
  BY <1>3, <1>6, <1>7

(* Beginning 4 steps *)
LEMMA Began4 ==
    ASSUME StackType, NEW t \in Thread, NEW a \in Entry, NEW b \in Entry,
           NEW c \in Entry, NEW d \in Entry,
           todo' = [todo EXCEPT ![t] = <<a, b, c, d>>]
    PROVE  /\ Depth(t)' = 4 /\ Below(t, 1)' = d /\ Below(t, 2)' = c
           /\ Below(t, 3)' = b /\ Below(t, 4)' = a
           /\ \A u \in Thread \ {t} : todo'[u] = todo[u]
           /\ StackType'
<1>1. <<a, b, c, d>> \in Seq(Entry)
  OBVIOUS
<1>2. PICK steps \in Seq(Entry) : steps = <<a, b, c, d>>
  BY <1>1, Zenon
<1>3. /\ steps \in Seq(Entry) /\ Len(steps) = 4
      /\ steps[1] = a /\ steps[2] = b /\ steps[3] = c /\ steps[4] = d
  BY <1>2
<1>4. todo' = [todo EXCEPT ![t] = steps]
  BY <1>2
<1>5. /\ Depth(t)' = Len(steps)
      /\ \A k \in 1 .. Len(steps) : Below(t, k)' = steps[Len(steps) + 1 - k]
      /\ \A u \in Thread \ {t} : todo'[u] = todo[u]
      /\ StackType'
  BY <1>4, Started
<1>6. /\ Depth(t)' = 4 /\ \A k \in 1 .. 4 : Below(t, k)' = steps[4 + 1 - k]
      /\ \A u \in Thread \ {t} : todo'[u] = todo[u]
      /\ StackType'
  BY <1>3, <1>5
<1>7. /\ Below(t, 1)' = steps[4] /\ Below(t, 2)' = steps[3]
      /\ Below(t, 3)' = steps[2] /\ Below(t, 4)' = steps[1]
  BY <1>6
<1> QED
  BY <1>3, <1>6, <1>7

(* Having 1 step instead of the top *)
LEMMA Went1 ==
    ASSUME StackType, NEW t \in Thread, NEW n \in Nat \ {0}, Depth(t) = n,
           NEW a \in Entry, Then(t, <<a>>)
    PROVE  /\ Depth(t)' = n /\ Below(t, n)' = a
           /\ \A k \in 1 .. n - 1 : Below(t, k)' = Below(t, k)
           /\ \A u \in Thread \ {t} : todo'[u] = todo[u]
           /\ StackType'
<1>1. <<a>> \in Seq(Entry)
  OBVIOUS
<1>2. PICK steps \in Seq(Entry) : steps = <<a>>
  BY <1>1, Zenon
<1>3. steps \in Seq(Entry) /\ Len(steps) = 1 /\ steps[1] = a
  BY <1>2
<1>4. Then(t, steps)
  BY <1>2
<1>5. /\ Depth(t)' = n - 1 + Len(steps)
      /\ \A k \in 1 .. Len(steps) : Below(t, n - 1 + k)' = steps[Len(steps) + 1 - k]
      /\ \A k \in 1 .. n - 1 : Below(t, k)' = Below(t, k)
      /\ \A u \in Thread \ {t} : todo'[u] = todo[u]
      /\ StackType'
  BY <1>4, Pushed
<1>6. /\ Depth(t)' = n - 1 + 1 /\ \A k \in 1 .. 1 : Below(t, n - 1 + k)' = steps[1 + 1 - k]
      /\ \A k \in 1 .. n - 1 : Below(t, k)' = Below(t, k)
      /\ \A u \in Thread \ {t} : todo'[u] = todo[u]
      /\ StackType'
  BY <1>3, <1>5
<1>7. Below(t, n - 1 + 1)' = steps[1]
  BY <1>6
<1>8. n - 1 + 1 = n
  OBVIOUS
<1> QED
  BY <1>3, <1>6, <1>7, <1>8

(* Having 2 steps instead of the top *)
LEMMA Went2 ==
    ASSUME StackType, NEW t \in Thread, NEW n \in Nat \ {0}, Depth(t) = n,
           NEW a \in Entry, NEW b \in Entry, Then(t, <<a, b>>)
    PROVE  /\ Depth(t)' = n + 1 /\ Below(t, n)' = b /\ Below(t, n + 1)' = a
           /\ \A k \in 1 .. n - 1 : Below(t, k)' = Below(t, k)
           /\ \A u \in Thread \ {t} : todo'[u] = todo[u]
           /\ StackType'
<1>1. <<a, b>> \in Seq(Entry)
  OBVIOUS
<1>2. PICK steps \in Seq(Entry) : steps = <<a, b>>
  BY <1>1, Zenon
<1>3. steps \in Seq(Entry) /\ Len(steps) = 2 /\ steps[1] = a /\ steps[2] = b
  BY <1>2
<1>4. Then(t, steps)
  BY <1>2
<1>5. /\ Depth(t)' = n - 1 + Len(steps)
      /\ \A k \in 1 .. Len(steps) : Below(t, n - 1 + k)' = steps[Len(steps) + 1 - k]
      /\ \A k \in 1 .. n - 1 : Below(t, k)' = Below(t, k)
      /\ \A u \in Thread \ {t} : todo'[u] = todo[u]
      /\ StackType'
  BY <1>4, Pushed
<1>6. /\ Depth(t)' = n - 1 + 2 /\ \A k \in 1 .. 2 : Below(t, n - 1 + k)' = steps[2 + 1 - k]
      /\ \A k \in 1 .. n - 1 : Below(t, k)' = Below(t, k)
      /\ \A u \in Thread \ {t} : todo'[u] = todo[u]
      /\ StackType'
  BY <1>3, <1>5
<1>7. Below(t, n - 1 + 1)' = steps[2] /\ Below(t, n - 1 + 2)' = steps[1]
  BY <1>6
<1>8. n - 1 + 1 = n /\ n - 1 + 2 = n + 1
  OBVIOUS
<1> QED
  BY <1>3, <1>6, <1>7, <1>8

(* Having 3 steps instead of the top *)
LEMMA Went3 ==
    ASSUME StackType, NEW t \in Thread, NEW n \in Nat \ {0}, Depth(t) = n,
           NEW a \in Entry, NEW b \in Entry, NEW c \in Entry, Then(t, <<a, b, c>>)
    PROVE  /\ Depth(t)' = n + 2 /\ Below(t, n)' = c
           /\ Below(t, n + 1)' = b /\ Below(t, n + 2)' = a
           /\ \A k \in 1 .. n - 1 : Below(t, k)' = Below(t, k)
           /\ \A u \in Thread \ {t} : todo'[u] = todo[u]
           /\ StackType'
<1>1. <<a, b, c>> \in Seq(Entry)
  OBVIOUS
<1>2. PICK steps \in Seq(Entry) : steps = <<a, b, c>>
  BY <1>1, Zenon
<1>3. steps \in Seq(Entry) /\ Len(steps) = 3 /\ steps[1] = a /\ steps[2] = b /\ steps[3] = c
  BY <1>2
<1>4. Then(t, steps)
  BY <1>2
<1>5. /\ Depth(t)' = n - 1 + Len(steps)
      /\ \A k \in 1 .. Len(steps) : Below(t, n - 1 + k)' = steps[Len(steps) + 1 - k]
      /\ \A k \in 1 .. n - 1 : Below(t, k)' = Below(t, k)
      /\ \A u \in Thread \ {t} : todo'[u] = todo[u]
      /\ StackType'
  BY <1>4, Pushed
<1>6. /\ Depth(t)' = n - 1 + 3 /\ \A k \in 1 .. 3 : Below(t, n - 1 + k)' = steps[3 + 1 - k]
      /\ \A k \in 1 .. n - 1 : Below(t, k)' = Below(t, k)
      /\ \A u \in Thread \ {t} : todo'[u] = todo[u]
      /\ StackType'
  BY <1>3, <1>5
<1>7. /\ Below(t, n - 1 + 1)' = steps[3] /\ Below(t, n - 1 + 2)' = steps[2]
      /\ Below(t, n - 1 + 3)' = steps[1]
  BY <1>6
<1>8. n - 1 + 1 = n /\ n - 1 + 2 = n + 1 /\ n - 1 + 3 = n + 2
  OBVIOUS
<1> QED
  BY <1>3, <1>6, <1>7, <1>8

(* Who the threads are *)
LEMMA Members ==
    /\ Session \subseteq Thread /\ Worker \subseteq Thread /\ Admin \in Thread
    /\ Cleaner \subseteq Thread /\ Session \subseteq Cleaner /\ Admin \in Cleaner
    /\ Session \cap Worker = {} /\ Admin \notin Session /\ Admin \notin Worker
    /\ None \notin Line
BY MailboxesAssumption DEF Thread, Cleaner

(* Every step keeps how the threads stand: registering, *)
LEMMA RegisterStands ==
    ASSUME TypeOK, StackInv, NEW s \in Session, Register(s)
    PROVE  StackInv' /\ StackType'
<1> USE TypeFacts, Members
<1>1. CASE lines = <<>>
  <2>1. <<"create", None>> \in Entry /\ todo' = [todo EXCEPT ![s] = <<<<"create", None>>>>]
    BY <1>1, Entries DEF Register, Step
  <2>2. /\ Depth(s)' = 1 /\ Below(s, 1)' = <<"create", None>> /\ StackType'
        /\ \A u \in Thread \ {s} : todo'[u] = todo[u]
    BY <2>1, Began1
  <2>3. template' = template /\ template'[s] = None
    BY <1>1 DEF Register
  <2>4. Stands(s)'
    BY <2>2, <2>3 DEF Stands, Making
  <2> QED
    BY <2>2, <2>3, <2>4, StackStep
<1>2. CASE lines # <<>>
  <2>1. PICK l \in Line : l = Head(lines)
    BY <1>2
  <2>2. <<"attach", l>> \in Entry /\ todo' = [todo EXCEPT ![s] = <<<<"attach", l>>>>]
    BY <1>2, <2>1, Entries DEF Register, Step
  <2>3. /\ Depth(s)' = 1 /\ Below(s, 1)' = <<"attach", l>> /\ StackType'
        /\ \A u \in Thread \ {s} : todo'[u] = todo[u]
    BY <2>2, Began1
  <2>4. template'[s] = l /\ \A u \in Session \ {s} : template'[u] = template[u]
    BY <1>2, <2>1 DEF Register
  <2>5. Stands(s)'
    BY <2>3, <2>4 DEF Stands, Joining
  <2> QED
    BY <2>3, <2>4, <2>5, StackStep
<1> QED
  BY <1>1, <1>2

(* the creation of a line and its way to the list and to the phone, *)
LEMMA CreateStands ==
    ASSUME TypeOK, StackInv, NEW s \in Session,
           \/ Refused(s) \/ Create(s) \/ \E l \in Line : List(s, l) \/ Attach(s, l)
    PROVE  StackInv' /\ StackType'
<1> USE TypeFacts, Members
<1>1. CASE Refused(s)
  <2>1. todo[s] # <<>> /\ Depth(s) = 1 /\ Done(s) /\ template' = template
    BY <1>1, Tops DEF Refused, At, phoneVars
  <2>2. /\ Depth(s)' = 0 /\ StackType'
        /\ \A u \in Thread \ {s} : todo'[u] = todo[u]
    BY <2>1, Popped
  <2>3. Stands(s)'
    BY <2>2 DEF Stands, Idle, Depth, StackType
  <2> QED
    BY <2>1, <2>2, <2>3, StackStep
<1>2. CASE Create(s)
  <2>1. PICK l \in Line \ made :
           template' = [template EXCEPT ![s] = l] /\ Then(s, <<<<"list", l>>, <<"attach", l>>>>)
    BY <1>2 DEF Create
  <2>2. Depth(s) = 1 /\ <<"list", l>> \in Entry /\ <<"attach", l>> \in Entry
    BY <1>2, Tops, Entries DEF Create, Step
  <2>3. /\ Depth(s)' = 2 /\ Below(s, 1)' = <<"attach", l>> /\ Below(s, 2)' = <<"list", l>>
        /\ StackType' /\ \A u \in Thread \ {s} : todo'[u] = todo[u]
    <3>1. PICK n \in Nat \ {0} : n = 1
      OBVIOUS
    <3>2. /\ Depth(s)' = n + 1 /\ Below(s, n)' = <<"attach", l>>
          /\ Below(s, n + 1)' = <<"list", l>>
          /\ StackType' /\ \A u \in Thread \ {s} : todo'[u] = todo[u]
      BY <2>1, <2>2, <3>1, Went2
    <3> QED
      BY <3>1, <3>2
  <2>4. template'[s] = l /\ \A u \in Session \ {s} : template'[u] = template[u]
    BY <2>1
  <2>5. Stands(s)'
    BY <2>3, <2>4 DEF Stands, Joining
  <2> QED
    BY <2>3, <2>4, <2>5, StackStep
<1>3. ASSUME NEW l \in Line, List(s, l) PROVE StackInv' /\ StackType'
  <2>1. /\ todo[s] # <<>> /\ Depth(s) = 2 /\ Done(s) /\ template' = template
        /\ template[s] = l /\ Below(s, 1) = <<"attach", l>>
    BY <1>3, Tops DEF List, At, phoneVars
  <2>2. /\ Depth(s)' = 1 /\ Below(s, 1)' = <<"attach", l>> /\ StackType'
        /\ \A u \in Thread \ {s} : todo'[u] = todo[u]
    BY <2>1, Popped
  <2>3. Stands(s)'
    BY <2>1, <2>2 DEF Stands, Joining
  <2> QED
    BY <2>1, <2>2, <2>3, StackStep
<1>4. ASSUME NEW l \in Line, Attach(s, l) PROVE StackInv' /\ StackType'
  <2>1. todo[s] # <<>> /\ Depth(s) = 1 /\ Done(s) /\ template' = template
    BY <1>4, Tops DEF Attach, At
  <2>2. /\ Depth(s)' = 0 /\ StackType'
        /\ \A u \in Thread \ {s} : todo'[u] = todo[u]
    BY <2>1, Popped
  <2>3. Stands(s)'
    BY <2>2 DEF Stands, Idle, Depth, StackType
  <2> QED
    BY <2>1, <2>2, <2>3, StackStep
<1> QED
  BY <1>1, <1>2, <1>3, <1>4

(* the beginning of a removal, by a phone or a reload, and the end of a phone's, *)
LEMMA LeaveStands ==
    ASSUME TypeOK, StackInv,
           \/ \E s \in Session : Clean(s) \/ Forget(s)
           \/ \E l \in Line : Delete(l)
    PROVE  StackInv' /\ StackType'
<1> USE TypeFacts, Members
<1>1. ASSUME NEW s \in Session, Clean(s) PROVE StackInv' /\ StackType'
  <2>1. template' = template /\ template[s] \in Line
    BY <1>1 DEF Clean, phoneVars
  <2>2. CASE lines = <<>>
    <3>1. <<"forget", None>> \in Entry /\ todo' = [todo EXCEPT ![s] = <<<<"forget", None>>>>]
      BY <1>1, <2>2, Entries DEF Clean, Step
    <3>2. /\ Depth(s)' = 1 /\ Below(s, 1)' = <<"forget", None>> /\ StackType'
          /\ \A u \in Thread \ {s} : todo'[u] = todo[u]
      BY <3>1, Began1
    <3>3. Stands(s)'
      BY <2>1, <3>2 DEF Stands, Leaving
    <3> QED
      BY <2>1, <3>2, <3>3, StackStep
  <2>3. CASE lines # <<>>
    <3>1. PICK l \in Line : l = Head(lines)
      BY <2>3
    <3>2. /\ <<"remove", l>> \in Entry /\ <<"put", l>> \in Entry /\ <<"forget", None>> \in Entry
          /\ todo' = [todo EXCEPT ![s] = <<<<"remove", l>>, <<"put", l>>, <<"forget", None>>>>]
      BY <1>1, <2>3, <3>1, Entries DEF Clean, Step
    <3>3. /\ Depth(s)' = 3 /\ Below(s, 1)' = <<"forget", None>> /\ Below(s, 2)' = <<"put", l>>
          /\ Below(s, 3)' = <<"remove", l>> /\ StackType'
          /\ \A u \in Thread \ {s} : todo'[u] = todo[u]
      BY <3>2, Began3
    <3>4. CleanStack(s, l, 2)'
      <4>1. ASSUME NEW k \in 2 .. 3 PROVE k = 2 \/ k = 3
        OBVIOUS
      <4> QED
        BY <3>3, <4>1 DEF CleanStack, Removal
    <3>5. Stands(s)'
      BY <2>1, <3>3, <3>4 DEF Stands, Leaving
    <3> QED
      BY <2>1, <3>3, <3>5, StackStep
  <2> QED
    BY <2>2, <2>3
<1>2. ASSUME NEW s \in Session, Forget(s) PROVE StackInv' /\ StackType'
  <2>1. /\ todo[s] # <<>> /\ Depth(s) = 1 /\ Done(s)
        /\ \A u \in Session \ {s} : template'[u] = template[u]
    BY <1>2, Tops DEF Forget, At
  <2>2. /\ Depth(s)' = 0 /\ StackType'
        /\ \A u \in Thread \ {s} : todo'[u] = todo[u]
    BY <2>1, Popped
  <2>3. Stands(s)'
    BY <2>2 DEF Stands, Idle, Depth, StackType
  <2> QED
    BY <2>1, <2>2, <2>3, StackStep
<1>3. ASSUME NEW l \in Line, Delete(l) PROVE StackInv' /\ StackType'
  <2>1. /\ <<"purge", l>> \in Entry /\ <<"destroyed", l>> \in Entry /\ <<"unlist", l>> \in Entry
        /\ <<"put", l>> \in Entry /\ template' = template
        /\ todo' = [todo EXCEPT ![Admin] = <<<<"purge", l>>, <<"destroyed", l>>,
                                            <<"unlist", l>>, <<"put", l>>>>]
    BY <1>3, Entries DEF Delete, Step
  <2>2. /\ Depth(Admin)' = 4 /\ Below(Admin, 1)' = <<"put", l>>
        /\ Below(Admin, 2)' = <<"unlist", l>> /\ Below(Admin, 3)' = <<"destroyed", l>>
        /\ Below(Admin, 4)' = <<"purge", l>> /\ StackType'
        /\ \A u \in Thread \ {Admin} : todo'[u] = todo[u]
    BY <2>1, Began4
  <2>3. CleanStack(Admin, l, 1)'
    <3>1. ASSUME NEW k \in 1 .. 4 PROVE k = 1 \/ k = 2 \/ k = 3 \/ k = 4
      OBVIOUS
    <3>2. 3 - 1 = 2
      OBVIOUS
    <3> QED
      BY <2>2, <3>1, <3>2 DEF CleanStack, Removal
  <2>4. Stands(Admin)'
    BY <2>3 DEF Stands
  <2> QED
    BY <2>1, <2>2, <2>4, StackStep
<1> QED
  BY <1>1, <1>2, <1>3

(* what follows on the removal, *)
LEMMA RemovalStands ==
    ASSUME TypeOK, StackInv,
           \/ \E l \in Line : Purge(l) \/ \E s \in Session : RemoveDevice(s, l)
           \/ \E t \in Cleaner : CleanStep(t)
    PROVE  StackInv' /\ StackType'
<1> USE TypeFacts, Members
<1>1. ASSUME NEW t \in Cleaner, NEW step \in Removal \ {"put"}, NEW l \in Line, At(t, step, l),
             NEW steps \in Follow(l), Then(t, steps), template' = template
      PROVE  StackInv' /\ StackType'
  <2>1. StackInv'
    BY <1>1, RemovalStep
  <2>2. t \in Thread /\ Depth(t) \in Nat \ {0} /\ steps \in Seq(Entry)
    BY <1>1, OnTop, FollowType
  <2> QED
    BY <1>1, <2>1, <2>2, Pushed
<1>2. \A t : Done(t) => Then(t, <<>>)
  BY DEF Done
<1>3. ASSUME NEW l \in Line
      PROVE  /\ <<>> \in Follow(l) /\ <<<<"put", l>>>> \in Follow(l)
             /\ <<<<"unsubscribe", l>>, <<"put", l>>>> \in Follow(l)
             /\ <<<<"join", l>>>> \in Follow(l) /\ CleanLine(l) \in Follow(l)
  BY DEF Follow
<1>4. ASSUME NEW l \in Line, Purge(l) PROVE StackInv' /\ StackType'
  <2>1. /\ At(Admin, "purge", l) /\ template' = template
        /\ Done(Admin) \/ Then(Admin, CleanLine(l))
    BY <1>4 DEF Purge
  <2> QED
    BY <1>1, <1>2, <1>3, <2>1 DEF Removal
<1>5. ASSUME NEW l \in Line, NEW s \in Session, RemoveDevice(s, l) PROVE StackInv' /\ StackType'
  <2>1. /\ At(s, "remove", l) /\ template' = template
        /\ Done(s) \/ Then(s, CleanLine(l))
    BY <1>5 DEF RemoveDevice
  <2> QED
    BY <1>1, <1>2, <1>3, <2>1 DEF Removal
<1>6. ASSUME NEW t \in Cleaner, CleanStep(t) PROVE StackInv' /\ StackType'
  <2>1. PICK l \in Line :
           \/ Destroyed(t, l) \/ Unsubscribe(t, l) \/ Join(t, l)
           \/ Unlist(t, l) \/ Unlock(t, l)
    BY <1>6 DEF CleanStep
  <2>2. template' = template
    BY <2>1 DEF Destroyed, Unsubscribe, Join, Unlist, Unlock, phoneVars
  <2>3. CASE Destroyed(t, l)
    <3>1. /\ At(t, "destroyed", l)
          /\ \/ Then(t, <<<<"unsubscribe", l>>, <<"put", l>>>>)
             \/ Then(t, <<<<"put", l>>>>)
      BY <2>3 DEF Destroyed
    <3> QED
      BY <1>1, <1>3, <2>2, <3>1 DEF Removal
  <2>4. CASE Unsubscribe(t, l)
    <3>1. At(t, "unsubscribe", l) /\ (Then(t, <<<<"join", l>>>>) \/ Done(t))
      BY <2>4 DEF Unsubscribe, Free
    <3> QED
      BY <1>1, <1>2, <1>3, <2>2, <3>1 DEF Removal
  <2>5. CASE Join(t, l)
    <3>1. At(t, "join", l) /\ Done(t)
      BY <2>5 DEF Join, Free
    <3> QED
      BY <1>1, <1>2, <1>3, <2>2, <3>1 DEF Removal
  <2>6. CASE Unlist(t, l)
    <3>1. At(t, "unlist", l) /\ Done(t)
      BY <2>6 DEF Unlist
    <3> QED
      BY <1>1, <1>2, <1>3, <2>2, <3>1 DEF Removal
  <2>7. CASE Unlock(t, l)
    <3>1. At(t, "unlock", l) /\ Done(t)
      BY <2>7 DEF Unlock
    <3> QED
      BY <1>1, <1>2, <1>3, <2>2, <3>1 DEF Removal
  <2> QED
    BY <2>1, <2>3, <2>4, <2>5, <2>6, <2>7
<1> QED
  BY <1>4, <1>5, <1>6

(* and the jobs. *)
LEMMA WorkerStands ==
    ASSUME TypeOK, StackInv, NEW w \in Worker, WorkerStep(w)
    PROVE  StackInv' /\ StackType'
<1> USE TypeFacts, Members
<1>1. template' = template
  BY DEF WorkerStep, Take, Subscribe, Watch, phoneVars
<1>2. CASE Take(w)
  <2>1. PICK l \in Line : l = Head(jobs)
    BY <1>2 DEF Take
  <2>2. /\ <<"subscribe", l>> \in Entry /\ <<"put", l>> \in Entry
        /\ todo' = [todo EXCEPT ![w] = <<<<"subscribe", l>>, <<"put", l>>>>]
    BY <1>2, <2>1, Entries DEF Take, Step
  <2>3. /\ Depth(w)' = 2 /\ Below(w, 1)' = <<"put", l>> /\ Below(w, 2)' = <<"subscribe", l>>
        /\ StackType' /\ \A u \in Thread \ {w} : todo'[u] = todo[u]
    BY <2>2, Began2
  <2>4. Stands(w)'
    BY <2>3 DEF Stands, Telling
  <2> QED
    BY <1>1, <2>3, <2>4, StackStep
<1>3. ASSUME NEW l \in Line, Subscribe(w, l) PROVE StackInv' /\ StackType'
  <2>1. Depth(w) = 2 /\ Below(w, 1) = <<"put", l>> /\ Then(w, <<<<"watch", l>>>>)
    BY <1>3, Tops DEF Subscribe
  <2>2. <<"watch", l>> \in Entry
    BY Entries DEF Step
  <2>3. /\ Depth(w)' = 2 /\ Below(w, 1)' = <<"put", l>> /\ Below(w, 2)' = <<"watch", l>>
        /\ StackType' /\ \A u \in Thread \ {w} : todo'[u] = todo[u]
    BY <2>1, <2>2, Went1
  <2>4. Stands(w)'
    BY <2>3 DEF Stands, Telling
  <2> QED
    BY <1>1, <2>3, <2>4, StackStep
<1>4. ASSUME NEW l \in Line, Watch(w, l) PROVE StackInv' /\ StackType'
  <2>1. todo[w] # <<>> /\ Depth(w) = 2 /\ Below(w, 1) = <<"put", l>> /\ Done(w)
    BY <1>4, Tops DEF Watch, At
  <2>2. /\ Depth(w)' = 1 /\ Below(w, 1)' = <<"put", l>>
        /\ StackType' /\ \A u \in Thread \ {w} : todo'[u] = todo[u]
    BY <2>1, Popped
  <2>3. Stands(w)'
    BY <2>2 DEF Stands, Telling
  <2> QED
    BY <1>1, <2>2, <2>3, StackStep
<1> QED
  BY <1>2, <1>3, <1>4 DEF WorkerStep

(* Every step keeps how the threads stand. *)
LEMMA StackKept ==
    ASSUME TypeOK, StackInv, [Next]_vars
    PROVE  StackInv' /\ StackType'
<1> USE TypeFacts, Members
<1>1. CASE UNCHANGED <<todo, template>>
  <2>1. StackType'
    BY <1>1 DEF StackType
  <2>2. \A u \in Thread : Stands(u)'
    BY <1>1, StandsStill DEF StackInv
  <2> QED
    BY <2>1, <2>2 DEF StackInv
<1>2. ASSUME NEW t \in Thread, NEW l \in Line, Put(t, l) PROVE StackInv' /\ StackType'
  <2>1. todo[t] # <<>> /\ At(t, "put", l) /\ Done(t) /\ template' = template
    BY <1>2 DEF Put, At, phoneVars
  <2> QED
    BY <2>1, PutDown, Popped
<1>3. CASE UNCHANGED vars
  BY <1>1, <1>3 DEF vars, phoneVars
<1>4. CASE Publish \/ \E l \in Line : Deliver(l) \/ Notify(l)
  BY <1>1, <1>4 DEF Publish, Deliver, Notify, phoneVars
<1> QED
  BY <1>2, <1>3, <1>4, RegisterStands, CreateStands, LeaveStands, RemovalStands, WorkerStands
     DEF Next, SessionStep

(***************************************************************************)
(* What a step does to a stack                                             *)
(***************************************************************************)
Hot == {"list", "subscribe", "watch", "unsubscribe", "join"}

(* The steps come on top of what was below depth base. *)
Moves(t, base, steps) ==
    /\ Depth(t)' = base + Len(steps)
    /\ \A k \in 1 .. base : Below(t, k)' = Below(t, k)
    /\ \A k \in 1 .. Len(steps) : Below(t, base + k)' = steps[Len(steps) + 1 - k]
    /\ \A u \in Thread \ {t} : todo'[u] = todo[u]
    /\ StackType'

(* A step that goes on to others, and one that begins *)
LEMMA ThenMoves ==
    ASSUME StackType, NEW t \in Thread, NEW step, NEW l, At(t, step, l),
           NEW steps \in Seq(Entry), Then(t, steps)
    PROVE  \E base \in Nat :
              base = Depth(t) - 1 /\ Moves(t, base, steps) /\ Below(t, base + 1) = <<step, l>>
<1>1. PICK n \in Nat \ {0} : n = Depth(t) /\ Below(t, n) = <<step, l>>
  BY OnTop
<1>2. n - 1 \in Nat /\ (n - 1) + 1 = n /\ n - 1 = Depth(t) - 1
  BY <1>1
<1>3. Moves(t, n - 1, steps)
  BY <1>1, Pushed DEF Moves
<1> QED
  BY <1>1, <1>2, <1>3

(* A thread that has nothing to do begins. *)
LEMMA BeginMoves ==
    ASSUME StackType, NEW t \in Thread, Idle(t), NEW steps \in Seq(Entry),
           todo' = [todo EXCEPT ![t] = steps]
    PROVE  \E base \in Nat : base = 0 /\ Depth(t) = 0 /\ Moves(t, base, steps)
<1>1. Depth(t) = 0
  BY OnTop
<1>2. Moves(t, 0, steps)
  <2>1. /\ Depth(t)' = Len(steps)
        /\ \A k \in 1 .. Len(steps) : Below(t, k)' = steps[Len(steps) + 1 - k]
        /\ \A u \in Thread \ {t} : todo'[u] = todo[u]
        /\ StackType'
    BY Started
  <2>2. Len(steps) \in Nat /\ 0 + Len(steps) = Len(steps)
    OBVIOUS
  <2>3. \A k \in 1 .. Len(steps) : 0 + k = k
    OBVIOUS
  <2> QED
    BY <2>1, <2>2, <2>3 DEF Moves
<1> QED
  BY <1>1, <1>2

(* The stack of another thread *)
LEMMA Untouched ==
    ASSUME NEW u \in Thread, todo'[u] = todo[u]
    PROVE  /\ Depth(u)' = Depth(u) /\ \A k : Below(u, k)' = Below(u, k)
           /\ \A step, l : At(u, step, l)' <=> At(u, step, l)
           /\ \A step, l : Has(u, step, l)' <=> Has(u, step, l)
           /\ \A l : Mentions(u, l)' <=> Mentions(u, l)
<1>1. Depth(u)' = Depth(u) /\ \A k : Below(u, k)' = Below(u, k)
  BY DEF Depth, Below
<1> QED
  BY <1>1 DEF At, Has, Mentions

(* A step that matters to other threads is never below another. *)
LEMMA Beneath ==
    ASSUME StackType, StackInv, NEW t \in Thread, NEW k \in Nat, 0 < k, k < Depth(t)
    PROVE  Below(t, k)[1] \notin Hot
<1> DEFINE n == Depth(t)
<1>1. n \in Nat /\ (Idle(t) <=> n = 0)
  BY OnTop
<1>2. Stands(t)
  BY DEF StackInv
<1>3. CASE Idle(t)
  BY <1>1, <1>3
<1>4. CASE Making(t)
  BY <1>4 DEF Making
<1>5. CASE Joining(t)
  BY <1>5 DEF Joining, Hot
<1>6. CASE Leaving(t)
  BY <1>1, <1>6 DEF Leaving, CleanStack, Hot, Removal
<1>7. CASE \E m \in Line : CleanStack(t, m, 1)
  BY <1>1, <1>7 DEF CleanStack, Hot, Removal
<1>8. CASE Telling(t)
  BY <1>8 DEF Telling, Hot
<1> QED
  BY <1>2, <1>3, <1>4, <1>5, <1>6, <1>7, <1>8 DEF Stands

(* Only the new top can be a step that matters to another thread. *)
LEMMA HotTop ==
    ASSUME StackType, StackInv, NEW t \in Thread, NEW base \in Nat, NEW steps \in Seq(Entry),
           base < Depth(t) \/ base = 0, Moves(t, base, steps)
    PROVE  \A u \in Thread : \A step \in Hot : \A l :
              At(u, step, l)' <=> IF u = t THEN steps # <<>> /\ steps[1] = <<step, l>>
                                  ELSE At(u, step, l)
<1> SUFFICES ASSUME NEW step \in Hot, NEW l
             PROVE  At(t, step, l)' <=> steps # <<>> /\ steps[1] = <<step, l>>
  BY Untouched DEF Moves
<1> DEFINE m == Len(steps)
<1>1. m \in Nat /\ (steps # <<>> <=> m > 0)
  OBVIOUS
<1>2. At(t, step, l)' <=> base + m > 0 /\ Below(t, base + m)' = <<step, l>>
  <2>1. PICK q \in Seq(Entry) : q = todo'[t]
    BY DEF Moves, StackType
  <2>2. Len(q) = base + m /\ Below(t, base + m)' = q[Len(q) + 1 - (base + m)]
    BY <2>1 DEF Moves, Depth, Below
  <2>3. Len(q) + 1 - (base + m) = 1 /\ (q # <<>> <=> base + m > 0) /\ (q # <<>> => Head(q) = q[1])
    BY <1>1, <2>2
  <2> QED
    BY <2>1, <2>2, <2>3 DEF At
<1>3. CASE m > 0
  <2>1. m \in 1 .. m /\ m + 1 - m = 1
    BY <1>1, <1>3
  <2>2. Below(t, base + m)' = steps[1]
    BY <2>1 DEF Moves
  <2> QED
    <3>1. base + m > 0 /\ steps # <<>>
      BY <1>1, <1>3
    <3> QED
      BY <1>2, <2>2, <3>1
<1>4. CASE m = 0
  <2>1. base > 0 => Below(t, base)' = Below(t, base) /\ Below(t, base)[1] \notin Hot
    BY Beneath DEF Moves
  <2> QED
    BY <1>1, <1>2, <1>4, <2>1
<1> QED
  BY <1>1, <1>3, <1>4

(* No line comes to be mentioned that is not in the steps. *)
LEMMA MentionsMoved ==
    ASSUME NEW t \in Thread, NEW base \in Nat, NEW steps \in Seq(Entry), StackType,
           base <= Depth(t), Moves(t, base, steps), NEW l
    PROVE  \A u \in Thread :
              Mentions(u, l)' =>
                 Mentions(u, l) \/ \E j \in 1 .. Len(steps) : steps[j][2] = l
<1> SUFFICES ASSUME Mentions(t, l)'
             PROVE  Mentions(t, l) \/ \E j \in 1 .. Len(steps) : steps[j][2] = l
  BY Untouched DEF Moves
<1> DEFINE m == Len(steps)
<1>1. m \in Nat /\ Depth(t) \in Nat
  BY OnTop
<1>2. PICK k \in 1 .. base + m : Below(t, k)'[2] = l
  BY DEF Mentions, Moves
<1>3. CASE k <= base
  BY <1>1, <1>2, <1>3 DEF Mentions, Moves
<1>4. CASE k > base
  <2>1. k - base \in 1 .. m /\ k = base + (k - base) /\ m + 1 - (k - base) \in 1 .. m
    BY <1>1, <1>4
  <2>2. Below(t, base + (k - base))' = steps[m + 1 - (k - base)]
    BY <2>1 DEF Moves
  <2> QED
    BY <1>2, <2>1, <2>2
<1> QED
  BY <1>1, <1>3, <1>4

(* What is below stays to be done. *)
LEMMA HasMoved ==
    ASSUME NEW t \in Thread, NEW base \in Nat, NEW steps \in Seq(Entry), StackType,
           base = Depth(t) - 1 \/ base = Depth(t), Moves(t, base, steps), NEW step, NEW l,
           base < Depth(t) => Below(t, base + 1) # <<step, l>>
    PROVE  \A u \in Thread : Has(u, step, l) => Has(u, step, l)'
<1> SUFFICES ASSUME Has(t, step, l) PROVE Has(t, step, l)'
  BY Untouched DEF Moves
<1>1. Len(steps) \in Nat /\ Depth(t) \in Nat
  BY OnTop
<1>2. PICK k \in 1 .. Depth(t) : Below(t, k) = <<step, l>>
  BY DEF Has
<1>3. k \in 1 .. base
  BY <1>1, <1>2
<1>4. Below(t, k)' = <<step, l>> /\ k \in 1 .. Depth(t)'
  BY <1>1, <1>2, <1>3 DEF Moves
<1> QED
  BY <1>4 DEF Has

PutsAfter(t, base, steps, l) ==
    /\ Puts(l)' \subseteq Thread \X Nat
    /\ \A p \in Thread \X Nat : p \in Puts(l)' <=>
          \/ p \in Puts(l) /\ (p[1] # t \/ p[2] <= base)
          \/ /\ p[1] = t /\ p[2] - base \in 1 .. Len(steps)
             /\ steps[Len(steps) + 1 - (p[2] - base)] = <<"put", l>>

(* References to be given up go with the top and come with the steps. *)
LEMMA PutsMoved ==
    ASSUME NEW t \in Thread, NEW base \in Nat, NEW steps \in Seq(Entry), StackType,
           base <= Depth(t), Moves(t, base, steps), NEW l
    PROVE  PutsAfter(t, base, steps, l)
<1> DEFINE m == Len(steps)
           A == {p \in Puts(l) : p[1] # t \/ p[2] <= base}
           B == {p \in Thread \X Nat : p[1] = t /\ p[2] - base \in 1 .. m
                           /\ steps[m + 1 - (p[2] - base)] = <<"put", l>>}
<1>1. m \in Nat /\ Depth(t) \in Nat /\ Depth(t)' = base + m
  BY OnTop DEF Moves
<1>2. ASSUME NEW u \in Thread, NEW k \in Nat
      PROVE  <<u, k>> \in Puts(l)' <=> k \in 1 .. Depth(u)' /\ Below(u, k)' = <<"put", l>>
  BY DEF Puts
<1>3. ASSUME NEW u \in Thread, NEW k \in Nat
      PROVE  <<u, k>> \in Puts(l) <=> k \in 1 .. Depth(u) /\ Below(u, k) = <<"put", l>>
  BY DEF Puts
<1>4. ASSUME NEW u \in Thread, NEW k \in Nat
      PROVE  <<u, k>> \in Puts(l)' <=> <<u, k>> \in A \cup B
  <2>1. CASE u # t
    BY <1>2, <1>3, <2>1, Untouched DEF Moves
  <2>2. CASE u = t /\ k <= base
    BY <1>1, <1>2, <1>3, <2>2 DEF Moves
  <2>3. CASE u = t /\ k > base
    <3>1. <<u, k>> \notin A
      BY <2>3
    <3>2. k - base \in Nat /\ k = base + (k - base) /\ k - base > 0
      BY <2>3
    <3>3. k \in 1 .. base + m <=> k - base \in 1 .. m
      BY <1>1, <3>2
    <3>4. k - base \in 1 .. m => Below(t, k)' = steps[m + 1 - (k - base)]
      BY <3>2 DEF Moves
    <3> QED
      BY <1>1, <1>2, <2>3, <3>1, <3>3, <3>4
  <2>4. k <= base \/ k > base
    OBVIOUS
  <2> QED
    BY <2>1, <2>2, <2>3, <2>4, Zenon
<1>5. Puts(l)' \subseteq Thread \X Nat /\ A \cup B \subseteq Thread \X Nat
  BY DEF Puts
<1>6. \A p \in Thread \X Nat : p = <<p[1], p[2]>> /\ p[1] \in Thread /\ p[2] \in Nat
  OBVIOUS
<1>7. \A p \in Thread \X Nat : p \in Puts(l)' <=> p \in A \cup B
  BY <1>4, <1>6
<1>8. \A p \in Thread \X Nat : p \in A \cup B <=>
         \/ p \in Puts(l) /\ (p[1] # t \/ p[2] <= base)
         \/ /\ p[1] = t /\ p[2] - base \in 1 .. m
            /\ steps[m + 1 - (p[2] - base)] = <<"put", l>>
  OBVIOUS
<1> QED
  BY <1>5, <1>7, <1>8 DEF PutsAfter

(* What a step on one line leaves alone, and what is on top after it *)
TopIs(steps, line, top) ==
    \A step \in Hot : steps # <<>> /\ steps[1] = <<step, line>> <=> step = top
Effect(t, top, line) ==
    /\ line \in Line =>
          \A u \in Thread : \A step \in Hot :
              At(u, step, line)' <=> IF u = t THEN step = top ELSE At(u, step, line)
    /\ \A l \in Line \ {line} :
          /\ Puts(l)' = Puts(l)
          /\ \A u \in Thread : /\ Mentions(u, l)' => Mentions(u, l)
                               /\ Has(u, "unlist", l) => Has(u, "unlist", l)'
                               /\ \A step \in Hot : At(u, step, l)' <=> At(u, step, l)

PutFree(steps, l) == \A j \in 1 .. Len(steps) : steps[j] # <<"put", l>>
PutOnce(steps, l) ==
    \E i \in 1 .. Len(steps) : \A j \in 1 .. Len(steps) : steps[j] = <<"put", l>> <=> j = i

(* No reference to be given up comes or goes, *)
LEMMA NoPuts ==
    ASSUME NEW t \in Thread, NEW base \in Nat, NEW steps \in Seq(Entry), StackType,
           base = Depth(t) - 1 \/ base = Depth(t), Moves(t, base, steps), NEW l,
           base < Depth(t) => Below(t, base + 1) # <<"put", l>>,
           PutFree(steps, l)
    PROVE  Puts(l)' = Puts(l)
<1> DEFINE m == Len(steps)
<1>1. m \in Nat /\ Depth(t) \in Nat /\ base <= Depth(t)
  BY OnTop
<1>2. \A p \in Puts(l) : p[1] # t \/ p[2] <= base
  BY <1>1 DEF Puts
<1>3. \A p \in Thread \X Nat : p[2] - base \in 1 .. m => m + 1 - (p[2] - base) \in 1 .. m
  BY <1>1
<1>4. PutsAfter(t, base, steps, l)
  BY <1>1, PutsMoved
<1>5. /\ Puts(l)' \subseteq Thread \X Nat
      /\ \A p \in Thread \X Nat : p \in Puts(l)' <=>
            \/ p \in Puts(l) /\ (p[1] # t \/ p[2] <= base)
            \/ /\ p[1] = t /\ p[2] - base \in 1 .. m
               /\ steps[m + 1 - (p[2] - base)] = <<"put", l>>
  BY <1>4 DEF PutsAfter
<1>6. Puts(l) \subseteq Thread \X Nat
  BY DEF Puts
<1>7. \A p \in Thread \X Nat : p \in Puts(l)' <=> p \in Puts(l)
  <2> HIDE DEF m
  <2> QED
    BY <1>2, <1>3, <1>5 DEF m, PutFree
<1> QED
  BY <1>5, <1>6, <1>7

(* or one comes, *)
LEMMA OnePut ==
    ASSUME NEW t \in Thread, NEW base \in Nat, NEW steps \in Seq(Entry), StackType,
           base = Depth(t) - 1 \/ base = Depth(t), Moves(t, base, steps), NEW l,
           base < Depth(t) => Below(t, base + 1) # <<"put", l>>,
           PutOnce(steps, l)
    PROVE  \E p : p \notin Puts(l) /\ Puts(l)' = Puts(l) \cup {p}
<1>1. PICK i \in 1 .. Len(steps) : \A j \in 1 .. Len(steps) : steps[j] = <<"put", l>> <=> j = i
  BY DEF PutOnce
<1>2. PICK m \in Nat : m = Len(steps)
  OBVIOUS
<1>3. PICK n \in Nat : n = base + (m + 1 - i) /\ n > base
  <2>1. i \in 1 .. m
    BY <1>2
  <2>2. base + (m + 1 - i) \in Nat /\ base + (m + 1 - i) > base
    BY <2>1
  <2> QED
    BY <2>2
<1>4. Depth(t) \in Nat /\ base <= Depth(t)
  BY OnTop
<1>5. \A p \in Puts(l) : p[1] # t \/ p[2] <= base
  BY <1>4 DEF Puts
<1>6. \A k \in Nat : k - base \in 1 .. m => m + 1 - (k - base) \in 1 .. m
  OBVIOUS
<1>7. ASSUME NEW k \in Nat PROVE k - base \in 1 .. m /\ m + 1 - (k - base) = i <=> k = n
  <2>1. i \in 1 .. m
    BY <1>2
  <2> QED
    BY <1>3, <2>1
<1>8. PutsAfter(t, base, steps, l)
  BY <1>2, <1>4, PutsMoved
<1>9. /\ Puts(l)' \subseteq Thread \X Nat
      /\ \A p \in Thread \X Nat : p \in Puts(l)' <=>
            \/ p \in Puts(l) /\ (p[1] # t \/ p[2] <= base)
            \/ /\ p[1] = t /\ p[2] - base \in 1 .. m
               /\ steps[m + 1 - (p[2] - base)] = <<"put", l>>
  BY <1>8, <1>2 DEF PutsAfter
<1>10. ASSUME NEW p \in Thread \X Nat
      PROVE  p \in Puts(l)' <=> p \in Puts(l) \/ p = <<t, n>>
  <2>1. p[2] \in Nat
    OBVIOUS
  <2>2. p[2] - base \in 1 .. m /\ steps[m + 1 - (p[2] - base)] = <<"put", l>> <=> p[2] = n
    BY <1>1, <1>2, <1>6, <1>7, <2>1
  <2>3. p \in Puts(l)' <=> p \in Puts(l) \/ (p[1] = t /\ p[2] = n)
    BY <1>5, <1>9, <2>2
  <2> QED
    BY <2>3
<1>11. <<t, n>> \notin Puts(l) /\ <<t, n>> \in Thread \X Nat /\ Puts(l) \subseteq Thread \X Nat
  <2>1. n > base /\ n \in Nat
    BY <1>3
  <2> QED
    BY <1>5, <2>1 DEF Puts
<1>12. Puts(l)' = Puts(l) \cup {<<t, n>>}
  BY <1>9, <1>10, <1>11
<1> QED
  BY <1>11, <1>12

(* or one goes. *)
LEMMA PutGone ==
    ASSUME NEW t \in Thread, NEW base \in Nat, StackType, base = Depth(t) - 1,
           Moves(t, base, <<>>), NEW l, Below(t, base + 1) = <<"put", l>>
    PROVE  \E p \in Puts(l) : Puts(l)' = Puts(l) \ {p}
<1>1. PICK n \in Nat : n = base + 1 /\ n = Depth(t) /\ n \in 1 .. Depth(t)
  BY OnTop
<1>2. <<t, n>> \in Puts(l) /\ Puts(l) \subseteq Thread \X Nat
  BY <1>1 DEF Puts
<1>3. PICK steps \in Seq(Entry) : steps = <<>> /\ Len(steps) = 0
  <2>1. <<>> \in Seq(Entry) /\ Len(<<>>) = 0
    OBVIOUS
  <2> QED
    BY <2>1, Zenon
<1>4. PutsAfter(t, base, steps, l)
  <2>1. Moves(t, base, steps) /\ base <= Depth(t)
    BY <1>1, <1>3
  <2> QED
    BY <2>1, PutsMoved
<1>5. /\ Puts(l)' \subseteq Thread \X Nat
      /\ \A p \in Thread \X Nat : p \in Puts(l)' <=>
            \/ p \in Puts(l) /\ (p[1] # t \/ p[2] <= base)
            \/ /\ p[1] = t /\ p[2] - base \in 1 .. Len(steps)
               /\ steps[Len(steps) + 1 - (p[2] - base)] = <<"put", l>>
  BY <1>4 DEF PutsAfter
<1>6. ASSUME NEW p \in Thread \X Nat
      PROVE  p \in Puts(l)' <=> p \in Puts(l) /\ p # <<t, n>>
  <2>1. p \in Puts(l) => (p[1] # t \/ p[2] <= base <=> p # <<t, n>>)
    BY <1>1 DEF Puts
  <2> QED
    BY <1>3, <1>5, <2>1
<1> QED
  BY <1>2, <1>5, <1>6

(* The effect of a step, from the steps that take the place of the top *)
LEMMA EffectOf ==
    ASSUME StackType, StackInv, NEW t \in Thread, NEW base \in Nat, NEW steps \in Seq(Entry),
           Moves(t, base, steps), NEW line \in Line \cup {None}, NEW top,
           \/ base = Depth(t) /\ base = 0
           \/ base = Depth(t) - 1 /\ Below(t, base + 1)[2] \in {line, None},
           \A j \in 1 .. Len(steps) : steps[j][2] \in {line, None},
           TopIs(steps, line, top)
    PROVE  Effect(t, top, line)
<1> USE Members
<1>1. Depth(t) \in Nat
  BY OnTop
<1>2. \A u \in Thread : \A step \in Hot : \A l :
              At(u, step, l)' <=> IF u = t THEN steps # <<>> /\ steps[1] = <<step, l>>
                                  ELSE At(u, step, l)
  BY <1>1, HotTop
<1>3. \A u \in Thread : \A step \in Hot :
              At(u, step, line)' <=> IF u = t THEN step = top ELSE At(u, step, line)
  BY <1>2 DEF TopIs
<1>4. ASSUME NEW l \in Line \ {line}
      PROVE  /\ Puts(l)' = Puts(l)
             /\ \A u \in Thread : /\ Mentions(u, l)' => Mentions(u, l)
                                  /\ Has(u, "unlist", l) => Has(u, "unlist", l)'
                                  /\ \A step \in Hot : At(u, step, l)' <=> At(u, step, l)
  <2>1. \A step : \A j \in 1 .. Len(steps) : steps[j] # <<step, l>> /\ steps[j][2] # l
    BY <1>4
  <2>2. \A step : base < Depth(t) => Below(t, base + 1) # <<step, l>>
    BY <1>1, <1>4
  <2>3. Puts(l)' = Puts(l)
    <3>1. PutFree(steps, l)
      BY <2>1 DEF PutFree
    <3> QED
      BY <1>1, <2>2, <3>1, NoPuts
  <2>4. \A u \in Thread : Mentions(u, l)' => Mentions(u, l)
    BY <1>1, <2>1, MentionsMoved
  <2>5. \A u \in Thread : Has(u, "unlist", l) => Has(u, "unlist", l)'
    BY <2>2, HasMoved
  <2>6. \A step : ~At(t, step, l)
    <3>1. \A step : At(t, step, l) => Depth(t) > 0 /\ Below(t, Depth(t)) = <<step, l>>
      BY OnTop
    <3>2. Depth(t) > 0 => base + 1 = Depth(t)
      BY <1>1
    <3> QED
      BY <1>1, <2>2, <3>1, <3>2
  <2>7. \A step : steps # <<>> => steps[1] # <<step, l>>
    <3>1. steps # <<>> => 1 \in 1 .. Len(steps)
      OBVIOUS
    <3> QED
      BY <2>1, <3>1
  <2>8. \A u \in Thread : \A step \in Hot : At(u, step, l)' <=> At(u, step, l)
    BY <1>2, <2>6, <2>7
  <2> QED
    BY <2>3, <2>4, <2>5, <2>8
<1> QED
  BY <1>3, <1>4 DEF Effect

SamePuts(l) == Puts(l)' = Puts(l)
MorePuts(l) == \E p : p \notin Puts(l) /\ Puts(l)' = Puts(l) \cup {p}
FewerPuts(l) == \E p \in Puts(l) : Puts(l)' = Puts(l) \ {p}
KeepsUnlist(l) == \A u \in Thread : Has(u, "unlist", l) => Has(u, "unlist", l)'

(* A step on line l goes on to steps on line l. *)
LEMMA EffectThen ==
    ASSUME StackType, StackInv, NEW t \in Thread, NEW step, NEW l \in Line \cup {None},
           At(t, step, l), NEW steps \in Seq(Entry), Then(t, steps),
           NEW top, TopIs(steps, l, top),
           \A j \in 1 .. Len(steps) : steps[j][2] = l
    PROVE  /\ Effect(t, top, l)
           /\ step # "unlist" => KeepsUnlist(l)
           /\ step # "put" /\ PutFree(steps, l) => SamePuts(l)
           /\ step # "put" /\ PutOnce(steps, l) => MorePuts(l)
           /\ step = "put" /\ steps = <<>> => FewerPuts(l)
<1>1. PICK base \in Nat :
         base = Depth(t) - 1 /\ Moves(t, base, steps) /\ Below(t, base + 1) = <<step, l>>
  BY ThenMoves
<1>2. Effect(t, top, l)
  BY <1>1, EffectOf
<1>3. step # "unlist" => KeepsUnlist(l)
  BY <1>1, HasMoved DEF KeepsUnlist
<1>4. step # "put" /\ PutFree(steps, l) => SamePuts(l)
  BY <1>1, NoPuts DEF SamePuts
<1>5. ASSUME step # "put", PutOnce(steps, l) PROVE MorePuts(l)
  <2>1. Below(t, base + 1) # <<"put", l>>
    BY <1>1, <1>5
  <2> QED
    BY <1>1, <1>5, <2>1, OnePut DEF MorePuts
<1>6. step = "put" /\ steps = <<>> => FewerPuts(l)
  BY <1>1, PutGone DEF FewerPuts
<1> QED
  BY <1>2, <1>3, <1>4, <1>5, <1>6

(* A thread begins steps on line l. *)
LEMMA EffectBegin ==
    ASSUME StackType, StackInv, NEW t \in Thread, NEW l \in Line \cup {None}, Idle(t),
           NEW steps \in Seq(Entry), todo' = [todo EXCEPT ![t] = steps],
           NEW top, TopIs(steps, l, top),
           \A j \in 1 .. Len(steps) : steps[j][2] \in {l, None}
    PROVE  /\ Effect(t, top, l)
           /\ KeepsUnlist(l)
           /\ PutFree(steps, l) => SamePuts(l)
           /\ PutOnce(steps, l) => MorePuts(l)
<1>1. PICK base \in Nat : base = 0 /\ Depth(t) = 0 /\ Moves(t, base, steps)
  BY BeginMoves
<1>2. Effect(t, top, l)
  BY <1>1, EffectOf
<1>3. KeepsUnlist(l)
  BY <1>1, HasMoved DEF KeepsUnlist
<1>4. PutFree(steps, l) => SamePuts(l)
  BY <1>1, NoPuts DEF SamePuts
<1>5. ASSUME PutOnce(steps, l) PROVE MorePuts(l)
  <2>1. base < Depth(t) => Below(t, base + 1) # <<"put", l>>
    BY <1>1
  <2> QED
    BY <1>1, <1>5, <2>1, OnePut DEF MorePuts
<1> QED
  BY <1>2, <1>3, <1>4, <1>5

(* A thread has done its step on line l. *)
LEMMA EffectDone ==
    ASSUME StackType, StackInv, NEW t \in Thread, NEW step, NEW l \in Line \cup {None},
           At(t, step, l), Done(t)
    PROVE  /\ Effect(t, "none", l)
           /\ step # "unlist" => KeepsUnlist(l)
           /\ step # "put" => SamePuts(l)
           /\ step = "put" => FewerPuts(l)
<1>1. PICK steps \in Seq(Entry) : steps = <<>> /\ Len(steps) = 0
  <2>1. <<>> \in Seq(Entry) /\ Len(<<>>) = 0
    OBVIOUS
  <2> QED
    BY <2>1, Zenon
<1>2. Then(t, steps) /\ \A j \in 1 .. Len(steps) : steps[j][2] = l
  BY <1>1 DEF Done
<1>3. PutFree(steps, l)
  BY <1>1 DEF PutFree
<1>4. TopIs(steps, l, "none")
  BY <1>1 DEF TopIs, Hot
<1>5. /\ Effect(t, "none", l)
      /\ step # "unlist" => KeepsUnlist(l)
      /\ step # "put" /\ PutFree(steps, l) => SamePuts(l)
      /\ step = "put" /\ steps = <<>> => FewerPuts(l)
  BY <1>2, <1>4, EffectThen
<1> QED
  BY <1>1, <1>3, <1>5

(* A thread has another step on line l to do instead. *)
LEMMA EffectOne ==
    ASSUME StackType, StackInv, NEW t \in Thread, NEW step, NEW l \in Line \cup {None},
           At(t, step, l), NEW next \in Step, Then(t, <<<<next, l>>>>), step # "put"
    PROVE  /\ Effect(t, next, l)
           /\ step # "unlist" => KeepsUnlist(l)
           /\ next # "put" => SamePuts(l)
           /\ next = "put" => MorePuts(l)
<1>1. <<<<next, l>>>> \in Seq(Entry)
  BY Entries
<1>2. PICK steps \in Seq(Entry) :
         steps = <<<<next, l>>>> /\ Len(steps) = 1 /\ steps[1] = <<next, l>>
  <2>1. Len(<<<<next, l>>>>) = 1 /\ <<<<next, l>>>>[1] = <<next, l>>
    OBVIOUS
  <2> QED
    BY <1>1, <2>1, Zenon
<1>3. \A j \in 1 .. Len(steps) : j = 1 /\ steps[j] = <<next, l>> /\ steps[j][2] = l
  BY <1>2
<1>4. TopIs(steps, l, next) /\ Then(t, steps) /\ 1 \in 1 .. Len(steps)
  BY <1>2 DEF TopIs
<1>5. Effect(t, next, l) /\ (step # "unlist" => KeepsUnlist(l))
  BY <1>3, <1>4, EffectThen
<1>6. next # "put" => SamePuts(l)
  <2>1. next # "put" => PutFree(steps, l)
    BY <1>3 DEF PutFree
  <2> QED
    BY <1>3, <1>4, <2>1, EffectThen
<1>7. next = "put" => MorePuts(l)
  <2>1. next = "put" => PutOnce(steps, l)
    BY <1>3, <1>4 DEF PutOnce
  <2> QED
    BY <1>3, <1>4, <2>1, EffectThen
<1> QED
  BY <1>2, <1>5, <1>6, <1>7

(***************************************************************************)
(* What each action does to the stacks                                     *)
(***************************************************************************)
(* On line l, with those references still to be given up *)
Quietly(t, top, l) == Effect(t, top, l) /\ KeepsUnlist(l) /\ SamePuts(l)
Holding(t, top, l) == Effect(t, top, l) /\ KeepsUnlist(l) /\ MorePuts(l)

(* Registering is nothing to any reference that threads give up. *)
LEMMA RegisterDoes ==
    ASSUME TypeOK, StackInv, NEW s \in Session, Register(s)
    PROVE  /\ lines = <<>> => Quietly(s, "none", None)
           /\ lines # <<>> => Quietly(s, "none", Head(lines))
<1> USE TypeFacts, Members
<1>1. CASE lines = <<>>
  <2>1. PICK steps \in Seq(Entry) : steps = <<<<"create", None>>>> /\ Len(steps) = 1
    <3>1. <<"create", None>> \in Entry
      BY Entries DEF Step
    <3>2. <<<<"create", None>>>> \in Seq(Entry) /\ Len(<<<<"create", None>>>>) = 1
      BY <3>1
    <3> QED
      BY <3>2, Zenon
  <2>2. \A j \in 1 .. Len(steps) : steps[j][2] \in {None, None} /\ steps[j] # <<"put", None>>
    BY <2>1
  <2>3. /\ TopIs(steps, None, "none") /\ PutFree(steps, None)
        /\ \A j \in 1 .. Len(steps) : steps[j][2] \in {None, None}
    BY <2>1, <2>2 DEF PutFree, TopIs, Hot
  <2>4. Idle(s) /\ todo' = [todo EXCEPT ![s] = steps]
    BY <1>1, <2>1 DEF Register
  <2>5. Quietly(s, "none", None)
    BY <2>3, <2>4, EffectBegin DEF Quietly
  <2> QED
    BY <1>1, <2>1, <2>5
<1>2. CASE lines # <<>>
  <2>1. PICK l \in Line : l = Head(lines)
    BY <1>2
  <2>2. PICK steps \in Seq(Entry) : steps = <<<<"attach", l>>>> /\ Len(steps) = 1
    <3>1. <<"attach", l>> \in Entry
      BY Entries DEF Step
    <3>2. <<<<"attach", l>>>> \in Seq(Entry) /\ Len(<<<<"attach", l>>>>) = 1
      BY <3>1
    <3> QED
      BY <3>2, Zenon
  <2>3. \A j \in 1 .. Len(steps) : steps[j][2] \in {l, None} /\ steps[j] # <<"put", l>>
    BY <2>2
  <2>4. /\ TopIs(steps, l, "none") /\ PutFree(steps, l)
        /\ \A j \in 1 .. Len(steps) : steps[j][2] \in {l, None}
    BY <2>2, <2>3 DEF PutFree, TopIs, Hot
  <2>5. Idle(s) /\ todo' = [todo EXCEPT ![s] = steps]
    BY <1>2, <2>1, <2>2 DEF Register
  <2>6. Quietly(s, "none", l)
    BY <2>4, <2>5, EffectBegin DEF Quietly
  <2> QED
    BY <1>2, <2>1, <2>2, <2>6
<1> QED
  BY <1>1, <1>2

(* A new line is to be listed. *)
LEMMA CreateDoes ==
    ASSUME TypeOK, StackInv, NEW s \in Session, NEW l \in Line,
           At(s, "create", None), Then(s, <<<<"list", l>>, <<"attach", l>>>>)
    PROVE  Quietly(s, "list", l)
<1> USE TypeFacts, Members
<1>1. PICK steps \in Seq(Entry) : /\ steps = <<<<"list", l>>, <<"attach", l>>>> /\ Len(steps) = 2
                                 /\ steps[1] = <<"list", l>> /\ steps[2] = <<"attach", l>>
  <2>1. <<"list", l>> \in Entry /\ <<"attach", l>> \in Entry
    BY Entries DEF Step
  <2>2. /\ <<<<"list", l>>, <<"attach", l>>>> \in Seq(Entry)
        /\ Len(<<<<"list", l>>, <<"attach", l>>>>) = 2
        /\ <<<<"list", l>>, <<"attach", l>>>>[1] = <<"list", l>>
        /\ <<<<"list", l>>, <<"attach", l>>>>[2] = <<"attach", l>>
    BY <2>1
  <2> QED
    BY <2>2, Zenon
<1>2. ASSUME NEW j \in 1 .. Len(steps) PROVE steps[j][2] = l /\ steps[j] # <<"put", l>>
  <2>1. j = 1 \/ j = 2
    BY <1>1
  <2> QED
    BY <1>1, <2>1
<1>3. PICK base \in Nat :
         /\ base = Depth(s) - 1 /\ Moves(s, base, steps)
         /\ Below(s, base + 1) = <<"create", None>>
  <2>1. Then(s, steps)
    BY <1>1
  <2> QED
    BY <2>1, ThenMoves
<1>4. Below(s, base + 1)[2] \in {l, None} /\ \A j \in 1 .. Len(steps) : steps[j][2] \in {l, None}
  BY <1>2, <1>3
<1>5. Effect(s, "list", l)
  <2>1. TopIs(steps, l, "list")
    BY <1>1 DEF TopIs
  <2> QED
    BY <1>3, <1>4, <2>1, EffectOf
<1>6. KeepsUnlist(l)
  BY <1>3, HasMoved DEF KeepsUnlist
<1>7. SamePuts(l)
  <2>1. PutFree(steps, l) /\ Below(s, base + 1) # <<"put", l>>
    BY <1>2, <1>3 DEF PutFree
  <2> QED
    BY <1>3, <2>1, NoPuts DEF SamePuts
<1> QED
  BY <1>1, <1>5, <1>6, <1>7 DEF Quietly

(* A phone that is cleaned holds the line it takes itself off. *)
LEMMA CleanDoes ==
    ASSUME TypeOK, StackInv, NEW s \in Session, Clean(s)
    PROVE  /\ lines = <<>> => Quietly(s, "none", None)
           /\ lines # <<>> => Holding(s, "none", Head(lines))
<1> USE TypeFacts, Members
<1>1. CASE lines = <<>>
  <2>1. PICK steps \in Seq(Entry) : steps = <<<<"forget", None>>>> /\ Len(steps) = 1
    <3>1. <<"forget", None>> \in Entry
      BY Entries DEF Step
    <3>2. <<<<"forget", None>>>> \in Seq(Entry) /\ Len(<<<<"forget", None>>>>) = 1
      BY <3>1
    <3> QED
      BY <3>2, Zenon
  <2>2. \A j \in 1 .. Len(steps) : steps[j][2] \in {None, None} /\ steps[j] # <<"put", None>>
    BY <2>1
  <2>3. /\ TopIs(steps, None, "none") /\ PutFree(steps, None)
        /\ \A j \in 1 .. Len(steps) : steps[j][2] \in {None, None}
    BY <2>1, <2>2 DEF PutFree, TopIs, Hot
  <2>4. Idle(s) /\ todo' = [todo EXCEPT ![s] = steps]
    BY <1>1, <2>1 DEF Clean
  <2>5. Quietly(s, "none", None)
    BY <2>3, <2>4, EffectBegin DEF Quietly
  <2> QED
    BY <1>1, <2>1, <2>5
<1>2. CASE lines # <<>>
  <2>1. PICK l \in Line : l = Head(lines)
    BY <1>2
  <2>2. PICK steps \in Seq(Entry) :
           /\ steps = <<<<"remove", l>>, <<"put", l>>, <<"forget", None>>>> /\ Len(steps) = 3
           /\ steps[1] = <<"remove", l>> /\ steps[2] = <<"put", l>>
           /\ steps[3] = <<"forget", None>>
    <3>1. <<"remove", l>> \in Entry /\ <<"put", l>> \in Entry /\ <<"forget", None>> \in Entry
      BY Entries DEF Step
    <3> DEFINE q == <<<<"remove", l>>, <<"put", l>>, <<"forget", None>>>>
    <3>2. /\ q \in Seq(Entry) /\ Len(q) = 3
          /\ q[1] = <<"remove", l>> /\ q[2] = <<"put", l>> /\ q[3] = <<"forget", None>>
      BY <3>1
    <3> QED
      BY <3>2, Zenon
  <2>3. ASSUME NEW j \in 1 .. Len(steps)
        PROVE  steps[j][2] \in {l, None} /\ (steps[j] = <<"put", l>> <=> j = 2)
    <3>1. j = 1 \/ j = 2 \/ j = 3
      BY <2>2
    <3> QED
      BY <2>2, <3>1
  <2>4. /\ TopIs(steps, l, "none") /\ PutOnce(steps, l)
        /\ \A j \in 1 .. Len(steps) : steps[j][2] \in {l, None}
    <3>1. 2 \in 1 .. Len(steps)
      BY <2>2
    <3>2. TopIs(steps, l, "none")
      BY <2>2 DEF TopIs, Hot
    <3> QED
      BY <2>3, <3>1, <3>2 DEF PutOnce
  <2>5. Idle(s) /\ todo' = [todo EXCEPT ![s] = steps]
    BY <1>2, <2>1, <2>2 DEF Clean
  <2>6. Holding(s, "none", l)
    BY <2>4, <2>5, EffectBegin DEF Holding
  <2> QED
    BY <1>2, <2>1, <2>2, <2>6
<1> QED
  BY <1>1, <1>2

(* A reload holds the line it deletes. *)
LEMMA DeleteDoes ==
    ASSUME TypeOK, StackInv, NEW l \in Line, Delete(l)
    PROVE  Holding(Admin, "none", l)
<1> USE TypeFacts, Members
<1> DEFINE q == <<<<"purge", l>>, <<"destroyed", l>>, <<"unlist", l>>, <<"put", l>>>>
<1>1. PICK steps \in Seq(Entry) :
         /\ steps = q /\ Len(steps) = 4
         /\ steps[1] = <<"purge", l>> /\ steps[2] = <<"destroyed", l>>
         /\ steps[3] = <<"unlist", l>> /\ steps[4] = <<"put", l>>
  <2>1. /\ <<"purge", l>> \in Entry /\ <<"destroyed", l>> \in Entry
        /\ <<"unlist", l>> \in Entry /\ <<"put", l>> \in Entry
    BY Entries DEF Step
  <2>2. /\ q \in Seq(Entry) /\ Len(q) = 4
        /\ q[1] = <<"purge", l>> /\ q[2] = <<"destroyed", l>>
        /\ q[3] = <<"unlist", l>> /\ q[4] = <<"put", l>>
    BY <2>1
  <2> QED
    BY <2>2, Zenon
<1>2. ASSUME NEW j \in 1 .. Len(steps)
      PROVE  steps[j][2] \in {l, None} /\ (steps[j] = <<"put", l>> <=> j = 4)
  <2>1. j = 1 \/ j = 2 \/ j = 3 \/ j = 4
    BY <1>1
  <2> QED
    BY <1>1, <2>1
<1>3. /\ TopIs(steps, l, "none") /\ PutOnce(steps, l)
      /\ \A j \in 1 .. Len(steps) : steps[j][2] \in {l, None}
  <2>1. 4 \in 1 .. Len(steps)
    BY <1>1
  <2> QED
    BY <1>1, <1>2, <2>1 DEF PutOnce, TopIs, Hot
<1>4. Idle(Admin) /\ todo' = [todo EXCEPT ![Admin] = steps]
  BY <1>1 DEF Delete
<1>5. Holding(Admin, "none", l)
  BY <1>3, <1>4, EffectBegin DEF Holding
<1> QED
  BY <1>1, <1>5

(* The last device takes the line with it. *)
LEMMA RemoveDoes ==
    ASSUME TypeOK, StackInv, NEW t \in Thread, NEW l \in Line, NEW step \in {"remove", "purge"},
           At(t, step, l), Then(t, CleanLine(l))
    PROVE  Quietly(t, "none", l)
<1> USE TypeFacts, Members
<1>1. PICK steps \in Seq(Entry) :
         /\ steps = CleanLine(l) /\ Len(steps) = 3
         /\ steps[1] = <<"destroyed", l>> /\ steps[2] = <<"unlist", l>>
         /\ steps[3] = <<"unlock", l>>
  <2>1. /\ <<"destroyed", l>> \in Entry
        /\ <<"unlist", l>> \in Entry /\ <<"unlock", l>> \in Entry
    BY Entries DEF Step
  <2> DEFINE q == <<<<"destroyed", l>>, <<"unlist", l>>, <<"unlock", l>>>>
  <2>2. /\ q \in Seq(Entry) /\ Len(q) = 3
        /\ q[1] = <<"destroyed", l>> /\ q[2] = <<"unlist", l>> /\ q[3] = <<"unlock", l>>
    BY <2>1
  <2>3. q = CleanLine(l)
    BY DEF CleanLine
  <2> QED
    BY <2>2, <2>3, Zenon
<1>2. ASSUME NEW j \in 1 .. Len(steps) PROVE steps[j][2] = l /\ steps[j] # <<"put", l>>
  <2>1. j = 1 \/ j = 2 \/ j = 3
    BY <1>1
  <2> QED
    BY <1>1, <2>1
<1>3. /\ TopIs(steps, l, "none") /\ PutFree(steps, l) /\ Then(t, steps)
      /\ \A j \in 1 .. Len(steps) : steps[j][2] = l
  BY <1>1, <1>2 DEF PutFree, TopIs, Hot
<1>4. step # "put" /\ step # "unlist"
  OBVIOUS
<1>5. Quietly(t, "none", l)
  BY <1>3, <1>4, EffectThen DEF Quietly
<1> QED
  BY <1>1, <1>5

(* A thread that takes a subscription off the list ends it. *)
LEMMA EndingDoes ==
    ASSUME TypeOK, StackInv, NEW t \in Thread, NEW l \in Line, At(t, "destroyed", l),
           Then(t, <<<<"unsubscribe", l>>, <<"put", l>>>>)
    PROVE  Holding(t, "unsubscribe", l)
<1> USE TypeFacts, Members
<1> DEFINE q == <<<<"unsubscribe", l>>, <<"put", l>>>>
<1>1. PICK steps \in Seq(Entry) :
         /\ steps = q /\ Len(steps) = 2
         /\ steps[1] = <<"unsubscribe", l>> /\ steps[2] = <<"put", l>>
  <2>1. <<"unsubscribe", l>> \in Entry /\ <<"put", l>> \in Entry
    BY Entries DEF Step
  <2>2. q \in Seq(Entry) /\ Len(q) = 2 /\ q[1] = <<"unsubscribe", l>> /\ q[2] = <<"put", l>>
    BY <2>1
  <2> QED
    BY <2>2, Zenon
<1>2. ASSUME NEW j \in 1 .. Len(steps)
      PROVE steps[j][2] = l /\ (steps[j] = <<"put", l>> <=> j = 2)
  <2>1. j = 1 \/ j = 2
    BY <1>1
  <2> QED
    BY <1>1, <2>1
<1>3. /\ TopIs(steps, l, "unsubscribe") /\ PutOnce(steps, l) /\ Then(t, steps)
      /\ \A j \in 1 .. Len(steps) : steps[j][2] = l
  <2>1. 2 \in 1 .. Len(steps)
    BY <1>1
  <2> QED
    BY <1>1, <1>2, <2>1 DEF PutOnce, TopIs
<1>4. Holding(t, "unsubscribe", l)
  BY <1>3, EffectThen DEF Holding
<1> QED
  BY <1>1, <1>4

(* A worker that takes a job subscribes its line, and has its reference. *)
LEMMA TakeDoes ==
    ASSUME TypeOK, StackInv, NEW w \in Worker, Take(w)
    PROVE  Holding(w, "subscribe", Head(jobs))
<1> USE TypeFacts, Members
<1>1. PICK l \in Line : l = Head(jobs)
  BY DEF Take
<1> DEFINE q == <<<<"subscribe", l>>, <<"put", l>>>>
<1>2. PICK steps \in Seq(Entry) :
         /\ steps = q /\ Len(steps) = 2
         /\ steps[1] = <<"subscribe", l>> /\ steps[2] = <<"put", l>>
  <2>1. <<"subscribe", l>> \in Entry /\ <<"put", l>> \in Entry
    BY Entries DEF Step
  <2>2. q \in Seq(Entry) /\ Len(q) = 2 /\ q[1] = <<"subscribe", l>> /\ q[2] = <<"put", l>>
    BY <2>1
  <2> QED
    BY <2>2, Zenon
<1>3. ASSUME NEW j \in 1 .. Len(steps)
      PROVE  steps[j][2] \in {l, None} /\ (steps[j] = <<"put", l>> <=> j = 2)
  <2>1. j = 1 \/ j = 2
    BY <1>2
  <2> QED
    BY <1>2, <2>1
<1>4. /\ TopIs(steps, l, "subscribe") /\ PutOnce(steps, l)
      /\ \A j \in 1 .. Len(steps) : steps[j][2] \in {l, None}
  <2>1. 2 \in 1 .. Len(steps)
    BY <1>2
  <2> QED
    BY <1>2, <1>3, <2>1 DEF PutOnce, TopIs
<1>5. Idle(w) /\ todo' = [todo EXCEPT ![w] = steps]
  BY <1>1, <1>2 DEF Take
<1>6. Holding(w, "subscribe", l)
  BY <1>4, <1>5, EffectBegin DEF Holding
<1> QED
  BY <1>1, <1>2, <1>6
=============================================================================
