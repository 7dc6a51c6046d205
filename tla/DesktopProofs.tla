---------------------------- MODULE DesktopProofs ----------------------------
(***************************************************************************)
(* Proofs about the desktop's notifications and windows, for any number of *)
(* each and any sequence of acts, polls, signals and sweeps.               *)
(***************************************************************************)
EXTENDS Desktop, TLAPS

-----------------------------------------------------------------------------
(* Notifications.  The daemon stamps an entry with the time since the      *)
(* first one and sweeps by the time since it started: the stamp is never   *)
(* the later of the two, so a sweep may come early and never late.         *)

Entry   == [ts : Int, title : Titles, shown : Nat]
Lists   == UNION {[S -> Entry] : S \in SUBSET Nat}
Boots   == Nat \union {Unset}
Daemons == [boot : Boots, entries : Lists, nextId : Nat, maxLive : Lives]
Requests == [title : Titles \union {""}, fresh : BOOLEAN]

NotifierInv ==
    /\ now \in Nat /\ request \in Requests /\ notifier \in Daemons
    /\ \A i \in DOMAIN notifier.entries :
          /\ notifier.entries[i].ts <= notifier.entries[i].shown
          /\ now - notifier.entries[i].shown < Ttl

LEMMA ListParts ==
    ASSUME NEW l
    PROVE  l \in Lists <=> /\ l = [i \in DOMAIN l |-> l[i]]
                          /\ DOMAIN l \subseteq Nat
                          /\ \A i \in DOMAIN l : l[i] \in Entry
<1> HIDE DEF Entry
<1>1. ASSUME l \in Lists
      PROVE  /\ l = [i \in DOMAIN l |-> l[i]]
             /\ DOMAIN l \subseteq Nat
             /\ \A i \in DOMAIN l : l[i] \in Entry
  <2>1. PICK S \in SUBSET Nat : l \in [S -> Entry]
    BY <1>1 DEF Lists
  <2> QED
    BY <2>1
<1>2. ASSUME l = [i \in DOMAIN l |-> l[i]],
             DOMAIN l \subseteq Nat,
             \A i \in DOMAIN l : l[i] \in Entry
      PROVE  l \in Lists
  <2>1. l \in [DOMAIN l -> Entry]
    BY <1>2
  <2> QED
    BY <1>2, <2>1 DEF Lists
<1> QED
  BY <1>1, <1>2

LEMMA DaemonParts ==
    ASSUME NEW B, NEW L, NEW N, NEW M, NEW b \in B, NEW l \in L, NEW n \in N, NEW m \in M
    PROVE  /\ [boot |-> b, entries |-> l, nextId |-> n, maxLive |-> m] \in
                  [boot : B, entries : L, nextId : N, maxLive : M]
           /\ \A r \in [boot : B, entries : L, nextId : N, maxLive : M] :
                 /\ r.boot \in B /\ r.entries \in L /\ r.nextId \in N /\ r.maxLive \in M
                 /\ [r EXCEPT !.entries = l] =
                       [boot |-> r.boot, entries |-> l, nextId |-> r.nextId, maxLive |-> r.maxLive]
                 /\ [r EXCEPT !.maxLive = m] =
                       [boot |-> r.boot, entries |-> r.entries, nextId |-> r.nextId, maxLive |-> m]
                 /\ [r EXCEPT !.boot = b, !.entries = l, !.nextId = n] =
                       [boot |-> b, entries |-> l, nextId |-> n, maxLive |-> r.maxLive]
<1> DEFINE R == [boot : B, entries : L, nextId : N, maxLive : M]
<1>1. [boot |-> b, entries |-> l, nextId |-> n, maxLive |-> m] \in R
  OBVIOUS
<1>2. ASSUME NEW r \in R
      PROVE  [r EXCEPT !.boot = b, !.entries = l, !.nextId = n] =
                [boot |-> b, entries |-> l, nextId |-> n, maxLive |-> r.maxLive]
  <2> DEFINE r1 == [r EXCEPT !.boot = b]
             r2 == [r1 EXCEPT !.entries = l]
  <2>1. r1 \in R /\ r1.maxLive = r.maxLive /\ r1.boot = b
    BY <1>2
  <2> HIDE DEF r1
  <2>2. r2 \in R /\ r2.maxLive = r.maxLive /\ r2.boot = b /\ r2.entries = l
    BY <2>1
  <2> HIDE DEF r2
  <2>3. [r2 EXCEPT !.nextId = n] =
            [boot |-> b, entries |-> l, nextId |-> n, maxLive |-> r.maxLive]
    BY <2>2
  <2> QED
    BY <2>3 DEF r1, r2
<1>3. ASSUME NEW r \in R
      PROVE  /\ r.boot \in B /\ r.entries \in L /\ r.nextId \in N /\ r.maxLive \in M
             /\ [r EXCEPT !.entries = l] =
                   [boot |-> r.boot, entries |-> l, nextId |-> r.nextId, maxLive |-> r.maxLive]
             /\ [r EXCEPT !.maxLive = m] =
                   [boot |-> r.boot, entries |-> r.entries, nextId |-> r.nextId, maxLive |-> m]
  BY <1>3
<1> QED
  BY <1>1, <1>2, <1>3

LEMMA RequestHandled ==
    ASSUME NotifierInv, HandleNotifRequest
    PROVE  NotifierInv'
<1> DEFINE n == notifier
           e == [ts |-> SinceFirst(n), title |-> request.title, shown |-> now]
           kept == DropOldest(n.entries, n.maxLive)
<1>1. /\ n.boot \in Boots /\ n.entries \in Lists /\ n.nextId \in Nat /\ n.maxLive \in Lives
      /\ now \in Nat /\ Ttl \in Nat /\ Ttl > 0
  <2>1. n \in Daemons /\ now \in Nat
    BY DEF NotifierInv
  <2>2. Ttl \in Nat /\ Ttl > 0
    BY NotificationsAssumption
  <2> QED
    BY <2>1, <2>2, DaemonParts DEF Daemons
<1>2. now' = now /\ request' \in Requests
  BY DEF HandleNotifRequest, NotifierInv, Requests
<1> HIDE DEF n
<1>0. request.title \in Titles \union {""}
  BY DEF NotifierInv, Requests
<1>3. CASE request.title = ""
  <2>1. notifier' = notifier
    BY <1>3 DEF HandleNotifRequest, n
  <2> QED
    BY <1>2, <2>1 DEF NotifierInv
<1>4. CASE request.title # ""
  <2>1. notifier' = Accepted(n, request.title)
    BY <1>4 DEF HandleNotifRequest, n
  <2>2. /\ DOMAIN kept \subseteq DOMAIN n.entries
        /\ \A i \in DOMAIN kept : kept[i] = n.entries[i]
    BY DEF DropOldest, WithoutOldest, Restrict
  <2>3. SinceFirst(n) \in Int /\ SinceFirst(n) <= now
    BY <1>1 DEF SinceFirst, Unset, Boots
  <2>4. /\ e \in Entry /\ e.ts <= e.shown /\ now - e.shown < Ttl
    <3> DEFINE s == SinceFirst(n)
    <3>1. s \in Int /\ s <= now
      BY <2>3
    <3> HIDE DEF s
    <3>2. [ts |-> s, title |-> request.title, shown |-> now] \in Entry
      BY <1>0, <1>1, <1>4, <3>1 DEF Entry
    <3>3. now - now < Ttl
      BY <1>1
    <3> QED
      BY <3>1, <3>2, <3>3 DEF s
  <2> DEFINE es == [i \in DOMAIN kept \union {n.nextId} |->
                       IF i = n.nextId THEN e ELSE kept[i]]
             bt == IF n.boot = Unset THEN now ELSE n.boot
             id == n.nextId + 1
  <2>5. notifier' = [n EXCEPT !.boot = bt, !.entries = es, !.nextId = id]
    BY <2>1 DEF Accepted
  <2>6. /\ DOMAIN es \subseteq Nat
        /\ \A i \in DOMAIN es : /\ es[i] \in Entry
                                /\ es[i].ts <= es[i].shown
                                /\ now - es[i].shown < Ttl
    <3> HIDE DEF e, kept
    <3>1. /\ DOMAIN n.entries \subseteq Nat
          /\ \A i \in DOMAIN n.entries : n.entries[i] \in Entry
      BY <1>1, ListParts
    <3>2. \A i \in DOMAIN n.entries : /\ n.entries[i].ts <= n.entries[i].shown
                                       /\ now - n.entries[i].shown < Ttl
      BY DEF NotifierInv, n
    <3>3. \A i \in DOMAIN kept : /\ i \in Nat /\ kept[i] \in Entry
                                 /\ kept[i].ts <= kept[i].shown
                                 /\ now - kept[i].shown < Ttl
      BY <2>2, <3>1, <3>2
    <3> QED
      BY <1>1, <2>4, <3>3
  <2>7. es \in Lists
    <3>1. es = [i \in DOMAIN es |-> es[i]]
      OBVIOUS
    <3> HIDE DEF es
    <3> QED
      BY <2>6, <3>1, ListParts
  <2>8. bt \in Boots /\ id \in Nat
    BY <1>1 DEF Boots
  <2> HIDE DEF es, bt, id
  <2>9. notifier' \in Daemons /\ notifier'.entries = es
    <3>1. notifier' = [boot |-> bt, entries |-> es, nextId |-> id, maxLive |-> n.maxLive]
      BY <1>1, <2>5, <2>7, <2>8, DaemonParts DEF NotifierInv, Daemons, n
    <3> QED
      BY <1>1, <2>7, <2>8, <3>1, DaemonParts DEF Daemons
  <2> QED
    BY <1>2, <2>6, <2>9 DEF NotifierInv
<1> QED
  BY <1>3, <1>4

LEMMA Swept ==
    ASSUME NotifierInv, HandleExpiry
    PROVE  NotifierInv'
<1> DEFINE live == Live(notifier.entries, now + 1)
<1>1. /\ now' = now + 1 /\ request' = request
      /\ notifier' = [notifier EXCEPT !.entries = live]
  BY DEF HandleExpiry
<1>2. \A i \in DOMAIN live : /\ i \in DOMAIN notifier.entries
                             /\ live[i] = notifier.entries[i]
                             /\ now + 1 < live[i].ts + Ttl
  BY DEF Live, Restrict, IsLive
<1>3. live = [i \in DOMAIN live |-> live[i]]
  BY DEF Live, Restrict
<1> HIDE DEF live
<1>4. notifier.entries \in Lists /\ now \in Nat /\ Ttl \in Nat
  BY NotificationsAssumption DEF NotifierInv, Daemons
<1>5. /\ DOMAIN notifier.entries \subseteq Nat
      /\ \A i \in DOMAIN notifier.entries : notifier.entries[i] \in Entry
  BY <1>4, ListParts
<1>6. live \in Lists
  BY <1>2, <1>3, <1>5, ListParts
<1>7. notifier' \in Daemons /\ notifier'.entries = live
  <2>1. /\ notifier' = [boot |-> notifier.boot, entries |-> live,
                       nextId |-> notifier.nextId, maxLive |-> notifier.maxLive]
        /\ notifier.boot \in Boots /\ notifier.nextId \in Nat /\ notifier.maxLive \in Lives
    BY <1>1, <1>6, DaemonParts DEF NotifierInv, Daemons
  <2> QED
    BY <1>6, <2>1, DaemonParts DEF Daemons
<1>8. ASSUME NEW i \in DOMAIN live
      PROVE  live[i].ts <= live[i].shown /\ now' - live[i].shown < Ttl
  <2>1. live[i] \in Entry /\ live[i].ts <= live[i].shown /\ now + 1 < live[i].ts + Ttl
    BY <1>2, <1>5 DEF NotifierInv
  <2>2. live[i].ts \in Int /\ live[i].shown \in Nat
    BY <2>1 DEF Entry
  <2> QED
    BY <1>1, <1>4, <2>1, <2>2
<1>9. now + 1 \in Nat
  BY <1>4
<1>10. request' \in Requests
  BY <1>1 DEF NotifierInv
<1>11. \A i \in DOMAIN notifier'.entries : /\ notifier'.entries[i].ts <= notifier'.entries[i].shown
                                          /\ now' - notifier'.entries[i].shown < Ttl
  <2>1. /\ DOMAIN notifier'.entries = DOMAIN live
        /\ \A i \in DOMAIN live : notifier'.entries[i] = live[i]
    BY <1>7
  <2> SUFFICES ASSUME NEW i \in DOMAIN live
               PROVE  live[i].ts <= live[i].shown /\ now' - live[i].shown < Ttl
    BY <2>1
  <2> QED
    BY <1>8
<1> QED
  BY <1>1, <1>7, <1>9, <1>10, <1>11 DEF NotifierInv

LEMMA NotifierStep ==
    ASSUME NotifierInv, NotificationsNext
    PROVE  NotifierInv'
<1>1. CASE HandleNotifRequest
  BY <1>1, RequestHandled
<1>2. CASE HandleExpiry
  BY <1>2, Swept
<1>3. CASE UNCHANGED <<now, request, notifier>>
  BY <1>3 DEF NotifierInv
<1>4. ASSUME NEW p \in Posters, NEW t \in Titles, NEW available \in BOOLEAN,
             Post(p, t, available)
      PROVE  NotifierInv'
  <2>1. /\ now' = now /\ notifier' = notifier
        /\ request' = request \/ request' = [title |-> t, fresh |-> TRUE]
    BY <1>4 DEF Post
  <2>2. request' \in Requests
    <3>1. request \in Requests
      BY DEF NotifierInv
    <3>2. [title |-> t, fresh |-> TRUE] \in Requests
      BY <1>4 DEF Requests
    <3> QED
      BY <2>1, <3>1, <3>2
  <2> QED
    BY <2>1, <2>2 DEF NotifierInv
<1>5. ASSUME NEW live \in Lives, HandleConfig(live)
      PROVE  NotifierInv'
  <2>1. /\ now' = now /\ request' = request
        /\ notifier' = [notifier EXCEPT !.maxLive = live]
    BY <1>5 DEF HandleConfig
  <2>2. /\ notifier' = [boot |-> notifier.boot, entries |-> notifier.entries,
                        nextId |-> notifier.nextId, maxLive |-> live]
        /\ notifier.boot \in Boots /\ notifier.entries \in Lists /\ notifier.nextId \in Nat
    BY <1>5, <2>1, DaemonParts DEF NotifierInv, Daemons
  <2>3. notifier' \in Daemons /\ notifier'.entries = notifier.entries
    BY <1>5, <2>2, DaemonParts DEF Daemons
  <2> QED
    BY <2>1, <2>3 DEF NotifierInv
<1> QED
  BY <1>1, <1>2, <1>3, <1>4, <1>5
     DEF NotificationsNext, NotifierRuns, PopoverRuns, OpenPopover,
         PollNotifications, NotificationsSignal, RunQueuedEntries, ClickPopover

(* No notification outlives its time to live, although it is stamped with  *)
(* one clock and swept with another (_accept_one, _handle_expiry).         *)
THEOREM NothingOverstaysHolds == DesktopSpec => []NothingOverstays
<1>1. DesktopInit => NotifierInv
  <2> SUFFICES ASSUME NotificationsInit
               PROVE  NotifierInv
    BY DEF DesktopInit
  <2>1. now \in Nat
    <3>1. \A m \in Nat : m \div 2 \in Nat
      OBVIOUS
    <3>2. MaxTime \in Nat
      BY NotificationsAssumption
    <3>3. now \in {1, MaxTime \div 2}
      BY DEF NotificationsInit
    <3> QED
      BY <3>1, <3>2, <3>3
  <2>2. request \in Requests
    BY DEF NotificationsInit, Requests
  <2>3. NoEntries \in Lists /\ DOMAIN NoEntries = {}
    BY ListParts DEF NoEntries
  <2>4. notifier \in Daemons /\ notifier.entries = NoEntries
    <3>1. PICK m \in Lives : notifier = [boot |-> Unset, entries |-> NoEntries,
                                        nextId |-> 1, maxLive |-> m]
      BY DEF NotificationsInit
    <3>2. Unset \in Boots /\ 1 \in Nat
      BY DEF Boots
    <3> QED
      BY <2>3, <3>1, <3>2, DaemonParts DEF Daemons
  <2> QED
    BY <2>1, <2>2, <2>3, <2>4 DEF NotifierInv
<1>2. NotifierInv /\ [DesktopNext]_desktopVars => NotifierInv'
  <2> SUFFICES ASSUME NotifierInv, [DesktopNext]_desktopVars
               PROVE  NotifierInv'
    OBVIOUS
  <2>1. CASE NotesHappen
    BY <2>1, NotifierStep DEF NotesHappen
  <2>2. CASE UNCHANGED notifierVars
    BY <2>2 DEF notifierVars, NotifierInv
  <2> QED
    BY <2>1, <2>2
       DEF DesktopNext, desktopVars, ThemesChange, PanelsChange, WindowsChange,
           KeysChange, OthersThanLooks, OthersThanWindows, OthersThanKeys
<1>3. NotifierInv => NothingOverstays
  BY DEF NotifierInv, NothingOverstays
<1> QED
  BY <1>1, <1>2, <1>3, PTL DEF DesktopSpec

-----------------------------------------------------------------------------
(* Windows.  A window can be off the screen only because a rule put it     *)
(* there, and a rule is written only from what is tracked: so a parked     *)
(* window is one that the tasklist knew before, with the place it had.     *)
(* A window that got a new title is forgotten while the reports disagree,  *)
(* and all of this fails for it.                                           *)

HasPlace(s) == "y" \in DOMAIN s /\ s.y \in Nat \union {Parked}

Knows(f) ==
    \A w \in DOMAIN f : /\ HasPlace(f[w])
                        /\ w \notin lost => w \in DOMAIN layout /\ f[w].y \in Nat

KnowsParked(f) ==
    \A w \in DOMAIN layout \ lost : layout[w].y = Parked => w \in DOMAIN f

WindowsInv ==
    /\ "tracked" \in DOMAIN tasks
    /\ retitled \subseteq lost
    /\ \A w \in DOMAIN layout : HasPlace(layout[w])
    /\ Knows(tasks.tracked) /\ KnowsParked(tasks.tracked)
    /\ Knows(rules) /\ DOMAIN rules \ lost \subseteq DOMAIN tasks.tracked

LEMMA ParkedIsOff == Parked \in Int /\ Parked \notin Nat
BY WindowsAssumption

(* What is tracked anew knows every window that was known. *)
LEMMA RecomputeKnows ==
    ASSUME WindowsInv, NEW f, Knows(f), KnowsParked(f)
    PROVE  /\ Knows(Recompute(f)) /\ KnowsParked(Recompute(f))
           /\ DOMAIN f \ lost \subseteq DOMAIN Recompute(f)
<1>1. DOMAIN Recompute(f) = DOMAIN layout \ retitled
  BY DEF Recompute
<1>2. ASSUME NEW w \in DOMAIN layout \ retitled
      PROVE  /\ HasPlace(Recompute(f)[w])
             /\ w \notin lost => Recompute(f)[w].y \in Nat
  <2>1. Recompute(f)[w] = Recomputed(f, w)
    BY DEF Recompute
  <2>2. "y" \in DOMAIN layout[w] /\ layout[w].y \in Nat \union {Parked}
    BY DEF WindowsInv, HasPlace
  <2>3. "y" \in DOMAIN Recomputed(f, w)
    BY DEF Recomputed
  <2>4. CASE layout[w].y = Parked /\ w \in DOMAIN f
    <3>1. Recomputed(f, w).y = f[w].y
      BY <2>4, ParkedIsOff DEF Recomputed
    <3> QED
      BY <2>1, <2>3, <2>4, <3>1 DEF Knows, HasPlace
  <2>5. CASE layout[w].y = Parked /\ w \notin DOMAIN f
    <3>1. Recomputed(f, w).y = layout[w].y
      BY <2>5 DEF Recomputed
    <3>2. w \in lost
      BY <2>5 DEF KnowsParked
    <3> QED
      BY <2>1, <2>2, <2>3, <3>1, <3>2 DEF HasPlace
  <2>6. CASE layout[w].y # Parked
    <3>1. layout[w].y \in Nat /\ ~(layout[w].y <= Parked)
      BY <2>2, <2>6, ParkedIsOff
    <3>2. Recomputed(f, w).y = layout[w].y
      BY <3>1 DEF Recomputed
    <3> QED
      BY <2>1, <2>3, <3>1, <3>2 DEF HasPlace
  <2> QED
    BY <2>4, <2>5, <2>6
<1>3. Knows(Recompute(f))
  BY <1>1, <1>2 DEF Knows
<1>4. DOMAIN layout \ lost \subseteq DOMAIN Recompute(f)
  BY <1>1 DEF WindowsInv
<1> QED
  BY <1>3, <1>4 DEF Knows, KnowsParked

LEMMA UpdatedParts ==
    ASSUME NEW t, "tracked" \in DOMAIN t
    PROVE  /\ "tracked" \in DOMAIN Updated(t).tasks
           /\ Updated(t).tasks.tracked = Recompute(t.tracked)
           /\ Updated(t).rules = Recompute(t.tracked) \/ Updated(t).rules = rules
<1> DEFINE r == Recompute(t.tracked)
           writes == r = t.candidate /\ t.stable /\ r # t.published
           t1 == [t EXCEPT !.tracked = r]
           t2 == [t1 EXCEPT !.candidate = r]
           t3 == [t2 EXCEPT !.stable = (r = t.candidate)]
           t4 == [t3 EXCEPT !.published = IF writes THEN r ELSE @]
<1>1. "tracked" \in DOMAIN t1 /\ t1.tracked = r
  OBVIOUS
<1>2. Updated(t) = [tasks |-> t4, rules |-> IF writes THEN r ELSE rules]
  BY DEF Updated
<1> HIDE DEF r, t1
<1>3. "tracked" \in DOMAIN t2 /\ t2.tracked = r
  BY <1>1
<1> HIDE DEF t2
<1>4. "tracked" \in DOMAIN t3 /\ t3.tracked = r
  BY <1>3
<1> HIDE DEF t3
<1>5. "tracked" \in DOMAIN t4 /\ t4.tracked = r
  BY <1>4
<1> HIDE DEF t4, writes
<1> QED
  BY <1>2, <1>5 DEF r

(* The tasklist writes rules, whatever it was told to change besides the   *)
(* places.                                                                 *)
LEMMA Rewritten ==
    ASSUME WindowsInv, NEW t, "tracked" \in DOMAIN t,
           Knows(t.tracked), DOMAIN t.tracked = DOMAIN tasks.tracked,
           tasks' = Updated(t).tasks,
           rules' \in {Updated(t).rules, t.tracked},
           UNCHANGED <<layout, retitled, lost>>
    PROVE  WindowsInv'
<1> DEFINE r == Recompute(t.tracked)
<1>1. KnowsParked(t.tracked)
  BY DEF WindowsInv, KnowsParked
<1>2. /\ Knows(r) /\ KnowsParked(r)
      /\ DOMAIN t.tracked \ lost \subseteq DOMAIN r
  BY <1>1, RecomputeKnows
<1> HIDE DEF r
<1>3. "tracked" \in DOMAIN tasks' /\ tasks'.tracked = r
  BY UpdatedParts DEF r
<1>4. rules' \in {r, rules, t.tracked}
  BY UpdatedParts DEF r
<1>5. Knows(rules') /\ DOMAIN rules' \ lost \subseteq DOMAIN r
  BY <1>2, <1>4 DEF WindowsInv
<1>6. layout' = layout /\ retitled' = retitled /\ lost' = lost
  OBVIOUS
<1>7. Knows(tasks.tracked)' /\ KnowsParked(tasks.tracked)'
  BY <1>2, <1>3, <1>6 DEF Knows, KnowsParked
<1>8. Knows(rules)'
  BY <1>5, <1>6 DEF Knows
<1> QED
  BY <1>3, <1>5, <1>6, <1>7, <1>8 DEF WindowsInv

LEMMA Changes ==
    ASSUME WindowsInv, NEW t, "tracked" \in DOMAIN t,
           Knows(t.tracked), DOMAIN t.tracked = DOMAIN tasks.tracked,
           PublishesRules(t)
    PROVE  WindowsInv'
BY Rewritten DEF PublishesRules

LEMMA TaskChanges ==
    ASSUME WindowsInv, UserOrApplication,
           ~ \E w \in Windows : CloseWindow(w) \/ Retitle(w),
           ~ \E w \in Windows, y \in Places : OpenWindow(w, y) \/ DragWindow(w, y)
    PROVE  WindowsInv'
<1>0. "tracked" \in DOMAIN tasks /\ Knows(tasks.tracked)
  BY DEF WindowsInv
<1>1. ASSUME NEW w \in Windows, ClickTask(w)
      PROVE  WindowsInv'
  <2> DEFINE f == [tasks.tracked EXCEPT ![w].min = ~@]
             t == [tasks EXCEPT !.tracked = f]
  <2>1. PublishesRules(t)
    BY <1>1 DEF ClickTask
  <2>2. DOMAIN f = DOMAIN tasks.tracked /\ Knows(f)
    BY <1>0 DEF Knows, HasPlace
  <2> HIDE DEF f
  <2>3. "tracked" \in DOMAIN t /\ t.tracked = f
    BY <1>0
  <2> HIDE DEF t
  <2> QED
    BY <2>1, <2>2, <2>3, Changes
<1>2. ASSUME NEW w \in Windows, ToggleMaximized(w)
      PROVE  WindowsInv'
  <2> DEFINE f == [tasks.tracked EXCEPT ![w].max = ~@]
             t == [tasks EXCEPT !.tracked = f]
  <2>1. PublishesRules(t)
    BY <1>2 DEF ToggleMaximized
  <2>2. DOMAIN f = DOMAIN tasks.tracked /\ Knows(f)
    BY <1>0 DEF Knows, HasPlace
  <2> HIDE DEF f
  <2>3. "tracked" \in DOMAIN t /\ t.tracked = f
    BY <1>0
  <2> HIDE DEF t
  <2> QED
    BY <2>1, <2>2, <2>3, Changes
<1>3. CASE CycleFocus
  <2> DEFINE t == [tasks EXCEPT !.focused = NextFocus(tasks)]
  <2>1. PublishesRules(t)
    BY <1>3 DEF CycleFocus
  <2>2. "tracked" \in DOMAIN t /\ t.tracked = tasks.tracked
    BY <1>0
  <2> HIDE DEF t
  <2> QED
    BY <1>0, <2>1, <2>2, Changes
<1>4. CASE ShowDesktop
  <2> DEFINE f == [w \in DOMAIN tasks.tracked |-> [tasks.tracked[w] EXCEPT !.min = TRUE]]
             t == [tasks EXCEPT !.tracked = f]
  <2>1. PublishesRules(t)
    BY <1>4 DEF ShowDesktop, AllMinimized
  <2>2. DOMAIN f = DOMAIN tasks.tracked /\ Knows(f)
    BY <1>0 DEF Knows, HasPlace
  <2> HIDE DEF f
  <2>3. "tracked" \in DOMAIN t /\ t.tracked = f
    BY <1>0
  <2> HIDE DEF t
  <2> QED
    BY <2>1, <2>2, <2>3, Changes
<1> QED
  BY <1>1, <1>2, <1>3, <1>4 DEF UserOrApplication

LEMMA WindowsStep ==
    ASSUME WindowsInv, WindowsNext
    PROVE  WindowsInv'
<1>1. CASE ApplyUpdates
  <2>1. /\ tasks' = Updated(tasks).tasks /\ rules' = Updated(tasks).rules
        /\ UNCHANGED <<layout, retitled, lost>>
    BY <1>1 DEF ApplyUpdates
  <2>2. "tracked" \in DOMAIN tasks /\ Knows(tasks.tracked)
    BY DEF WindowsInv
  <2> QED
    BY <2>1, <2>2, Rewritten
<1>2. CASE LayouterRuns
  <2>1. /\ tasks' = tasks /\ rules' = rules /\ lost' = lost /\ retitled' = {}
        /\ layout' = [w \in DOMAIN layout |-> Placed(w)]
    BY <1>2 DEF LayouterRuns
  <2>2. ASSUME NEW w \in DOMAIN layout
        PROVE  /\ HasPlace(Placed(w))
               /\ Placed(w).y = Parked /\ w \notin lost => w \in DOMAIN tasks.tracked
    <3>1. CASE w \notin DOMAIN rules
      BY <3>1 DEF Placed, WindowsInv, KnowsParked
    <3>2. CASE w \in DOMAIN rules
      <4>1. HasPlace(rules[w])
        BY <3>2 DEF WindowsInv, Knows
      <4>2. HasPlace(Placed(w))
        BY <3>2, <4>1 DEF Placed, HasPlace
      <4> QED
        BY <3>2, <4>2 DEF WindowsInv
    <3> QED
      BY <3>1, <3>2
  <2>3. /\ DOMAIN layout' = DOMAIN layout
        /\ \A w \in DOMAIN layout : layout'[w] = Placed(w)
    BY <2>1
  <2>4. Knows(tasks.tracked)' /\ Knows(rules)'
    BY <2>1, <2>3 DEF WindowsInv, Knows
  <2>5. KnowsParked(tasks.tracked)'
    BY <2>1, <2>2, <2>3 DEF KnowsParked
  <2> QED
    BY <2>1, <2>2, <2>3, <2>4, <2>5 DEF WindowsInv
<1>3. ASSUME NEW w \in Windows, CloseWindow(w)
      PROVE  WindowsInv'
  <2>1. /\ tasks' = tasks /\ rules' = rules
        /\ lost' = lost \union {w} /\ retitled' = retitled \ {w}
        /\ DOMAIN layout' = DOMAIN layout \ {w}
        /\ \A v \in DOMAIN layout' : layout'[v] = layout[v]
    BY <1>3 DEF CloseWindow
  <2> QED
    BY <2>1 DEF WindowsInv, Knows, KnowsParked
<1>4. ASSUME NEW w \in Windows, Retitle(w)
      PROVE  WindowsInv'
  <2>1. /\ tasks' = tasks /\ rules' = rules /\ layout' = layout
        /\ lost' = lost \union {w} /\ retitled' = retitled \union {w}
    BY <1>4 DEF Retitle
  <2> QED
    BY <2>1 DEF WindowsInv, Knows, KnowsParked
<1>5. ASSUME NEW w \in Windows, NEW y \in Places, OpenWindow(w, y) \/ DragWindow(w, y)
      PROVE  WindowsInv'
  <2>1. y \in Nat /\ y # Parked
    BY <1>5, WindowsAssumption
  <2>2. /\ tasks' = tasks /\ rules' = rules /\ lost' = lost /\ retitled' = retitled
        /\ DOMAIN layout \subseteq DOMAIN layout' /\ DOMAIN layout' \subseteq DOMAIN layout \union {w}
        /\ \A v \in DOMAIN layout' : v # w => layout'[v] = layout[v]
    BY <1>5 DEF OpenWindow, DragWindow
  <2>3. w \in DOMAIN layout' /\ "y" \in DOMAIN layout'[w] /\ layout'[w].y = y
    <3>1. CASE OpenWindow(w, y)
      BY <3>1 DEF OpenWindow
    <3>2. CASE DragWindow(w, y)
      BY <3>2 DEF DragWindow, WindowsInv, HasPlace
    <3> QED
      BY <1>5, <3>1, <3>2
  <2> QED
    BY <2>1, <2>2, <2>3 DEF WindowsInv, Knows, KnowsParked, HasPlace
<1> QED
  BY <1>1, <1>2, <1>3, <1>4, <1>5, TaskChanges DEF WindowsNext, UserOrApplication

(* The tasklist never takes the place a minimized window is parked at for  *)
(* the place to restore it to (_recompute_tracked).                        *)
THEOREM RestoreTargetHolds == DesktopSpec => []RestoreTarget
<1>1. DesktopInit => WindowsInv
  BY DEF DesktopInit, WindowsInit, NoWindows, WindowsInv, Knows, KnowsParked
<1>2. WindowsInv /\ [DesktopNext]_desktopVars => WindowsInv'
  <2> SUFFICES ASSUME WindowsInv, [DesktopNext]_desktopVars
               PROVE  WindowsInv'
    OBVIOUS
  <2>1. CASE WindowsChange
    BY <2>1, WindowsStep DEF WindowsChange
  <2>2. CASE UNCHANGED windowsVars
    BY <2>2 DEF windowsVars, WindowsInv, Knows, KnowsParked
  <2> QED
    BY <2>1, <2>2
       DEF DesktopNext, desktopVars, NotesHappen, ThemesChange, PanelsChange,
           KeysChange, OthersThanNotes, OthersThanLooks, OthersThanKeys
<1>3. WindowsInv => RestoreTarget
  <2> SUFFICES ASSUME WindowsInv, NEW w \in DOMAIN tasks.tracked \ lost
               PROVE  tasks.tracked[w].y # Parked
    BY DEF RestoreTarget
  <2>1. tasks.tracked[w].y \in Nat
    BY DEF WindowsInv, Knows
  <2> QED
    BY <2>1, ParkedIsOff
<1> QED
  BY <1>1, <1>2, <1>3, PTL DEF DesktopSpec
=============================================================================
