----------------------------- MODULE Notifications -----------------------------
(***************************************************************************)
(* Notifications: a poster (vct or the desktop) publishes a request, the   *)
(* daemon sponge_notifier keeps the live ones and broadcasts the list, and *)
(* the desktop's popover shows it (repos/sponge/src/sponge_notifier,       *)
(* sponge-de/panel/notify_poster.cc, notifier_controller.cc,               *)
(* notifier_widget.cc, vct/notifier_reporter.cc).                          *)
(*                                                                         *)
(* Time is counted in sweeps, TIMER_PERIOD_MS each.                        *)
(***************************************************************************)
EXTENDS Integers, Sequences, FiniteSets, SequencesExt

CONSTANTS
    Titles,      \* what is posted
    Routed,      \* the poster whose requests report_rom routes to the daemon
    MaxLive,     \* MAX_LIVE
    Lives,       \* the values of max_live a configuration may have
    Ttl,         \* default_ttl_ms, in sweeps
    SameWithin,  \* the second within which a poster posts nothing twice, in sweeps
    MaxTime,     \* bound: sweeps
    MaxPosts     \* bound: posts

ASSUME NotificationsAssumption ==
    /\ {MaxLive, Ttl, SameWithin, MaxTime, MaxPosts} \subseteq Nat
    /\ Ttl > 0      \* _coerce_ttl_ms and _handle_config replace zero
    /\ Lives \subseteq 1..MaxLive

Posters == {"vct", "sponge-de"}

VARIABLES
    now,        \* what the timer says
    last,       \* what each poster posted last, and when
    request,    \* the notif_request report: its title, and whether the daemon has seen it
    notifier,   \* _boot_ms, _entries by their ids, _next_id, _max_live
    broadcast,  \* the notifications report
    popover     \* the controller and the widget of the popover

notifierVars == <<now, last, request, notifier, broadcast, popover>>

Unset     == -1
Nothing   == [title |-> "", at |-> Unset]
NoEntries == [i \in {} |-> Nothing]

NotificationsInit ==
    /\ now \in {1, MaxTime \div 2}    \* the daemon may start late
    /\ last = [p \in Posters |-> Nothing]
    /\ request = [title |-> "", fresh |-> FALSE]
    /\ \E n \in Lives :
          notifier = [boot |-> Unset, entries |-> NoEntries, nextId |-> 1, maxLive |-> n]
    /\ broadcast = NoEntries
    /\ popover = [open |-> FALSE, payload |-> NoEntries, queue |-> <<>>,
                  entries |-> NoEntries, visible |-> FALSE]

-----------------------------------------------------------------------------
(* The posters                                                             *)

IsRepeat(p, t) ==
    last[p].title = t /\ last[p].at # Unset /\ now - last[p].at < SameWithin

(* NotifyPoster::post and NotifierReporter::post.  The report may not be   *)
(* available; vct, alone, remembers a post that it could not make.         *)
Post(p, t, available) ==
    /\ notifier.nextId + (IF request.fresh THEN 1 ELSE 0) <= MaxPosts
    /\ IF IsRepeat(p, t) \/ (~available /\ p # "vct")
       THEN UNCHANGED <<last, request>>
       ELSE /\ last' = [last EXCEPT ![p] = [title |-> t, at |-> now]]
            /\ request' = IF available /\ p = Routed THEN [title |-> t, fresh |-> TRUE]
                          ELSE request
    /\ UNCHANGED <<now, notifier, broadcast, popover>>

-----------------------------------------------------------------------------
(* sponge_notifier                                                         *)

(* _now_ms: time since the first notification. *)
SinceFirst(n) == IF n.boot = Unset THEN 0 ELSE now - n.boot

(* Ids are given in order, and the list is kept in it: the oldest entry is *)
(* that with the least.                                                    *)
WithoutOldest(entries) == Restrict(entries, DOMAIN entries \ {Min(DOMAIN entries)})

DropOldest(entries, live) ==
    IF Cardinality(DOMAIN entries) >= live THEN WithoutOldest(entries) ELSE entries

(* _accept_one.  "shown" is history: when the entry was taken in. *)
Accepted(n, t) ==
    LET kept  == DropOldest(n.entries, n.maxLive)
        entry == [ts |-> SinceFirst(n), title |-> t, shown |-> now]
    IN  [n EXCEPT !.boot = IF @ = Unset THEN now ELSE @,
                  !.entries = [i \in DOMAIN kept \union {n.nextId} |->
                                  IF i = n.nextId THEN entry ELSE kept[i]],
                  !.nextId = @ + 1]

(* _handle_notif_request.  A request without a title is dropped. *)
HandleNotifRequest ==
    /\ request.fresh
    /\ request' = [request EXCEPT !.fresh = FALSE]
    /\ notifier' = IF request.title = "" THEN notifier ELSE Accepted(notifier, request.title)
    /\ broadcast' = IF request.title = "" THEN broadcast ELSE notifier'.entries
    /\ UNCHANGED <<now, last, popover>>

(* _handle_config: what is live stays, whatever the new limit. *)
HandleConfig(live) ==
    /\ live # notifier.maxLive
    /\ notifier' = [notifier EXCEPT !.maxLive = live]
    /\ UNCHANGED <<now, last, request, broadcast, popover>>

IsLive(e, t) == t < e.ts + Ttl

Live(entries, t) == Restrict(entries, {i \in DOMAIN entries : IsLive(entries[i], t)})

(* Mutant of HandleExpiry: the list is not published. *)
HandleExpirySilent ==
    /\ now < MaxTime
    /\ now' = now + 1
    /\ notifier' = [notifier EXCEPT !.entries = Live(@, now')]
    /\ UNCHANGED <<last, request, broadcast, popover>>

(* Mutant of HandleExpiry: a sweep takes the oldest entry at most. *)
HandleExpiryOldest ==
    /\ now < MaxTime
    /\ now' = now + 1
    /\ notifier' = [notifier EXCEPT !.entries =
                       IF DOMAIN @ \ DOMAIN Live(@, now') # {} THEN WithoutOldest(@) ELSE @]
    /\ broadcast' = IF notifier' # notifier THEN notifier'.entries ELSE broadcast
    /\ UNCHANGED <<last, request, popover>>

(* _handle_expiry, every TIMER_PERIOD_MS: the time of the sweep counts     *)
(* from the start of the timer, that of the entries from the first one.    *)
HandleExpiry ==
    /\ now < MaxTime
    /\ now' = now + 1
    /\ notifier' = [notifier EXCEPT !.entries = Live(@, now')]
    /\ broadcast' = IF notifier' # notifier THEN notifier'.entries ELSE broadcast
    /\ UNCHANGED <<last, request, popover>>

-----------------------------------------------------------------------------
(* The popover                                                             *)

(* NotifierWidget::applyEntries: what is empty is hidden. *)
Displayed(p, titles) == [p EXCEPT !.entries = titles, !.visible = DOMAIN titles # {}]

(* NotifierController::applyEntries: a payload is parsed once. *)
Applied(p, payload) ==
    IF payload = p.payload THEN p
    ELSE Displayed([p EXCEPT !.payload = payload], [i \in DOMAIN payload |-> payload[i].title])

(* _lazy_open and the timer it starts. *)
OpenPopover ==
    /\ ~popover.open
    /\ popover' = [popover EXCEPT !.open = TRUE]
    /\ UNCHANGED <<now, last, request, notifier, broadcast>>

(* _poll, on the GUI thread. *)
PollNotifications ==
    /\ popover.open
    /\ popover' = Applied(popover, broadcast)
    /\ UNCHANGED <<now, last, request, notifier, broadcast>>

(* _on_rom, on the entrypoint: what it read is applied later. *)
NotificationsSignal ==
    /\ popover.open /\ popover.queue = <<>> /\ broadcast # popover.payload
    /\ popover' = [popover EXCEPT !.queue = <<broadcast>>]
    /\ UNCHANGED <<now, last, request, notifier, broadcast>>

RunQueuedEntries ==
    /\ popover.queue # <<>>
    /\ popover' = [Applied(popover, Head(popover.queue)) EXCEPT !.queue = <<>>]
    /\ UNCHANGED <<now, last, request, notifier, broadcast>>

ClickPopover ==
    /\ popover.visible
    /\ popover' = [popover EXCEPT !.visible = FALSE]
    /\ UNCHANGED <<now, last, request, notifier, broadcast>>

NotifierRuns == HandleNotifRequest \/ HandleExpiry
PopoverRuns  == OpenPopover \/ PollNotifications \/ NotificationsSignal \/ RunQueuedEntries

NotificationsNext ==
    \/ NotifierRuns \/ PopoverRuns \/ ClickPopover
    \/ \E p \in Posters, t \in Titles, available \in BOOLEAN : Post(p, t, available)
    \/ \E live \in Lives : HandleConfig(live)

=============================================================================
