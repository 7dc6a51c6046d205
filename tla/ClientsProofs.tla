---------------------------- MODULE ClientsProofs ----------------------------
(***************************************************************************)
(* Proofs about the command line among the other clients of the daemons,   *)
(* for any command lines, packages and numbers of requests.                *)
(***************************************************************************)
EXTENDS Clients, TLAPS

-----------------------------------------------------------------------------
(* What vct asks for.                                                      *)

VctChannels == {"request", "config_request", LzChannel}

(* The operations that change something, and where vct asks for them. *)
Claims == {"install", "remove", "set"}

IsVctRequest(r) ==
    /\ r = [channel |-> r.channel, op |-> r.op, name |-> r.name, value |-> r.value]
    /\ r.channel \in VctChannels
    /\ r.op \in {"install", "remove", "explain"} => r.channel = "request"
    /\ r.op = "set" => r.channel = "config_request"

(* What is printed for an answer that is none reads as a failure. *)
FailsAloud(a, op) == \A o \in Rendered(a, op, FALSE) : ~o.ok

LEMMA FormKeepsOk ==
    ASSUME NEW o, NEW f, "ok" \in DOMAIN o
    PROVE  [o EXCEPT !.form = f].ok = o.ok /\ DOMAIN [o EXCEPT !.form = f] = DOMAIN o
OBVIOUS

LEMMA PostKeepsOk ==
    ASSUME NEW o, NEW t, "ok" \in DOMAIN o
    PROVE  [o EXCEPT !.post = t].ok = o.ok
OBVIOUS

LEMMA Printed ==
    ASSUME NEW a
    PROVE  /\ ~Text(FALSE).ok /\ ~Render(a, FALSE).ok
           /\ \A t : ~Post(Render(a, FALSE), t).ok
<1>1. "ok" \in DOMAIN Text(FALSE) /\ ~Text(FALSE).ok
  BY DEF Text, Out
<1>2. Render(a, FALSE).ok = Text(FALSE).ok /\ "ok" \in DOMAIN Render(a, FALSE)
  BY <1>1, FormKeepsOk DEF Render
<1>3. \A t : Post(Render(a, FALSE), t).ok = Render(a, FALSE).ok
  BY <1>2, PostKeepsOk DEF Post
<1> QED
  BY <1>1, <1>2, <1>3

LEMMA OneFailure ==
    ASSUME NEW a, NEW op, NEW o, Rendered(a, op, FALSE) = {o}, ~o.ok
    PROVE  FailsAloud(a, op)
BY DEF FailsAloud

LEMMA RequestsByCommand ==
    ASSUME NEW a
    PROVE  \/ Requests(a) = <<>>
           \/ /\ Command(a) = "install" /\ a.manual
              /\ Requests(a) = <<Pkg("explain", a.positional), Pkg("install", a.positional)>>
           \/ /\ Command(a) = "install" /\ ~a.manual
              /\ \E op \in {"explain", "install"} : Requests(a) = <<Pkg(op, a.positional)>>
           \/ /\ Command(a) \in {"remove", "launch", "list"}
              /\ \E n : Requests(a) = <<Pkg(Command(a), n)>>
           \/ /\ Command(a) \in {"config", "theme", "leitzentrale", "bake"}
              /\ \E op \in {"list", "get", "set"} : \E n, v : Requests(a) = <<Conf(op, n, v)>>
              /\ Command(a) = "leitzentrale" /\ a.positional = "status" =>
                    Requests(a)[1].op = "get"
           \/ /\ Command(a) = "leitzentrale"
              /\ \E op \in {"snapshot", "revert"} : Requests(a) = <<Lz(op)>>
<1>1. CASE Command(a) = "install"
  BY <1>1 DEF Requests, InstallRequests
<1>2. CASE Command(a) = "remove"
  BY <1>2 DEF Requests, RemoveRequests
<1>3. CASE Command(a) = "launch"
  BY <1>3 DEF Requests, LaunchRequests
<1>4. CASE Command(a) = "list"
  BY <1>4 DEF Requests, ListRequests
<1>5. CASE Command(a) = "config"
  BY <1>5 DEF Requests, ConfigRequests
<1>6. CASE Command(a) = "theme"
  BY <1>6 DEF Requests, ThemeRequests
<1>7. CASE Command(a) = "leitzentrale"
  BY <1>7 DEF Requests, LeitzentraleRequests, LzSync, Conf
<1>8. CASE Command(a) = "bake"
  BY <1>8 DEF Requests, BakeRequests
<1>9. CASE Command(a) \notin {"install", "remove", "launch", "list", "config", "theme",
                            "leitzentrale", "bake"}
  BY <1>9 DEF Requests
<1> QED
  BY <1>1, <1>2, <1>3, <1>4, <1>5, <1>6, <1>7, <1>8, <1>9

(* One request, or the two of an install that shows its plan first. *)
Single(a, r) ==
    /\ Requests(a) = <<r>> /\ IsVctRequest(r)
    /\ r.op = "install" => ~a.manual
    /\ r.op \in Claims => FailsAloud(a, r.op)

Planned(a) ==
    /\ Command(a) = "install"
    /\ Requests(a) = <<Pkg("explain", a.positional), Pkg("install", a.positional)>>
    /\ FailsAloud(a, "install")

LEMMA RequestForms ==
    ASSUME NEW a
    PROVE  \/ Requests(a) = <<>>
           \/ \E r : Single(a, r)
           \/ Planned(a)
<1>1. CASE /\ Command(a) = "install" /\ a.manual
           /\ Requests(a) = <<Pkg("explain", a.positional), Pkg("install", a.positional)>>
  <2>1. Rendered(a, "install", FALSE) = {Text(FALSE)}
    BY <1>1 DEF Rendered, RenderManual
  <2> QED
    BY <1>1, <2>1, Printed, OneFailure DEF Planned
<1>2. ASSUME Command(a) = "install", ~a.manual,
             NEW op \in {"explain", "install"}, Requests(a) = <<Pkg(op, a.positional)>>
      PROVE  \E r : Single(a, r)
  <2>1. Rendered(a, "install", FALSE) = {Render(a, FALSE)}
    BY <1>2 DEF Rendered, RenderInstall
  <2> DEFINE r == Pkg(op, a.positional)
  <2>2. Requests(a) = <<r>> /\ IsVctRequest(r) /\ r.op = op
    BY <1>2 DEF Pkg, IsVctRequest, VctChannels
  <2>3. FailsAloud(a, "install")
    BY <2>1, Printed, OneFailure
  <2>4. (r.op = "install" => ~a.manual) /\ (r.op \in Claims => FailsAloud(a, r.op))
    <3> HIDE DEF r
    <3> QED
      BY <1>2, <2>2, <2>3 DEF Claims
  <2> QED
    BY <2>2, <2>4 DEF Single
<1>3. ASSUME Command(a) \in {"remove", "launch", "list"},
             NEW n, Requests(a) = <<Pkg(Command(a), n)>>
      PROVE  \E r : Single(a, r)
  <2>1. Command(a) = "remove" => Rendered(a, "remove", FALSE) = {Render(a, FALSE)}
    BY DEF Rendered, RenderRemove
  <2> DEFINE r == Pkg(Command(a), n)
  <2>2. Requests(a) = <<r>> /\ IsVctRequest(r) /\ r.op = Command(a)
    BY <1>3 DEF Pkg, IsVctRequest, VctChannels
  <2>3. Command(a) = "remove" => FailsAloud(a, "remove")
    BY <2>1, Printed, OneFailure
  <2>4. (r.op = "install" => ~a.manual) /\ (r.op \in Claims => FailsAloud(a, r.op))
    <3> HIDE DEF r
    <3> QED
      BY <1>3, <2>2, <2>3 DEF Claims
  <2> QED
    BY <2>2, <2>4 DEF Single
<1>4. ASSUME Command(a) \in {"config", "theme", "leitzentrale", "bake"},
             Command(a) = "leitzentrale" /\ a.positional = "status" => Requests(a)[1].op = "get",
             NEW op \in {"list", "get", "set"}, NEW n, NEW v, Requests(a) = <<Conf(op, n, v)>>
      PROVE  \E r : Single(a, r)
  <2>1. op = "set" => Rendered(a, "set", FALSE) = {Render(a, FALSE)}
    <3>1. op = "set" => ~(Command(a) = "leitzentrale" /\ a.positional = "status")
      BY <1>4 DEF Conf
    <3> QED
      BY <1>4, <3>1 DEF Rendered, RenderConfigValue, RenderTheme, RenderLeitzentrale,
                        RenderBakeReset
  <2> DEFINE r == Conf(op, n, v)
  <2>2. Requests(a) = <<r>> /\ IsVctRequest(r) /\ r.op = op
    BY <1>4 DEF Conf, IsVctRequest, VctChannels
  <2>3. op = "set" => FailsAloud(a, "set")
    BY <2>1, Printed, OneFailure
  <2>4. (r.op = "install" => ~a.manual) /\ (r.op \in Claims => FailsAloud(a, r.op))
    <3> HIDE DEF r
    <3> QED
      BY <1>4, <2>2, <2>3 DEF Claims
  <2> QED
    BY <2>2, <2>4 DEF Single
<1>5. ASSUME NEW op \in {"snapshot", "revert"}, Requests(a) = <<Lz(op)>>
      PROVE  \E r : Single(a, r)
  <2> DEFINE r == Lz(op)
  <2>1. /\ Requests(a) = <<r>> /\ IsVctRequest(r)
        /\ r.op # "install" /\ r.op \notin Claims
    BY <1>5 DEF IsVctRequest, Lz, Claims, VctChannels
  <2> QED
    BY <2>1 DEF Single
<1> QED
  BY <1>1, <1>2, <1>3, <1>4, <1>5, RequestsByCommand

-----------------------------------------------------------------------------
(* The channels.                                                           *)

(* What ClaimIsTrue says of one request; of an install it is said of the   *)
(* roots, which nothing but a request for the same package changes.        *)
SetHolds(name, value) ==
    IF name = Reset THEN \A k \in DOMAIN Baked \ Slots : HasValue(k, Baked[k])
    ELSE name \in Misplaced \/ HasValue(name, value)

HoldsFor(op, name, value) ==
    /\ op = "install" => name \in roots \/ AskedElsewhere("remove", name)
    /\ op = "remove" => name \notin roots \/ AskedElsewhere("install", name)
    /\ op = "set" => SetHolds(name, value)

(* A report lies in the slot of its own channel; a channel that is to be   *)
(* read has one.                                                           *)
MailInv ==
    /\ \E S : made \in Seq(S)
    /\ mail \in [AllChannels -> 0..Len(made)]
    /\ \A c \in AllChannels : mail[c] # 0 => made[mail[c]].channel = c
    /\ \A c \in unread : c \in AllChannels /\ mail[c] # 0

(* The answer pkgd would replay is still so, for nothing has been changed  *)
(* since.                                                                  *)
LastInv ==
    /\ lastAnswer.status # "" => lastAnswer.asked # 0
    /\ lastAnswer.status = "ok" /\ lastAnswer.op = "install" => lastAnswer.name \in roots
    /\ lastAnswer.status = "ok" /\ lastAnswer.op = "remove" => lastAnswer.name \notin roots
    /\ roots \subseteq Packages

(* An answer on a channel of vct is still so, or another client asked for  *)
(* a change.                                                               *)
AnswerInv ==
    /\ DOMAIN answer = AllChannels
    /\ \A c \in AllChannels : answer[c].status # "" => answer[c].asked # 0
    /\ LET a == answer["request"]
       IN  a.status = "ok" /\ a.op \in {"install", "remove"} => HoldsFor(a.op, a.name, a.value)
    /\ LET a == answer["config_request"]
       IN  a.status = "ok" /\ a.op = "set" => a.value # NoValue /\ HoldsFor("set", a.name, a.value)

ChannelInv == MailInv /\ LastInv /\ AnswerInv

(* Between two states nothing that vct was told of has been undone. *)
NothingUndone ==
    \A op, name, value : HoldsFor(op, name, value) => HoldsFor(op, name, value)'

LEMMA Appended ==
    ASSUME NEW S, NEW s \in Seq(S), NEW r
    PROVE  /\ Append(s, r) \in Seq(S \union {r})
           /\ Len(s) \in Nat
           /\ Len(Append(s, r)) = Len(s) + 1
           /\ \A n \in 1..Len(s) : Append(s, r)[n] = s[n]
           /\ Append(s, r)[Len(s) + 1] = r
<1>1. s \in Seq(S \union {r})
  OBVIOUS
<1> QED
  BY <1>1

(* What is written is there, and nothing else has changed. *)
LEMMA WrittenStore ==
    ASSUME NEW f, store' = Written(f)
    PROVE  /\ \A k \in DOMAIN f : k \in DOMAIN store' /\ store'[k] = f[k]
           /\ \A k \in DOMAIN store \ DOMAIN f : k \in DOMAIN store' /\ store'[k] = store[k]
BY DEF Written

(* The two things a set may write. *)
LEMMA SetForms ==
    ASSUME NEW k, NEW v, NEW st \in StoredBySet(k, v)
    PROVE  \E f : /\ st = Written(f)
                  /\ \/ /\ k = Reset /\ DOMAIN Baked \ Slots \subseteq DOMAIN f
                        /\ \A b \in DOMAIN f : b \in DOMAIN Baked /\ f[b] = Baked[b]
                     \/ /\ k # Reset
                        /\ DOMAIN f = {k} /\ f[k] = v
                     \/ /\ k # Reset /\ k \in Misplaced
                        /\ DOMAIN f \subseteq Slots
<1>1. CASE k = Reset
  <2>1. PICK D \in SUBSET DOMAIN Baked : /\ DOMAIN Baked \ Slots \subseteq D
                                         /\ st = Written([b \in D |-> Baked[b]])
    BY <1>1 DEF StoredBySet
  <2> WITNESS [b \in D |-> Baked[b]]
  <2> QED
    BY <1>1, <2>1
<1>2. CASE k # Reset
  <2>1. PICK w \in {k} \union (IF k \in Misplaced THEN Slots ELSE {}) :
            st = Written([b \in {w} |-> v])
    BY <1>2 DEF StoredBySet
  <2> WITNESS [b \in {w} |-> v]
  <2> QED
    BY <1>2, <2>1
<1> QED
  BY <1>1, <1>2

(* A set does what its answer says.  *)
LEMMA SetStores ==
    ASSUME NEW k, NEW v, NEW st \in StoredBySet(k, v), store' = st
    PROVE  SetHolds(k, v)'
<1>1. PICK f : /\ st = Written(f)
               /\ \/ /\ k = Reset /\ DOMAIN Baked \ Slots \subseteq DOMAIN f
                     /\ \A b \in DOMAIN f : b \in DOMAIN Baked /\ f[b] = Baked[b]
                  \/ /\ k # Reset
                     /\ DOMAIN f = {k} /\ f[k] = v
                  \/ /\ k # Reset /\ k \in Misplaced
                     /\ DOMAIN f \subseteq Slots
  BY SetForms
<1>2. \A b \in DOMAIN f : b \in DOMAIN store' /\ store'[b] = f[b]
  BY <1>1, WrittenStore
<1> QED
  BY <1>1, <1>2 DEF SetHolds, HasValue

(* Whatever leaves the store, or changes it for another client, leaves the *)
(* claims about the store.                                                 *)
LEMMA StoreKept ==
    ASSUME store' = store, \A op, name : AskedElsewhere(op, name) => AskedElsewhere(op, name)'
    PROVE  \A name, value : SetHolds(name, value) => SetHolds(name, value)'
<1>1. \A name : SetElsewhere(name) => SetElsewhere(name)'
  BY DEF SetElsewhere
<1>2. \A name, value : HasValue(name, value) => HasValue(name, value)'
  BY <1>1 DEF HasValue
<1> QED
  BY <1>2 DEF SetHolds

LEMMA StoredElsewhere ==
    ASSUME NEW k, NEW v, store' \in StoredBySet(k, v), AskedElsewhere("set", k)',
           \A op, name : AskedElsewhere(op, name) => AskedElsewhere(op, name)'
    PROVE  \A name, value : SetHolds(name, value) => SetHolds(name, value)'
<1>1. PICK f : /\ store' = Written(f)
               /\ \/ /\ k = Reset /\ DOMAIN Baked \ Slots \subseteq DOMAIN f
                     /\ \A b \in DOMAIN f : b \in DOMAIN Baked /\ f[b] = Baked[b]
                  \/ /\ k # Reset
                     /\ DOMAIN f = {k} /\ f[k] = v
                  \/ /\ k # Reset /\ k \in Misplaced
                     /\ DOMAIN f \subseteq Slots
  BY SetForms
<1>2. \A name \in DOMAIN f : SetElsewhere(name)'
  BY <1>1 DEF SetElsewhere
<1>3. \A name : SetElsewhere(name) => SetElsewhere(name)'
  BY DEF SetElsewhere
<1>4. \A name \in DOMAIN store \ DOMAIN f : name \in DOMAIN store' /\ store'[name] = store[name]
  BY <1>1, WrittenStore
<1>5. \A name, value : HasValue(name, value) => HasValue(name, value)'
  BY <1>2, <1>3, <1>4 DEF HasValue
<1> QED
  BY <1>5 DEF SetHolds

(* A request that is made leaves what was made before, and what was said   *)
(* of it, as it is.                                                        *)
LEMMA Published ==
    ASSUME ChannelInv, NEW c \in AllChannels, NEW op, NEW name, NEW value,
           Publish(c, op, name, value)
    PROVE  /\ ChannelInv' /\ NothingUndone
           /\ Len(made) \in Nat /\ Len(made') = Len(made) + 1
           /\ \A n \in 1..Len(made) : made'[n] = made[n]
           /\ made'[Len(made')] = [channel |-> c, op |-> op, name |-> name, value |-> value]
           /\ mail'[c] = Len(made')
           /\ \A d \in AllChannels \ {c} : mail'[d] = mail[d]
<1> DEFINE r == [channel |-> c, op |-> op, name |-> name, value |-> value]
<1>1. PICK S : made \in Seq(S)
  BY DEF ChannelInv, MailInv
<1>2. made' = Append(made, r)
  BY DEF Publish
<1>3. r.channel = c
  OBVIOUS
<1> HIDE DEF r
<1>4. /\ made' \in Seq(S \union {r}) /\ Len(made) \in Nat /\ Len(made') = Len(made) + 1
      /\ \A n \in 1..Len(made) : made'[n] = made[n]
      /\ made'[Len(made')] = r
  BY <1>1, <1>2, Appended
<1>5. mail' = [mail EXCEPT ![c] = Len(made')] /\ unread' = unread \union {c}
  BY DEF Publish
<1>6. mail \in [AllChannels -> 0..Len(made)]
  BY DEF ChannelInv, MailInv
<1>7. mail' \in [AllChannels -> 0..Len(made')]
  BY <1>4, <1>5, <1>6
<1>8. mail'[c] = Len(made') /\ \A d \in AllChannels \ {c} : mail'[d] = mail[d]
  BY <1>5, <1>6
<1>9. \A d \in AllChannels : mail'[d] # 0 => made'[mail'[d]].channel = d
  BY <1>3, <1>4, <1>6, <1>8 DEF ChannelInv, MailInv
<1>10. \A d \in unread' : d \in AllChannels /\ mail'[d] # 0
  BY <1>4, <1>5, <1>8 DEF ChannelInv, MailInv
<1>11. MailInv'
  BY <1>4, <1>7, <1>9, <1>10 DEF MailInv
<1>12. NothingUndone
  <2>1. \A o, n : AskedElsewhere(o, n) => AskedElsewhere(o, n)'
    BY <1>4 DEF AskedElsewhere
  <2>2. store' = store /\ roots' = roots
    BY DEF Publish, daemonVars
  <2> QED
    BY <2>1, <2>2, StoreKept DEF NothingUndone, HoldsFor
<1>13. LastInv' /\ AnswerInv'
  <2>1. answer' = answer /\ lastAnswer' = lastAnswer /\ roots' = roots
    BY DEF Publish, daemonVars
  <2> QED
    BY <1>12, <2>1 DEF ChannelInv, LastInv, AnswerInv, NothingUndone
<1> QED
  BY <1>4, <1>8, <1>11, <1>12, <1>13 DEF ChannelInv, r

(* What pkgd may make of a request changes at most the root it names, and  *)
(* an "ok" is true of it.                                                  *)
LEMMA Outcomes ==
    ASSUME NEW req, NEW o \in PkgdOutcomes(req)
    PROVE  /\ \/ o.roots = roots
              \/ req.op = "install" /\ req.name \in Packages /\ o.roots = roots \union {req.name}
              \/ req.op = "remove" /\ o.roots = roots \ {req.name}
           /\ o.status = "ok" /\ req.op = "install" => o.name \in o.roots
           /\ o.status = "ok" /\ req.op = "remove" => o.name \notin o.roots
<1> DEFINE p == req.name
           Same(status) == OutcomeFor(p, status, roots, running)
<1>1. ASSUME NEW n, NEW st, NEW i, NEW r
      PROVE  /\ OutcomeFor(n, st, i, r).name = n /\ OutcomeFor(n, st, i, r).status = st
             /\ OutcomeFor(n, st, i, r).roots = i
  BY DEF OutcomeFor
<1>2. CASE req.op = "list"
  <2>1. o = Same("ok")
    BY <1>2 DEF PkgdOutcomes
  <2> QED
    BY <1>1, <1>2, <2>1
<1>3. CASE req.op # "list" /\ p = ""
  <2>1. o = Same("error")
    BY <1>3 DEF PkgdOutcomes
  <2> QED
    BY <1>1, <2>1
<1>4. CASE req.op = "explain" /\ p # ""
  <2>1. o = Same("ok") \/ o = Same("error")
    BY <1>4 DEF PkgdOutcomes
  <2>2. o.roots = roots
    BY <1>1, <2>1
  <2> QED
    BY <1>4, <2>2
<1>5. CASE req.op = "install" /\ p # ""
  <2> DEFINE done == OutcomeFor(p, "ok", roots \union {p}, RunningWith(roots \union {p}))
  <2>1. \/ p \in Packages /\ o = done
        \/ o = Same("error")
        \/ \E d \in Packages : o = OutcomeFor(d, "insufficient-resources", roots, running)
    BY <1>5, ChannelsAssumption DEF PkgdOutcomes
  <2>2. CASE p \in Packages /\ o = done
    <3>1. o.name = p /\ o.roots = roots \union {p}
      BY <1>1, <2>2
    <3> QED
      BY <1>5, <2>2, <3>1
  <2>3. CASE ~(p \in Packages /\ o = done)
    <3>1. o.status # "ok" /\ o.roots = roots
      BY <1>1, <2>1, <2>3
    <3> QED
      BY <3>1
  <2> QED
    BY <2>2, <2>3
<1>6. CASE req.op = "remove" /\ p # ""
  <2> DEFINE done == OutcomeFor(p, "ok", roots \ {p}, RunningWith(roots \ {p}))
  <2>1. o = done \/ o = Same("error")
    BY <1>6 DEF PkgdOutcomes
  <2>2. CASE o = done
    <3>1. o.name = p /\ o.roots = roots \ {p}
      BY <1>1, <2>2
    <3> QED
      BY <1>6, <3>1
  <2>3. CASE o = Same("error")
    <3>1. o.status # "ok" /\ o.roots = roots
      BY <1>1, <2>3
    <3> QED
      BY <3>1
  <2> QED
    BY <2>1, <2>2, <2>3
<1>7. CASE req.op = "launch" /\ p # ""
  <2>1. \E st, r : o = OutcomeFor(p, st, roots, r)
    BY <1>7 DEF PkgdOutcomes
  <2>2. o.roots = roots
    BY <1>1, <2>1
  <2> QED
    BY <1>7, <2>2
<1>8. CASE req.op \notin {"list", "explain", "install", "remove", "launch"} /\ p # ""
  <2>1. o = Same("error")
    BY <1>8 DEF PkgdOutcomes
  <2> QED
    BY <1>1, <2>1
<1> QED
  BY <1>2, <1>3, <1>4, <1>5, <1>6, <1>7, <1>8

(* What configd may make of a request changes the store for a set only. *)
LEMMA Replies ==
    ASSUME NEW req, NEW o \in ConfigdOutcomes(req)
    PROVE  \/ o.store = store /\ (req.op = "set" => o.status # "ok")
           \/ /\ req.op = "set" /\ o.status = "ok"
              /\ o.value = req.value /\ o.value # NoValue
              /\ o.store \in StoredBySet(req.name, req.value)
<1>1. ASSUME NEW s, NEW v, NEW st
      PROVE  /\ ConfigdSays(s, v, st).status = s /\ ConfigdSays(s, v, st).value = v
             /\ ConfigdSays(s, v, st).store = st
  BY DEF ConfigdSays
<1>2. Refused.store = store /\ Refused.status # "ok"
  BY <1>1 DEF Refused
<1>3. CASE req.op = "set"
  <2>1. o = Refused \/ \E st \in StoredBySet(req.name, req.value) :
                            o = ConfigdSays("ok", req.value, st)
    BY <1>3 DEF ConfigdOutcomes
  <2>2. ASSUME NEW st \in StoredBySet(req.name, req.value)
        PROVE  req.value # NoValue
    BY <2>2 DEF StoredBySet, Rejected, NoValue
  <2> QED
    BY <1>1, <1>2, <1>3, <2>1, <2>2
<1>4. CASE req.op # "set"
  <2>1. o = Refused \/ \E v : o = ConfigdSays("ok", v, store)
    <3>1. CASE req.op = "list"
      BY <3>1 DEF ConfigdOutcomes
    <3>2. CASE req.op = "get"
      BY <3>2 DEF ConfigdOutcomes
    <3>3. CASE req.op \notin {"list", "get", "set"}
      BY <3>3 DEF ConfigdOutcomes
    <3> QED
      BY <1>4, <3>1, <3>2, <3>3
  <2>2. o.store = store
    BY <1>1, <1>2, <2>1
  <2> QED
    BY <1>4, <2>2
<1> QED
  BY <1>3, <1>4

(* What a daemon does for another client was asked for elsewhere; what it  *)
(* does for vct is undone by a request of vct only that says otherwise.    *)
LEMMA PkgdHandled ==
    ASSUME ChannelInv, NEW c \in AllChannels, PkgdHandles(c)
    PROVE  /\ ChannelInv'
           /\ \A op, name, value :
                 /\ HoldsFor(op, name, value)
                 /\ op = "set" \/ c # "request"
                    \/ (made[mail[c]].op = op /\ made[mail[c]].name = name)
                 => HoldsFor(op, name, value)'
<1> DEFINE req == made[mail[c]]
<1>1. /\ c \in unread /\ c \in {"request", "launcher_request", "tty_request"}
      /\ made' = made /\ mail' = mail /\ store' = store /\ unread' = unread \ {c}
  BY DEF PkgdHandles, PkgdChannels
<1>2. /\ Len(made) \in Nat /\ mail[c] \in 1..Len(made) /\ req.channel = c
      /\ DOMAIN answer = AllChannels
  <2>1. Len(made) \in Nat
    <3>1. PICK S : made \in Seq(S)
      BY DEF ChannelInv, MailInv
    <3> QED
      BY <3>1
  <2>2. mail[c] # 0 /\ mail[c] \in 0..Len(made)
    BY <1>1 DEF ChannelInv, MailInv
  <2>3. req.channel = c
    BY <2>2 DEF ChannelInv, MailInv
  <2>4. DOMAIN answer = AllChannels
    BY DEF ChannelInv, AnswerInv
  <2> QED
    BY <2>1, <2>2, <2>3, <2>4
<1>3. \A o, n : AskedElsewhere(o, n)' <=> AskedElsewhere(o, n)
  BY <1>1 DEF AskedElsewhere
<1>4. /\ \/ roots' = roots
         \/ req.op = "install" /\ req.name \in Packages /\ roots' = roots \union {req.name}
         \/ req.op = "remove" /\ roots' = roots \ {req.name}
      /\ LastInv' /\ answer' = [answer EXCEPT ![c] = lastAnswer']
  <2>1. CASE Sig(req) = lastSig["pkgd"]
    <3>1. /\ lastAnswer' = lastAnswer /\ roots' = roots
          /\ answer' = [answer EXCEPT ![c] = lastAnswer]
      BY <2>1 DEF PkgdHandles
    <3> QED
      BY <3>1 DEF ChannelInv, LastInv
  <2>2. CASE Sig(req) # lastSig["pkgd"]
    <3>1. PICK o \in PkgdOutcomes(req) :
             /\ lastAnswer' = [op |-> req.op, name |-> o.name, value |-> NoValue,
                               status |-> o.status, asked |-> mail[c]]
             /\ answer' = [answer EXCEPT ![c] = lastAnswer']
             /\ roots' = o.roots
      BY <2>2 DEF PkgdHandles
    <3>2. /\ lastAnswer'.op = req.op /\ lastAnswer'.name = o.name
          /\ lastAnswer'.status = o.status /\ lastAnswer'.asked = mail[c]
      BY <3>1
    <3> HIDE DEF req
    <3>3. /\ \/ o.roots = roots
             \/ req.op = "install" /\ req.name \in Packages /\ o.roots = roots \union {req.name}
             \/ req.op = "remove" /\ o.roots = roots \ {req.name}
          /\ o.status = "ok" /\ req.op = "install" => o.name \in o.roots
          /\ o.status = "ok" /\ req.op = "remove" => o.name \notin o.roots
      BY <3>1, Outcomes
    <3>4. lastAnswer'.asked # 0
      BY <1>2, <3>2
    <3>5. LastInv'
      BY <3>1, <3>2, <3>3, <3>4 DEF LastInv, ChannelInv
    <3> QED
      BY <3>1, <3>3, <3>5
  <2> QED
    BY <2>1, <2>2
<1>5. c # "request" => AskedElsewhere(req.op, req.name)
  BY <1>1, <1>2 DEF AskedElsewhere
<1>6. ASSUME NEW op, NEW name, NEW value, HoldsFor(op, name, value),
             op = "set" \/ c # "request" \/ (req.op = op /\ req.name = name)
      PROVE  HoldsFor(op, name, value)'
  <2>1. op = "install" => HoldsFor(op, name, value)'
    BY <1>3, <1>4, <1>5, <1>6 DEF HoldsFor
  <2>2. op = "remove" => HoldsFor(op, name, value)'
    BY <1>3, <1>4, <1>5, <1>6 DEF HoldsFor
  <2>3. op = "set" => HoldsFor(op, name, value)'
    BY <1>1, <1>3, <1>6, StoreKept DEF HoldsFor
  <2> QED
    BY <2>1, <2>2, <2>3 DEF HoldsFor
<1>7. MailInv'
  BY <1>1 DEF ChannelInv, MailInv
<1>8. answer'[c] = lastAnswer' /\ \A d \in AllChannels \ {c} : answer'[d] = answer[d]
  BY <1>2, <1>4
<1>9. AnswerInv'
  <2>1. DOMAIN answer' = AllChannels
    BY <1>2, <1>4
  <2>2. \A d \in AllChannels : answer'[d].status # "" => answer'[d].asked # 0
    BY <1>4, <1>8 DEF LastInv, ChannelInv, AnswerInv
  <2>3. ASSUME answer'["config_request"].status = "ok", answer'["config_request"].op = "set"
        PROVE  /\ answer'["config_request"].value # NoValue
               /\ HoldsFor("set", answer["config_request"].name, answer["config_request"].value)'
               /\ answer'["config_request"] = answer["config_request"]
    <3>1. answer'["config_request"] = answer["config_request"]
      BY <1>1, <1>8 DEF AllChannels, ConfigdChannels
    <3> QED
      BY <1>6, <2>3, <3>1 DEF ChannelInv, AnswerInv
  <2>4. CASE c = "request"
    <3>1. answer'["request"] = lastAnswer'
      BY <1>8, <2>4
    <3>2. (lastAnswer.status = "ok" /\ lastAnswer.op \in {"install", "remove"}
             => HoldsFor(lastAnswer.op, lastAnswer.name, lastAnswer.value))'
      <4>1. LastInv'
        BY <1>4
      <4> QED
        BY <4>1 DEF LastInv, HoldsFor
    <3> QED
      BY <2>1, <2>2, <2>3, <3>1, <3>2 DEF AnswerInv
  <2>5. CASE c # "request"
    <3>1. answer'["request"] = answer["request"]
      BY <1>8, <2>5 DEF AllChannels, PkgdChannels
    <3>2. ASSUME NEW op \in {"install", "remove"}, NEW name, NEW value,
                 answer["request"].status = "ok", answer["request"].op = op,
                 answer["request"].name = name, answer["request"].value = value
          PROVE  HoldsFor(op, name, value)'
      <4>1. HoldsFor(op, name, value)
        BY <3>2 DEF ChannelInv, AnswerInv
      <4> QED
        BY <1>6, <2>5, <4>1
    <3>3. (answer["request"].status = "ok" /\ answer["request"].op \in {"install", "remove"}
             => HoldsFor(answer["request"].op, answer["request"].name, answer["request"].value))'
      BY <3>1, <3>2
    <3> QED
      BY <2>1, <2>2, <2>3, <3>3 DEF AnswerInv
  <2> QED
    BY <2>4, <2>5
<1> QED
  BY <1>4, <1>6, <1>7, <1>9 DEF ChannelInv

LEMMA ConfigdHandled ==
    ASSUME ChannelInv, NEW c \in AllChannels, ConfigdHandles(c)
    PROVE  /\ ChannelInv'
           /\ \A op, name, value :
                 /\ HoldsFor(op, name, value)
                 /\ op # "set" \/ c # "config_request"
                    \/ Sig(made[mail[c]]) = <<op, name, value>>
                 => HoldsFor(op, name, value)'
<1> DEFINE req == made[mail[c]]
<1>1. /\ c \in unread /\ c \in {"config_request", "de_config_request"}
      /\ made' = made /\ mail' = mail /\ unread' = unread \ {c}
      /\ lastAnswer' = lastAnswer /\ roots' = roots
  BY DEF ConfigdHandles, ConfigdChannels
<1>2. /\ Len(made) \in Nat /\ mail[c] \in 1..Len(made) /\ req.channel = c
      /\ DOMAIN answer = AllChannels
  <2>1. Len(made) \in Nat
    <3>1. PICK S : made \in Seq(S)
      BY DEF ChannelInv, MailInv
    <3> QED
      BY <3>1
  <2>2. mail[c] # 0 /\ mail[c] \in 0..Len(made)
    BY <1>1 DEF ChannelInv, MailInv
  <2>3. req.channel = c
    BY <2>2 DEF ChannelInv, MailInv
  <2>4. DOMAIN answer = AllChannels
    BY DEF ChannelInv, AnswerInv
  <2> QED
    BY <2>1, <2>2, <2>3, <2>4
<1>3. \A o, n : AskedElsewhere(o, n)' <=> AskedElsewhere(o, n)
  BY <1>1 DEF AskedElsewhere
<1>4. \/ answer' = answer /\ store' = store
      \/ \E o \in ConfigdOutcomes(req) :
            /\ answer' = [answer EXCEPT ![c] =
                   [op |-> req.op, name |-> req.name, value |-> o.value,
                    status |-> o.status, asked |-> mail[c]]]
            /\ store' = o.store
  BY DEF ConfigdHandles
<1>9. Sig(req) = <<req.op, req.name, req.value>>
  BY DEF Sig
<1> HIDE DEF req
<1>5. \/ answer' = answer /\ store' = store
      \/ \E ans :
            /\ answer' = [answer EXCEPT ![c] = ans] /\ ans.asked = mail[c]
            /\ ans.op = req.op /\ ans.name = req.name
            /\ \/ store' = store /\ (ans.op = "set" => ans.status # "ok")
               \/ /\ req.op = "set" /\ ans.value = req.value /\ ans.value # NoValue
                  /\ store' \in StoredBySet(req.name, req.value)
  <2>1. ASSUME NEW o \in ConfigdOutcomes(req),
               answer' = [answer EXCEPT ![c] =
                   [op |-> req.op, name |-> req.name, value |-> o.value,
                    status |-> o.status, asked |-> mail[c]]],
               store' = o.store
        PROVE  \E ans :
            /\ answer' = [answer EXCEPT ![c] = ans] /\ ans.asked = mail[c]
            /\ ans.op = req.op /\ ans.name = req.name
            /\ \/ store' = store /\ (ans.op = "set" => ans.status # "ok")
               \/ /\ req.op = "set" /\ ans.value = req.value /\ ans.value # NoValue
                  /\ store' \in StoredBySet(req.name, req.value)
    <3>1. \/ o.store = store /\ (req.op = "set" => o.status # "ok")
          \/ /\ req.op = "set" /\ o.status = "ok"
             /\ o.value = req.value /\ o.value # NoValue
             /\ o.store \in StoredBySet(req.name, req.value)
      BY Replies
    <3> WITNESS [op |-> req.op, name |-> req.name, value |-> o.value,
                 status |-> o.status, asked |-> mail[c]]
    <3> QED
      BY <2>1, <3>1
  <2> QED
    BY <1>4, <2>1
<1>6. store' = store \/ (req.op = "set" /\ store' \in StoredBySet(req.name, req.value))
  BY <1>5
<1>10. c # "config_request" => AskedElsewhere(req.op, req.name)
  BY <1>1, <1>2 DEF AskedElsewhere, req
<1>11. ASSUME NEW op, NEW name, NEW value, HoldsFor(op, name, value),
              op # "set" \/ c # "config_request" \/ Sig(req) = <<op, name, value>>
       PROVE  HoldsFor(op, name, value)'
  <2>1. op = "install" => HoldsFor(op, name, value)'
    BY <1>1, <1>3, <1>11 DEF HoldsFor
  <2>2. op = "remove" => HoldsFor(op, name, value)'
    BY <1>1, <1>3, <1>11 DEF HoldsFor
  <2>3. ASSUME op = "set" PROVE SetHolds(name, value)'
    <3>1. SetHolds(name, value)
      BY <1>11, <2>3 DEF HoldsFor
    <3>2. CASE store' = store
      BY <1>3, <3>1, <3>2, StoreKept
    <3>3. CASE /\ req.op = "set" /\ store' \in StoredBySet(req.name, req.value)
               /\ c = "config_request"
      <4>1. req.name = name /\ req.value = value
        BY <1>9, <1>11, <2>3, <3>3
      <4> QED
        BY <3>3, <4>1, SetStores
    <3>4. CASE /\ req.op = "set" /\ store' \in StoredBySet(req.name, req.value)
               /\ c # "config_request"
      <4>1. PICK k, v : k = req.name /\ v = req.value
        OBVIOUS
      <4>2. AskedElsewhere("set", k)
        BY <1>10, <3>4, <4>1
      <4>3. AskedElsewhere("set", k)'
        BY <1>3, <4>2
      <4>4. store' \in StoredBySet(k, v)
        BY <3>4, <4>1
      <4> QED
        BY <1>3, <3>1, <4>3, <4>4, StoredElsewhere
    <3> QED
      BY <1>6, <3>2, <3>3, <3>4
  <2> QED
    BY <2>1, <2>2, <2>3 DEF HoldsFor
<1>12. MailInv' /\ LastInv'
  BY <1>1 DEF ChannelInv, MailInv, LastInv
<1>13. \A d \in AllChannels \ {c} : answer'[d] = answer[d]
  BY <1>2, <1>5
<1>14. DOMAIN answer' = AllChannels
  BY <1>2, <1>5
<1>15. \/ answer'[c] = answer[c] /\ store' = store
       \/ /\ answer'[c].asked = mail[c]
          /\ answer'[c].op = req.op /\ answer'[c].name = req.name
          /\ \/ store' = store /\ (answer'[c].op = "set" => answer'[c].status # "ok")
             \/ /\ req.op = "set"
                /\ answer'[c].value = req.value /\ answer'[c].value # NoValue
                /\ store' \in StoredBySet(req.name, req.value)
  BY <1>2, <1>5
<1>16. \A d \in AllChannels : answer'[d].status # "" => answer'[d].asked # 0
  <2>1. mail[c] # 0
    BY <1>2
  <2> QED
    BY <1>13, <1>15, <2>1 DEF ChannelInv, AnswerInv
<1>17. (answer["request"].status = "ok" /\ answer["request"].op \in {"install", "remove"}
          => HoldsFor(answer["request"].op, answer["request"].name, answer["request"].value))'
  <2>1. answer'["request"] = answer["request"]
    BY <1>1, <1>13 DEF AllChannels, PkgdChannels
  <2>2. ASSUME NEW op \in {"install", "remove"}, NEW name, NEW value,
               answer["request"].status = "ok", answer["request"].op = op,
               answer["request"].name = name, answer["request"].value = value
        PROVE  HoldsFor(op, name, value)'
    <3>1. HoldsFor(op, name, value)
      BY <2>2 DEF ChannelInv, AnswerInv
    <3> QED
      BY <1>11, <3>1
  <2> QED
    BY <2>1, <2>2
<1>18. (answer["config_request"].status = "ok" /\ answer["config_request"].op = "set"
          => /\ answer["config_request"].value # NoValue
             /\ HoldsFor("set", answer["config_request"].name, answer["config_request"].value))'
  <2>1. CASE answer'["config_request"] = answer["config_request"]
             /\ (store' = store \/ c # "config_request")
    <3>1. ASSUME NEW name, NEW value, HoldsFor("set", name, value)
          PROVE  HoldsFor("set", name, value)'
      <4>1. CASE store' = store
        BY <1>3, <3>1, <4>1, StoreKept DEF HoldsFor
      <4>2. CASE c # "config_request"
        BY <1>11, <3>1, <4>2
      <4> QED
        BY <2>1, <4>1, <4>2
    <3>2. ASSUME NEW name, NEW value,
                 answer["config_request"].status = "ok", answer["config_request"].op = "set",
                 answer["config_request"].name = name, answer["config_request"].value = value
          PROVE  value # NoValue /\ HoldsFor("set", name, value)'
      <4>1. value # NoValue /\ HoldsFor("set", name, value)
        BY <3>2 DEF ChannelInv, AnswerInv
      <4> QED
        BY <3>1, <4>1
    <3> QED
      BY <2>1, <3>2
  <2>2. CASE c = "config_request" /\ ~(answer'[c] = answer[c] /\ store' = store)
    <3>1. ASSUME answer'[c].status = "ok", answer'[c].op = "set"
          PROVE  answer'[c].value # NoValue /\ SetHolds(answer[c].name, answer[c].value)'
      <4>1. /\ answer'[c].name = req.name /\ answer'[c].value = req.value
            /\ answer'[c].value # NoValue /\ store' \in StoredBySet(req.name, req.value)
        BY <1>15, <2>2, <3>1
      <4>2. ASSUME NEW name, NEW value, name = req.name, value = req.value
            PROVE  SetHolds(name, value)'
        BY <4>1, <4>2, SetStores
      <4>3. SetHolds(answer[c].name, answer[c].value)'
        BY <4>1, <4>2
      <4> QED
        BY <4>1, <4>3
    <3> QED
      BY <2>2, <3>1 DEF HoldsFor
  <2> QED
    BY <1>1, <1>13, <2>1, <2>2 DEF AllChannels, ConfigdChannels
<1>19. AnswerInv'
  BY <1>14, <1>16, <1>17, <1>18 DEF AnswerInv
<1> QED
  BY <1>11, <1>12, <1>19 DEF ChannelInv, req

LEMMA NothingChanged ==
    ASSUME made' = made, roots' = roots, store' = store
    PROVE  NothingUndone
<1>1. \A op, name : AskedElsewhere(op, name)' <=> AskedElsewhere(op, name)
  BY DEF AskedElsewhere
<1> QED
  BY <1>1, StoreKept DEF NothingUndone, HoldsFor

(* lz_watch answers on its own channel only. *)
LEMMA LzWatched ==
    ASSUME ChannelInv, LzRound
    PROVE  /\ ChannelInv' /\ NothingUndone
           /\ made' = made /\ mail' = mail /\ vct' = vct
<1>1. /\ made' = made /\ mail' = mail /\ vct' = vct /\ unread' = unread \ {LzChannel}
      /\ store' = store /\ roots' = roots /\ lastAnswer' = lastAnswer
  BY DEF LzRound, daemonVars
<1>2. NothingUndone
  BY <1>1, NothingChanged
<1>3. MailInv' /\ LastInv'
  BY <1>1 DEF ChannelInv, MailInv, LastInv
<1> DEFINE op == IF mail[LzChannel] = 0 THEN "" ELSE made[mail[LzChannel]].op
           ans == [op |-> op, name |-> "", value |-> NoValue, status |-> "ok",
                   asked |-> mail[LzChannel]]
<1>4. answer' = answer \/ (op # "" /\ answer' = [answer EXCEPT ![LzChannel] = ans])
  BY DEF LzRound, LzAnswers
<1>5. op # "" => ans.asked # 0
  OBVIOUS
<1> HIDE DEF ans, op
<1>6. DOMAIN answer = AllChannels
  BY DEF ChannelInv, AnswerInv
<1>7. /\ DOMAIN answer' = AllChannels
      /\ \A d \in AllChannels \ {LzChannel} : answer'[d] = answer[d]
      /\ answer'[LzChannel] = answer[LzChannel] \/ (op # "" /\ answer'[LzChannel] = ans)
  BY <1>4, <1>6 DEF AllChannels
<1>8. \A d \in AllChannels : answer'[d].status # "" => answer'[d].asked # 0
  BY <1>5, <1>7 DEF ChannelInv, AnswerInv
<1>9. /\ answer'["request"] = answer["request"]
      /\ answer'["config_request"] = answer["config_request"]
  BY <1>7 DEF AllChannels, PkgdChannels, ConfigdChannels, LzChannel
<1>10. AnswerInv'
  BY <1>2, <1>7, <1>8, <1>9 DEF AnswerInv, ChannelInv, NothingUndone
<1> QED
  BY <1>1, <1>2, <1>3, <1>10 DEF ChannelInv

-----------------------------------------------------------------------------
(* The command line.                                                       *)

Fields == {"at", "args", "todo", "polls", "own", "heard", "out"}

(* Before a request: the first of the command, or the install of a plan    *)
(* that has been answered.                                                 *)
RunInv ==
    vct.at = "run" =>
        \/ vct.own = 0 /\ vct.todo = Requests(vct.args)
        \/ /\ Planned(vct.args) /\ vct.todo = <<Pkg("install", vct.args.positional)>>
           /\ vct.own \in 1..Len(made) /\ made[vct.own] = Pkg("explain", vct.args.positional)
           /\ vct.heard # 0

(* While it waits, its request is the last on its channel. *)
PollInv ==
    vct.at = "poll" =>
        /\ vct.own \in 1..Len(made) /\ made[vct.own] = Head(vct.todo)
        /\ IsVctRequest(made[vct.own]) /\ mail[made[vct.own].channel] = vct.own
        /\ \/ \E r : Single(vct.args, r) /\ vct.todo = <<r>>
           \/ /\ Planned(vct.args)
              /\ vct.todo \in {Requests(vct.args), <<Pkg("install", vct.args.positional)>>}

(* What it claims holds, and goes on to hold while no request follows. *)
DoneInv ==
    vct.at = "done" /\ vct.out.ok /\ vct.own # 0 /\ vct.heard # 0 =>
        /\ vct.own \in 1..Len(made) /\ IsVctRequest(made[vct.own])
        /\ mail[made[vct.own].channel] = vct.own
        /\ HoldsFor(made[vct.own].op, made[vct.own].name, made[vct.own].value)

VctInv ==
    /\ DOMAIN vct = Fields
    /\ RunInv /\ PollInv /\ DoneInv
    /\ vct.at = "power" => vct.own = 0

ClientInv == ChannelInv /\ VctInv

(* While others make requests and the daemons answer, what vct has asked   *)
(* for stays where it was, and what it claims stays true.                  *)
ClaimsKept ==
    \A op, name, value : \A n \in 1..Len(made) :
        /\ IsVctRequest(made[n]) /\ mail[made[n].channel] = n
        /\ Sig(made[n]) = <<op, name, value>> /\ HoldsFor(op, name, value)
        => HoldsFor(op, name, value)'

LEMMA VctWaits ==
    ASSUME VctInv, vct' = vct, ClaimsKept,
           Len(made) \in Nat, Len(made') \in Nat, Len(made') >= Len(made),
           \A n \in 1..Len(made) : made'[n] = made[n],
           \A c \in VctChannels : mail'[c] = mail[c]
    PROVE  VctInv'
<1>1. ASSUME vct.own \in 1..Len(made)
      PROVE  vct.own \in 1..Len(made') /\ made'[vct.own] = made[vct.own]
  BY <1>1
<1>2. RunInv'
  BY <1>1 DEF VctInv, RunInv
<1>3. PollInv'
  BY <1>1 DEF VctInv, PollInv, IsVctRequest
<1>4. DoneInv'
  <2> SUFFICES ASSUME vct.at = "done", vct.out.ok, vct.own # 0, vct.heard # 0
               PROVE  /\ vct.own \in 1..Len(made') /\ IsVctRequest(made'[vct.own])
                      /\ mail'[made'[vct.own].channel] = vct.own
                      /\ HoldsFor(made[vct.own].op, made[vct.own].name, made[vct.own].value)'
    BY DEF DoneInv
  <2> DEFINE r == made[vct.own]
  <2>1. /\ vct.own \in 1..Len(made) /\ IsVctRequest(r) /\ mail[r.channel] = vct.own
        /\ HoldsFor(r.op, r.name, r.value)
    BY DEF VctInv, DoneInv
  <2>2. ASSUME NEW op, NEW name, NEW value, r.op = op, r.name = name, r.value = value
        PROVE  HoldsFor(op, name, value)'
    BY <2>1, <2>2 DEF ClaimsKept, Sig
  <2>3. made'[vct'.own] = made[vct.own]
    BY <1>1, <2>1
  <2>4. HoldsFor(made[vct.own].op, made[vct.own].name, made[vct.own].value)'
    BY <2>2, <2>3
  <2> QED
    BY <1>1, <2>1, <2>4 DEF IsVctRequest
<1> QED
  BY <1>2, <1>3, <1>4 DEF VctInv

LEMMA KeptByPkgd ==
    ASSUME ChannelInv, NEW c \in AllChannels, PkgdHandles(c)
    PROVE  ClaimsKept
<1> SUFFICES ASSUME NEW op, NEW name, NEW value, NEW n \in 1..Len(made),
                    IsVctRequest(made[n]), mail[made[n].channel] = n,
                    Sig(made[n]) = <<op, name, value>>, HoldsFor(op, name, value)
             PROVE  HoldsFor(op, name, value)'
  BY DEF ClaimsKept
<1>1. made[n].op = op /\ made[n].name = name
  BY DEF Sig
<1>2. CASE op \in {"install", "remove"}
  <2>1. made[n].channel = "request"
    BY <1>1, <1>2 DEF IsVctRequest
  <2> QED
    BY <1>1, <2>1, PkgdHandled
<1>3. CASE op = "set"
  BY <1>3, PkgdHandled
<1>4. CASE op \notin Claims
  BY <1>4 DEF HoldsFor, Claims
<1> QED
  BY <1>2, <1>3, <1>4 DEF Claims

LEMMA KeptByConfigd ==
    ASSUME ChannelInv, NEW c \in AllChannels, ConfigdHandles(c)
    PROVE  ClaimsKept
<1> SUFFICES ASSUME NEW op, NEW name, NEW value, NEW n \in 1..Len(made),
                    IsVctRequest(made[n]), mail[made[n].channel] = n,
                    Sig(made[n]) = <<op, name, value>>, HoldsFor(op, name, value)
             PROVE  HoldsFor(op, name, value)'
  BY DEF ClaimsKept
<1>1. CASE op = "set"
  <2>1. made[n].channel = "config_request"
    BY <1>1 DEF IsVctRequest, Sig
  <2> QED
    BY <2>1, ConfigdHandled
<1>2. CASE op # "set"
  BY <1>2, ConfigdHandled
<1> QED
  BY <1>1, <1>2

LEMMA MadeIsFinite ==
    ASSUME ChannelInv
    PROVE  Len(made) \in Nat
<1>1. PICK S : made \in Seq(S)
  BY DEF ChannelInv, MailInv
<1> QED
  BY <1>1

LEMMA Exits ==
    ASSUME DOMAIN vct = Fields, NEW o, Exit(o)
    PROVE  /\ DOMAIN vct' = Fields /\ vct'.at = "done" /\ vct'.own = vct.own
           /\ vct'.heard = vct.heard /\ vct'.out = o
BY DEF Exit, Fields

(* A command that ends without a claim. *)
LEMMA NothingClaimed ==
    ASSUME DOMAIN vct' = Fields, vct'.at = "done", vct'.own = 0 \/ ~vct'.out.ok
    PROVE  VctInv'
BY DEF VctInv, RunInv, PollInv, DoneInv

(* An install that shows its plan goes on to the install: nothing else of  *)
(* the command line ends it.                                               *)
LEMMA PlannedGoesOn ==
    ASSUME NEW a, Planned(a)
    PROVE  LocalOutcomes(a) = {} /\ ~IsPower(a)
<1>1. Requests(a) # <<>> /\ Command(a) = "install"
  BY DEF Planned
<1> QED
  BY <1>1 DEF LocalOutcomes, IsPower

LEMMA PlannedRequests ==
    ASSUME NEW a, Planned(a)
    PROVE  LET e == Pkg("explain", a.positional)
               i == Pkg("install", a.positional)
           IN  /\ Requests(a) = <<e, i>> /\ IsVctRequest(e) /\ IsVctRequest(i)
               /\ e.op = "explain" /\ i.op = "install"
BY DEF Planned, Pkg, IsVctRequest, VctChannels

LEMMA StartStep ==
    ASSUME NEW tokens, StartCommand(tokens)
    PROVE  VctInv'
<1>1. vct' = [NotRunning EXCEPT !.at = "run", !.args = Parse(tokens),
                                !.todo = Requests(Parse(tokens))]
  BY DEF StartCommand
<1>2. /\ DOMAIN vct' = Fields /\ vct'.at = "run" /\ vct'.own = 0
      /\ vct'.args = Parse(tokens) /\ vct'.todo = Requests(Parse(tokens))
  BY <1>1 DEF NotRunning, Fields
<1> QED
  BY <1>2 DEF VctInv, RunInv, PollInv, DoneInv

LEMMA LocalStep ==
    ASSUME VctInv, FinishLocally \/ RequestPower \/ PowerUnavailable \/ Reap
    PROVE  VctInv'
<1>1. DOMAIN vct = Fields
  BY DEF VctInv
<1>2. CASE FinishLocally
  <2>1. PICK o \in LocalOutcomes(vct.args) : Exit(o)
    BY <1>2 DEF FinishLocally
  <2>2. vct.own = 0
    BY <1>2, <2>1, PlannedGoesOn DEF FinishLocally, VctInv, RunInv
  <2> QED
    BY <1>1, <2>1, <2>2, Exits, NothingClaimed
<1>3. CASE RequestPower
  <2>1. vct.own = 0
    BY <1>3, PlannedGoesOn DEF RequestPower, VctInv, RunInv
  <2>2. DOMAIN vct' = Fields /\ vct'.at = "power" /\ vct'.own = vct.own
    BY <1>1, <1>3 DEF RequestPower, Fields
  <2> QED
    BY <2>1, <2>2 DEF VctInv, RunInv, PollInv, DoneInv
<1>4. CASE PowerUnavailable
  <2>1. vct.own = 0
    BY <1>4 DEF PowerUnavailable, VctInv
  <2>2. \E o : Exit(o)
    BY <1>4 DEF PowerUnavailable
  <2> QED
    BY <1>1, <2>1, <2>2, Exits, NothingClaimed
<1>5. CASE Reap
  <2>1. DOMAIN vct' = Fields /\ vct'.at = "off"
    BY <1>5 DEF Reap, NotRunning, Fields
  <2> QED
    BY <2>1 DEF VctInv, RunInv, PollInv, DoneInv
<1> QED
  BY <1>2, <1>3, <1>4, <1>5

(* What is still to be asked for, when something is. *)
LEMMA NextRequest ==
    ASSUME VctInv, vct.at = "run", vct.todo # <<>>
    PROVE  /\ IsVctRequest(Head(vct.todo))
           /\ \/ vct.own = 0 /\ \E r : Single(vct.args, r) /\ vct.todo = <<r>>
              \/ /\ vct.own = 0 /\ Planned(vct.args) /\ vct.todo = Requests(vct.args)
                 /\ Head(vct.todo).op = "explain"
              \/ /\ Planned(vct.args) /\ vct.todo = <<Pkg("install", vct.args.positional)>>
                 /\ vct.own # 0 /\ vct.heard # 0
                 /\ made[vct.own] = Pkg("explain", vct.args.positional)
<1>1. CASE vct.own = 0 /\ vct.todo = Requests(vct.args)
  <2>1. ASSUME NEW r, Single(vct.args, r)
        PROVE  IsVctRequest(Head(vct.todo)) /\ vct.todo = <<r>>
    <3>1. vct.todo = <<r>> /\ IsVctRequest(r)
      BY <1>1, <2>1 DEF Single
    <3>2. Head(vct.todo) = r
      BY <3>1
    <3> QED
      BY <3>1, <3>2
  <2>2. ASSUME Planned(vct.args)
        PROVE  IsVctRequest(Head(vct.todo)) /\ Head(vct.todo).op = "explain"
    <3>1. Head(vct.todo) = Pkg("explain", vct.args.positional)
      BY <1>1, <2>2 DEF Planned
    <3> QED
      BY <2>2, <3>1, PlannedRequests
  <2> QED
    BY <1>1, <2>1, <2>2, RequestForms
<1>2. CASE /\ Planned(vct.args) /\ vct.todo = <<Pkg("install", vct.args.positional)>>
           /\ vct.own \in 1..Len(made) /\ made[vct.own] = Pkg("explain", vct.args.positional)
           /\ vct.heard # 0
  <2>1. Head(vct.todo) = Pkg("install", vct.args.positional) /\ vct.own # 0
    BY <1>2
  <2> QED
    BY <1>2, <2>1, PlannedRequests
<1> QED
  BY <1>1, <1>2 DEF VctInv, RunInv

LEMMA Asks ==
    ASSUME ChannelInv, VctInv, Ask
    PROVE  /\ ChannelInv' /\ DOMAIN vct' = Fields /\ vct'.at = "poll"
           /\ vct'.own = Len(made') /\ vct'.own \in 1..Len(made')
           /\ made'[vct'.own] = Head(vct.todo) /\ mail'[Head(vct.todo).channel] = vct'.own
           /\ vct'.args = vct.args /\ vct'.todo = vct.todo
<1> DEFINE r == Head(vct.todo)
<1>1. vct.at = "run" /\ vct.todo # <<>> /\ Publish(r.channel, r.op, r.name, r.value)
  BY DEF Ask
<1>2. IsVctRequest(r)
  BY <1>1, NextRequest
<1>3. /\ DOMAIN vct' = Fields /\ vct'.at = "poll" /\ vct'.own = Len(made')
      /\ vct'.args = vct.args /\ vct'.todo = vct.todo
  BY DEF Ask, VctInv, Fields
<1> HIDE DEF r
<1>4. /\ r.channel \in AllChannels
      /\ r = [channel |-> r.channel, op |-> r.op, name |-> r.name, value |-> r.value]
  BY <1>2 DEF IsVctRequest, VctChannels, AllChannels, PkgdChannels, ConfigdChannels
<1>5. /\ ChannelInv' /\ Len(made) \in Nat /\ Len(made') = Len(made) + 1
      /\ made'[Len(made')] = [channel |-> r.channel, op |-> r.op, name |-> r.name,
                              value |-> r.value]
      /\ mail'[r.channel] = Len(made')
  BY <1>1, <1>4, Published
<1>6. made'[vct'.own] = r /\ vct'.own \in 1..Len(made')
  BY <1>3, <1>4, <1>5
<1> QED
  BY <1>3, <1>5, <1>6 DEF r

LEMMA AskStep ==
    ASSUME ChannelInv, VctInv, Ask
    PROVE  ChannelInv' /\ VctInv'
<1>1. vct.at = "run" /\ vct.todo # <<>>
  BY DEF Ask
<1>2. /\ IsVctRequest(Head(vct.todo))
      /\ \/ \E r : Single(vct.args, r) /\ vct.todo = <<r>>
         \/ /\ Planned(vct.args)
            /\ vct.todo \in {Requests(vct.args), <<Pkg("install", vct.args.positional)>>}
  BY <1>1, NextRequest
<1>3. PollInv'
  BY <1>2, Asks DEF PollInv
<1>4. vct'.at = "poll" /\ DOMAIN vct' = Fields /\ ChannelInv'
  BY Asks
<1> QED
  BY <1>3, <1>4 DEF VctInv, RunInv, DoneInv

(* A request that waits is one of three. *)
LEMMA Waiting ==
    ASSUME VctInv, vct.at = "poll"
    PROVE  /\ vct.own \in 1..Len(made) /\ Asked = made[vct.own] /\ IsVctRequest(Asked)
           /\ mail[Asked.channel] = vct.own
           /\ \/ Len(vct.todo) = 1 /\ (Asked.op \in Claims => FailsAloud(vct.args, Asked.op))
              \/ /\ Len(vct.todo) = 2 /\ Planned(vct.args)
                 /\ Asked = Pkg("explain", vct.args.positional)
                 /\ Tail(vct.todo) = <<Pkg("install", vct.args.positional)>>
<1>1. /\ vct.own \in 1..Len(made) /\ Asked = made[vct.own] /\ IsVctRequest(Asked)
      /\ mail[Asked.channel] = vct.own /\ Asked = Head(vct.todo)
  BY DEF VctInv, PollInv, Asked
<1>2. ASSUME NEW r, Single(vct.args, r), vct.todo = <<r>>
      PROVE  Len(vct.todo) = 1 /\ (Asked.op \in Claims => FailsAloud(vct.args, Asked.op))
  <2>1. Asked = r /\ Len(vct.todo) = 1
    BY <1>1, <1>2
  <2> QED
    BY <1>2, <2>1 DEF Single
<1>3. CASE Planned(vct.args) /\ vct.todo = Requests(vct.args)
  <2>1. vct.todo = <<Pkg("explain", vct.args.positional), Pkg("install", vct.args.positional)>>
    BY <1>3 DEF Planned
  <2>2. /\ Len(vct.todo) = 2 /\ Head(vct.todo) = Pkg("explain", vct.args.positional)
        /\ Tail(vct.todo) = <<Pkg("install", vct.args.positional)>>
    BY <2>1
  <2> QED
    BY <1>1, <1>3, <2>2
<1>4. CASE Planned(vct.args) /\ vct.todo = <<Pkg("install", vct.args.positional)>>
  <2>1. Len(vct.todo) = 1 /\ Head(vct.todo) = Pkg("install", vct.args.positional)
    BY <1>4
  <2>2. Asked.op = "install"
    BY <1>1, <1>4, <2>1, PlannedRequests
  <2> QED
    BY <1>1, <1>4, <2>1, <2>2 DEF Planned
<1>5. \/ \E r : Single(vct.args, r) /\ vct.todo = <<r>>
      \/ Planned(vct.args) /\ vct.todo = Requests(vct.args)
      \/ Planned(vct.args) /\ vct.todo = <<Pkg("install", vct.args.positional)>>
  BY DEF VctInv, PollInv
<1>6. \/ Len(vct.todo) = 1 /\ (Asked.op \in Claims => FailsAloud(vct.args, Asked.op))
      \/ /\ Len(vct.todo) = 2 /\ Planned(vct.args)
         /\ Asked = Pkg("explain", vct.args.positional)
         /\ Tail(vct.todo) = <<Pkg("install", vct.args.positional)>>
  BY <1>2, <1>3, <1>4, <1>5
<1> QED
  BY <1>1, <1>6

(* An answer that matches and says "ok" makes what was asked for true.     *)
LEMMA AnswerIsTrue ==
    ASSUME ChannelInv, VctInv, vct.at = "poll", Found, Heard.status = "ok"
    PROVE  HoldsFor(Asked.op, Asked.name, Asked.value) /\ Heard.asked # 0
<1> DEFINE r == Asked
           a == Heard
<1>1. IsVctRequest(r) /\ a = answer[r.channel] /\ r.channel \in AllChannels
  BY Waiting DEF Heard, IsVctRequest, VctChannels, AllChannels, PkgdChannels, ConfigdChannels
<1>2. a.asked # 0
  BY <1>1 DEF ChannelInv, AnswerInv
<1>3. CASE r.op \in {"install", "remove"}
  <2>1. r.channel = "request"
    BY <1>1, <1>3 DEF IsVctRequest
  <2>2. a.op = r.op /\ a.name = r.name
    BY <1>3, <2>1 DEF Found, Matches, LzChannel
  <2>3. HoldsFor(a.op, a.name, a.value)
    BY <1>1, <1>3, <2>1, <2>2 DEF ChannelInv, AnswerInv
  <2> QED
    BY <1>2, <1>3, <2>2, <2>3 DEF HoldsFor
<1>4. CASE r.op = "set"
  <2>1. r.channel = "config_request"
    BY <1>1, <1>4 DEF IsVctRequest
  <2>2. a.op = r.op /\ a.name = r.name /\ (a.value # NoValue => a.value = r.value)
    BY <1>4, <2>1 DEF Found, Matches, LzChannel
  <2>3. a.value # NoValue /\ HoldsFor("set", a.name, a.value)
    BY <1>1, <1>4, <2>1, <2>2 DEF ChannelInv, AnswerInv
  <2> QED
    BY <1>2, <1>4, <2>2, <2>3
<1>5. CASE r.op \notin Claims
  BY <1>2, <1>5 DEF HoldsFor, Claims
<1> QED
  BY <1>3, <1>4, <1>5 DEF Claims

LEMMA TakeStep ==
    ASSUME ChannelInv, VctInv, TakeAnswer
    PROVE  VctInv'
<1>1. /\ vct.at = "poll" /\ Found /\ DOMAIN vct = Fields
      /\ made' = made /\ mail' = mail /\ roots' = roots /\ store' = store
  BY DEF TakeAnswer, VctInv, channelVars, daemonVars
<1>2. Len(made) \in Nat
  BY MadeIsFinite
<1>3. CASE Heard.status = "ok" /\ Len(vct.todo) > 1
  <2>1. vct' = [vct EXCEPT !.at = "run", !.todo = Tail(@), !.heard = Heard.asked]
    BY <1>3 DEF TakeAnswer
  <2>2. /\ DOMAIN vct' = Fields /\ vct'.at = "run" /\ vct'.todo = Tail(vct.todo)
        /\ vct'.heard = Heard.asked /\ vct'.own = vct.own /\ vct'.args = vct.args
    BY <1>1, <2>1 DEF Fields
  <2>3. Heard.asked # 0
    BY <1>1, <1>3, AnswerIsTrue
  <2>4. /\ Planned(vct.args) /\ Asked = Pkg("explain", vct.args.positional)
        /\ Tail(vct.todo) = <<Pkg("install", vct.args.positional)>>
        /\ vct.own \in 1..Len(made) /\ Asked = made[vct.own]
    <3>1. Len(vct.todo) # 1
      <4>1. Len(vct.todo) \in Nat
        BY <1>1, Waiting
      <4>2. Len(vct.todo) > 1
        BY <1>3
      <4>3. \A n \in Nat : n > 1 => n # 1
        OBVIOUS
      <4> QED
        BY <4>1, <4>2, <4>3
    <3> QED
      BY <1>1, <3>1, Waiting
  <2>5. RunInv'
    BY <1>1, <2>2, <2>3, <2>4 DEF RunInv
  <2> QED
    BY <2>2, <2>5 DEF VctInv, PollInv, DoneInv
<1>4. CASE ~(Heard.status = "ok" /\ Len(vct.todo) > 1)
  <2>1. PICK o \in IF Len(vct.todo) > 1 THEN {Text(FALSE)}
                   ELSE Rendered(vct.args, Asked.op, Heard.status = "ok") :
          vct' = [vct EXCEPT !.at = "done", !.todo = <<>>, !.polls = 0, !.out = o,
                             !.heard = Heard.asked]
    BY <1>4 DEF TakeAnswer
  <2>2. /\ DOMAIN vct' = Fields /\ vct'.at = "done" /\ vct'.own = vct.own /\ vct'.out = o
    BY <1>1, <2>1 DEF Fields
  <2>3. CASE ~o.ok
    BY <2>2, <2>3, NothingClaimed
  <2>4. CASE o.ok
    <3>1. Len(vct.todo) = 1 /\ o \in Rendered(vct.args, Asked.op, Heard.status = "ok")
      <4>1. ~(Len(vct.todo) > 1)
        BY <2>1, <2>4, Printed
      <4>2. Len(vct.todo) # 2
        BY <4>1
      <4>3. Len(vct.todo) = 1
        BY <1>1, <4>2, Waiting
      <4> QED
        BY <2>1, <4>1, <4>3
    <3>2. Asked.op \in Claims => Heard.status = "ok"
      <4> SUFFICES ASSUME Asked.op \in Claims, Heard.status # "ok"
                   PROVE  FALSE
        OBVIOUS
      <4>1. FailsAloud(vct.args, Asked.op)
        BY <1>1, <3>1, Waiting
      <4>2. (Heard.status = "ok") = FALSE
        OBVIOUS
      <4>3. o \in Rendered(vct.args, Asked.op, FALSE)
        BY <3>1, <4>2
      <4> QED
        BY <2>4, <4>1, <4>3 DEF FailsAloud
    <3>3. HoldsFor(Asked.op, Asked.name, Asked.value)
      <4>1. CASE Asked.op \in Claims
        BY <1>1, <3>2, <4>1, AnswerIsTrue
      <4>2. CASE Asked.op \notin Claims
        BY <4>2 DEF HoldsFor, Claims
      <4> QED
        BY <4>1, <4>2
    <3>4. /\ vct.own \in 1..Len(made) /\ Asked = made[vct.own] /\ IsVctRequest(Asked)
          /\ mail[Asked.channel] = vct.own
      BY <1>1, Waiting
    <3>5. HoldsFor(made[vct.own].op, made[vct.own].name, made[vct.own].value)'
      <4>1. ASSUME NEW op, NEW name, NEW value,
                   op = Asked.op, name = Asked.name, value = Asked.value
            PROVE  HoldsFor(op, name, value)'
        BY <1>1, <3>3, <4>1, NothingChanged DEF NothingUndone
      <4>2. made'[vct'.own] = Asked
        BY <1>1, <2>2, <3>4
      <4> QED
        BY <4>1, <4>2
    <3>6. DoneInv'
      BY <1>1, <2>2, <3>4, <3>5 DEF DoneInv
    <3> QED
      BY <2>2, <3>6 DEF VctInv, RunInv, PollInv
  <2> QED
    BY <2>3, <2>4
<1> QED
  BY <1>3, <1>4

LEMMA PollStep ==
    ASSUME ChannelInv, VctInv, PollAgain \/ GiveUp
    PROVE  VctInv'
<1>1. vct.at = "poll" /\ DOMAIN vct = Fields
  BY DEF PollAgain, GiveUp, VctInv
<1>2. CASE PollAgain
  <2>1. /\ vct' = [vct EXCEPT !.polls = @ + 1]
        /\ made' = made /\ mail' = mail
    BY <1>2 DEF PollAgain, channelVars
  <2>2. /\ DOMAIN vct' = Fields /\ vct'.at = "poll" /\ vct'.own = vct.own
        /\ vct'.todo = vct.todo /\ vct'.args = vct.args
    BY <1>1, <2>1 DEF Fields
  <2>3. PollInv'
    BY <1>1, <2>1, <2>2 DEF VctInv, PollInv
  <2> QED
    BY <2>2, <2>3 DEF VctInv, RunInv, DoneInv
<1>3. CASE GiveUp
  <2>1. Exit(Unanswered(vct.args, Asked.op))
    BY <1>3 DEF GiveUp
  <2>2. ~Unanswered(vct.args, Asked.op).ok
    BY Printed DEF Unanswered
  <2> QED
    BY <1>1, <2>1, <2>2, Exits, NothingClaimed
<1> QED
  BY <1>2, <1>3

-----------------------------------------------------------------------------
(* The clients together.                                                   *)

LEMMA UnchangedChannels ==
    ASSUME ChannelInv, UNCHANGED channelVars
    PROVE  ChannelInv'
<1>1. /\ made' = made /\ mail' = mail /\ unread' = unread /\ answer' = answer
      /\ lastAnswer' = lastAnswer /\ roots' = roots /\ store' = store
  BY DEF channelVars, daemonVars
<1>2. NothingUndone
  BY <1>1, NothingChanged
<1>3. MailInv' /\ LastInv'
  BY <1>1 DEF ChannelInv, MailInv, LastInv
<1>4. AnswerInv'
  BY <1>1, <1>2 DEF ChannelInv, AnswerInv, NothingUndone
<1> QED
  BY <1>3, <1>4 DEF ChannelInv

(* A step of a client other than vct makes a request of its own or leaves  *)
(* the channels alone.                                                     *)
LEMMA OthersStep ==
    ASSUME ChannelInv, VctInv, vct' = vct,
           \/ UNCHANGED channelVars
           \/ \E c \in AllChannels \ VctChannels : \E op, name, value : Publish(c, op, name, value)
    PROVE  ChannelInv' /\ VctInv'
<1>1. Len(made) \in Nat
  BY MadeIsFinite
<1>2. CASE UNCHANGED channelVars
  <2>1. /\ made' = made /\ mail' = mail /\ roots' = roots /\ store' = store
    BY <1>2 DEF channelVars, daemonVars
  <2>2. NothingUndone
    BY <2>1, NothingChanged
  <2>3. ClaimsKept
    BY <2>2 DEF NothingUndone, ClaimsKept
  <2>4. ChannelInv'
    BY <1>2, UnchangedChannels
  <2> QED
    BY <1>1, <2>1, <2>3, <2>4, VctWaits
<1>3. ASSUME NEW c \in AllChannels \ VctChannels, NEW op, NEW name, NEW value,
             Publish(c, op, name, value)
      PROVE  ChannelInv' /\ VctInv'
  <2>1. /\ ChannelInv' /\ NothingUndone
        /\ Len(made') = Len(made) + 1
        /\ \A n \in 1..Len(made) : made'[n] = made[n]
        /\ \A d \in AllChannels \ {c} : mail'[d] = mail[d]
    BY <1>3, Published
  <2>2. \A d \in VctChannels : mail'[d] = mail[d]
    BY <1>3, <2>1 DEF VctChannels, AllChannels, PkgdChannels, ConfigdChannels
  <2>3. ClaimsKept
    BY <2>1 DEF NothingUndone, ClaimsKept
  <2> QED
    BY <1>1, <2>1, <2>2, <2>3, VctWaits
<1> QED
  BY <1>2, <1>3

LEMMA DaemonsStep ==
    ASSUME ChannelInv, VctInv, vct' = vct, DaemonStep
    PROVE  ChannelInv' /\ VctInv'
<1>1. PICK c \in AllChannels : PkgdHandles(c) \/ ConfigdHandles(c)
  BY DEF DaemonStep
<1>2. made' = made /\ mail' = mail /\ Len(made) \in Nat
  BY <1>1, MadeIsFinite DEF PkgdHandles, ConfigdHandles
<1>3. ChannelInv' /\ ClaimsKept
  BY <1>1, PkgdHandled, ConfigdHandled, KeptByPkgd, KeptByConfigd
<1> QED
  BY <1>2, <1>3, VctWaits

LEMMA VctStep ==
    ASSUME ChannelInv, VctInv, VctWorks
    PROVE  ChannelInv' /\ VctInv'
<1>1. CASE Ask
  BY <1>1, AskStep
<1>2. CASE FinishLocally \/ RequestPower \/ PowerUnavailable \/ Reap
  BY <1>2, LocalStep, UnchangedChannels DEF FinishLocally, RequestPower, PowerUnavailable, Reap
<1>3. CASE TakeAnswer
  BY <1>3, TakeStep, UnchangedChannels DEF TakeAnswer
<1>4. CASE PollAgain \/ GiveUp
  BY <1>4, PollStep, UnchangedChannels DEF PollAgain, GiveUp
<1> QED
  BY <1>1, <1>2, <1>3, <1>4 DEF VctWorks

LEMMA ClientsStep ==
    ASSUME ClientInv, [ClientsNext]_clientsVars
    PROVE  ClientInv'
<1>1. ChannelInv /\ VctInv
  BY DEF ClientInv
<1> SUFFICES ChannelInv' /\ VctInv'
  BY DEF ClientInv
<1>2. CASE VctRuns
  BY <1>1, <1>2, VctStep DEF VctRuns
<1>3. CASE LzWatchRuns
  <2>1. LzRound
    BY <1>3 DEF LzWatchRuns
  <2>2. /\ ChannelInv' /\ NothingUndone /\ made' = made /\ mail' = mail /\ vct' = vct
    BY <1>1, <2>1, LzWatched
  <2>3. ClaimsKept
    BY <2>2 DEF NothingUndone, ClaimsKept
  <2> QED
    BY <1>1, <2>2, <2>3, MadeIsFinite, VctWaits
<1>4. CASE DialogRuns \/ MenuRuns \/ LaunchRuns
  <2>1. vct' = vct /\ UNCHANGED channelVars
    BY <1>4 DEF DialogRuns, MenuRuns, LaunchRuns, OthersThanLauncher, DialogWaits,
                SettingAnswered, SettingPolled, PollInstalled, PollLaunchResult
  <2> QED
    BY <1>1, <2>1, OthersStep
<1>5. CASE TtyRuns
  <2>1. vct' = vct
    BY <1>5 DEF TtyRuns, OthersThanTty
  <2>2. \/ UNCHANGED channelVars
        \/ \E op, name, value : Publish("tty_request", op, name, value)
    BY <1>5 DEF TtyRuns, TtyWorks, ProcessLine, TtyAnswered, TtyPolled
  <2>3. "tty_request" \in AllChannels \ VctChannels
    BY DEF AllChannels, VctChannels, PkgdChannels, LzChannel
  <2> QED
    BY <1>1, <2>1, <2>2, <2>3, OthersStep
<1>6. CASE DaemonsRun
  BY <1>1, <1>6, DaemonsStep DEF DaemonsRun
<1>7. CASE UsesVct
  <2>1. PICK tokens \in CommandLines : StartCommand(tokens)
    BY <1>7 DEF UsesVct
  <2>2. VctInv' /\ ChannelInv'
    BY <1>1, <2>1, StartStep, UnchangedChannels DEF StartCommand
  <2> QED
    BY <2>2
<1>8. CASE UsesLeitzentrale
  <2>1. vct' = vct /\ UNCHANGED channelVars
    BY <1>8 DEF UsesLeitzentrale, EditModel
  <2> QED
    BY <1>1, <2>1, OthersStep
<1>9. CASE UsesSettings
  <2>1. vct' = vct
    BY <1>9 DEF UsesSettings, OthersThanLauncher
  <2>2. \/ UNCHANGED channelVars
        \/ \E op, name, value : Publish("de_config_request", op, name, value)
    BY <1>9 DEF UsesSettings, OpenSettingsDialog, CloseSettingsDialog, RequestSet
  <2>3. "de_config_request" \in AllChannels \ VctChannels
    BY DEF AllChannels, VctChannels, ConfigdChannels, LzChannel
  <2> QED
    BY <1>1, <2>1, <2>2, <2>3, OthersStep
<1>10. CASE UsesLauncher
  <2>1. vct' = vct
    BY <1>10 DEF UsesLauncher, OthersThanLauncher
  <2>2. \/ UNCHANGED channelVars
        \/ \E op, name, value : Publish("launcher_request", op, name, value)
    <3>1. ASSUME NEW p \in Packages, NEW works \in BOOLEAN, ClickApp(p, works)
          PROVE  \/ UNCHANGED channelVars
                 \/ \E op, name, value : Publish("launcher_request", op, name, value)
      BY <3>1 DEF ClickApp
    <3> QED
      BY <1>10, <3>1 DEF UsesLauncher, ToggleLauncher, PanelButton, ClickOutside,
                         DismissTopmost, ClosePopup, CloseSettingsDialog, RetryWindowEnds
  <2>3. "launcher_request" \in AllChannels \ VctChannels
    BY DEF AllChannels, VctChannels, PkgdChannels, LzChannel
  <2> QED
    BY <1>1, <2>1, <2>2, <2>3, OthersStep
<1>11. CASE UsesTty
  <2>1. vct' = vct /\ UNCHANGED channelVars
    BY <1>11 DEF UsesTty, OthersThanTty, WriteLine, ReadLine
  <2> QED
    BY <1>1, <2>1, OthersStep
<1>12. CASE UNCHANGED clientsVars
  <2>1. vct' = vct /\ UNCHANGED channelVars
    BY <1>12 DEF clientsVars
  <2> QED
    BY <1>1, <2>1, OthersStep
<1> QED
  BY <1>2, <1>3, <1>4, <1>5, <1>6, <1>7, <1>8, <1>9, <1>10, <1>11, <1>12 DEF ClientsNext

LEMMA ClientsAlways == ClientsSpec => []ClientInv
<1>1. ClientsInit => ClientInv
  <2> SUFFICES ASSUME ClientsInit PROVE ClientInv
    OBVIOUS
  <2>1. /\ made = <<>> /\ mail = [c \in AllChannels |-> 0] /\ unread = {}
        /\ answer = [c \in AllChannels |-> NoAnswer] /\ lastAnswer = NoAnswer
        /\ vct = NotRunning
    BY DEF ClientsInit, ChannelsInit, VctInit
  <2>2. NoAnswer.status = ""
    BY DEF NoAnswer
  <2>3. made \in Seq({}) /\ Len(made) = 0
    BY <2>1
  <2>4. MailInv
    BY <2>1, <2>3 DEF MailInv
  <2>5. LastInv
    <3>1. roots \subseteq Packages
      BY ChannelsAssumption DEF ClientsInit, ChannelsInit
    <3> QED
      BY <2>1, <2>2, <3>1 DEF LastInv
  <2>6. AnswerInv
    BY <2>1, <2>2 DEF AnswerInv, AllChannels, PkgdChannels, ConfigdChannels
  <2>7. DOMAIN vct = Fields /\ vct.at = "off"
    BY <2>1 DEF NotRunning, Fields
  <2>8. VctInv
    BY <2>7 DEF VctInv, RunInv, PollInv, DoneInv
  <2> QED
    BY <2>4, <2>5, <2>6, <2>8 DEF ClientInv, ChannelInv
<1> QED
  BY <1>1, ClientsStep, PTL DEF ClientsSpec

(* Only a request makes vct wait.                                          *)
LEMMA OnlyAskPolls ==
    ASSUME ClientInv, [ClientsNext]_clientsVars, vct.at = "run", vct'.at = "poll"
    PROVE  Ask
<1>1. vct' # vct /\ DOMAIN vct = Fields
  BY DEF ClientInv, VctInv
<1>2. CASE VctRuns
  <2>1. ASSUME NEW o, Exit(o) PROVE FALSE
    BY <1>1, <2>1, Exits
  <2>2. ~FinishLocally /\ ~GiveUp /\ ~PowerUnavailable
    BY <2>1 DEF FinishLocally, GiveUp, PowerUnavailable
  <2>3. ~RequestPower
    BY <1>1 DEF RequestPower, Fields
  <2>4. ~TakeAnswer /\ ~PollAgain /\ ~Reap
    BY DEF TakeAnswer, PollAgain, Reap
  <2> QED
    BY <1>2, <2>2, <2>3, <2>4 DEF VctRuns, VctWorks
<1>3. ~UsesVct
  BY DEF UsesVct, StartCommand
<1>4. ~LzWatchRuns /\ ~UsesLeitzentrale
  BY <1>1 DEF LzWatchRuns, LzRound, UsesLeitzentrale, EditModel
<1>5. ~DialogRuns /\ ~MenuRuns /\ ~LaunchRuns /\ ~UsesSettings /\ ~UsesLauncher
  BY <1>1 DEF DialogRuns, MenuRuns, LaunchRuns, UsesSettings, UsesLauncher,
              OthersThanLauncher
<1>6. ~TtyRuns /\ ~DaemonsRun /\ ~UsesTty /\ ~UNCHANGED clientsVars
  BY <1>1 DEF TtyRuns, DaemonsRun, UsesTty, OthersThanTty, clientsVars
<1> QED
  BY <1>2, <1>3, <1>4, <1>5, <1>6 DEF ClientsNext

(* What vct reports as done is so, or another client asked for the         *)
(* opposite, for any command lines, packages and numbers of requests and   *)
(* polls, although answers carry no number and may be late                 *)
(* (Result_match::pkg, Result_match::config, backend_client.cc).           *)
THEOREM ClaimIsTrueHolds == ClientsSpec => []ClaimIsTrue
<1>1. ClientInv => ClaimIsTrue
  <2> SUFFICES ASSUME ClientInv, vct.at = "done", vct.out.ok, vct.own # 0, vct.heard # 0
               PROVE  /\ Asked.op = "install" =>
                            Asked.name \in Installed \/ AskedElsewhere("remove", Asked.name)
                      /\ Asked.op = "remove" =>
                            Asked.name \notin roots \/ AskedElsewhere("install", Asked.name)
                      /\ Asked.op = "set" => SetHolds(Asked.name, Asked.value)
    BY DEF ClaimIsTrue, SetHolds
  <2>1. HoldsFor(Asked.op, Asked.name, Asked.value) /\ roots \subseteq Packages
    BY DEF ClientInv, VctInv, DoneInv, Asked, ChannelInv, LastInv
  <2>2. roots \subseteq Installed
    <3> SUFFICES ASSUME NEW p \in roots PROVE \E r \in roots : p \in Requires[r]
      BY DEF Installed, Closure
    <3> QED
      BY <2>1, ChannelsAssumption
  <2> QED
    BY <2>1, <2>2 DEF HoldsFor
<1> QED
  BY <1>1, ClientsAlways, PTL

(* vct install --manual asks for the install only when the explanation of  *)
(* the same package was answered in the same run                           *)
(* (InstallCommand::execute, commands.cc).                                 *)
THEOREM ManualPlansFirstHolds == ClientsSpec => ManualPlansFirst
<1>1. ASSUME ClientInv, [ClientsNext]_clientsVars,
             vct.at = "run", vct'.at = "poll", vct.args.manual,
             made'[vct'.own].op = "install"
      PROVE  /\ vct.own # 0 /\ vct.heard # 0
             /\ Asked.op = "explain" /\ Asked.name = made'[vct'.own].name
  <2>1. ChannelInv /\ VctInv
    BY <1>1 DEF ClientInv
  <2>2. Ask
    BY <1>1, OnlyAskPolls
  <2>3. made'[vct'.own] = Head(vct.todo) /\ vct.todo # <<>>
    BY <2>1, <2>2, Asks DEF Ask
  <2>4. ~\E r : Single(vct.args, r) /\ vct.todo = <<r>>
    <3>1. ASSUME NEW r, Single(vct.args, r), vct.todo = <<r>>
          PROVE  FALSE
      <4>1. Head(vct.todo) = r
        BY <3>1
      <4> QED
        BY <1>1, <2>3, <3>1, <4>1 DEF Single
    <3> QED
      BY <3>1
  <2>5. /\ Planned(vct.args) /\ vct.todo = <<Pkg("install", vct.args.positional)>>
        /\ vct.own # 0 /\ vct.heard # 0
        /\ made[vct.own] = Pkg("explain", vct.args.positional)
    BY <1>1, <2>1, <2>3, <2>4, NextRequest
  <2>6. Head(vct.todo) = Pkg("install", vct.args.positional)
    BY <2>5
  <2> QED
    BY <2>3, <2>5, <2>6 DEF Asked, Pkg
<1> QED
  BY <1>1, ClientsAlways, PTL DEF ClientsSpec, ManualPlansFirst

=============================================================================
