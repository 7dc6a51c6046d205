------------------------------- MODULE MCPkgd -------------------------------
(* Repositories and media for the package daemon. *)
EXTENDS Pkgd

(* The framebuffer drivers exclude each other and the remote display; the  *)
(* one that starts by itself needs the platform driver, which does so too. *)
(* One package needs a name nobody provides, and one has an unreadable     *)
(* quota.                                                                  *)
DesktopOrder == <<"bad", "boot", "ghost", "platform", "term", "vesa">>
DesktopDeps  == [bad |-> <<"platform", "ghost">>, boot |-> <<"platform">>,
                 platform |-> <<>>, term |-> <<>>, vesa |-> <<>>]
DesktopGroup == [p \in DOMAIN DesktopDeps |->
                    IF p \in {"boot", "vesa"} THEN "fb" ELSE ""]
DesktopNeed  == [p \in DOMAIN DesktopDeps |-> IF p = "boot" THEN 2 ELSE 1]
DesktopProfile == <<"vesa">>

(* The image before this one had a package that can no longer be resolved. *)
EarlierRoots == {{"bad", "boot"}}

(* The two drivers of the image, and nothing else. *)
DriverOrder == <<"boot", "vesa">>
DriverDeps  == [p \in {"boot", "vesa"} |-> <<>>]
DriverGroup == [p \in {"boot", "vesa"} |-> "fb"]
DriverNeed  == [p \in {"boot", "vesa"} |-> 1]
NoProfile   == <<>>

(* What the proofs about the daemon assume of the resolver is so of these. *)
ASSUME ResolverAssumption == ResolverIsRight /\ PlansAreSequences

=============================================================================
