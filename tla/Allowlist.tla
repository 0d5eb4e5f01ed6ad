-------------------------------- MODULE Allowlist ------------------------------
(***************************************************************************)
(* Peer authentication in the PeerRegistry of go/node/peer.go: the mode,   *)
(* the allowlist of public keys and its sidecar file, and IsPeerAllowed,   *)
(* which handleWSUpgrade asks.  A call of AllowPublicKey or                *)
(* RevokePublicKey changes the set under its lock, takes a snapshot under  *)
(* the lock again, and writes the snapshot with no lock at all.            *)
(***************************************************************************)
EXTENDS Integers, FiniteSets

CONSTANTS
    Keys,      \* public keys
    Peers,     \* peer identifiers
    Writers,   \* goroutines that call AllowPublicKey and RevokePublicKey
    Checkers,  \* goroutines that call IsPeerAllowed
    NoArg      \* no argument

ASSUME AllowlistAssumption == NoArg \notin Keys \cup Peers

VARIABLES
    authMode,       \* r.authMode
    allowed,        \* r.allowedPublicKeys
    registered,     \* keys of r.peers
    writer,         \* writer[w]: progress of a change
    copied,         \* copied[w]: the keys it is going to write
    sidecarTmp,     \* the file at r.allowlistPath + ".tmp": its content, or empty
    sidecar,        \* the file at r.allowlistPath
    overlap,        \* history: two changes ran at once in this life
    sidecarFailed,  \* history: a file operation failed in this life
    check           \* check[q]: the IsPeerAllowed that q runs or has run

changeVars == <<writer, copied, sidecarTmp, sidecar, overlap, sidecarFailed>>
allowVars == <<authMode, allowed, registered, changeVars, check>>

\* stage, arguments, the local keyAllowed, the answer; and two history fields:
\* was the peer allowed at some moment of the call, and which of the rules
\* applied at every moment.
Checks ==
    [stage: {"idle", "read", "answered"}, peer: Peers \cup {NoArg},
     key: Keys \cup {NoArg}, keyAllowed: BOOLEAN,
     answer: BOOLEAN, ever: BOOLEAN, steady: SUBSET {"open", "peer", "key"}]

NoCheck ==
    [stage |-> "idle", peer |-> NoArg, key |-> NoArg,
     keyAllowed |-> FALSE, answer |-> FALSE, ever |-> FALSE, steady |-> {}]

AllowTypeOK ==
    /\ authMode \in {"open", "allowlist"}
    /\ allowed \subseteq Keys
    /\ registered \subseteq Peers
    /\ writer \in [Writers -> {"idle", "changed", "snapped", "written"}]
    /\ copied \in [Writers -> SUBSET Keys]
    /\ sidecarTmp \in SUBSET SUBSET Keys
    /\ sidecar \in SUBSET Keys
    /\ overlap \in BOOLEAN
    /\ sidecarFailed \in BOOLEAN
    /\ check \in [Checkers -> Checks]

\* NewPeerRegistryWithPath: the mode is not persisted; an absent sidecar file
\* is an empty allowlist.
AllowInit ==
    /\ authMode = "open"
    /\ allowed = {}
    /\ registered \in SUBSET Peers
    /\ writer = [w \in Writers |-> "idle"]
    /\ copied = [w \in Writers |-> {}]
    /\ sidecarTmp = {}
    /\ sidecar = {}
    /\ overlap = FALSE
    /\ sidecarFailed = FALSE
    /\ check = [q \in Checkers |-> NoCheck]

--------------------------------------------------------------------------------
\* The rules by which IsPeerAllowed is documented to let a peer in.
Rules(mode, keys, peers, p, k) ==
    {x \in {"open", "peer", "key"} :
       \/ x = "open" /\ mode = "open"
       \/ x = "peer" /\ p \in peers
       \/ x = "key" /\ k \in keys}

\* The history fields of the calls that are under way, after a change.
Observe ==
    check' = [q \in Checkers |->
      IF check[q].stage # "read" THEN check[q]
      ELSE LET now == Rules(authMode', allowed', registered', check[q].peer, check[q].key)
           IN [check[q] EXCEPT !.ever = @ \/ now # {}, !.steady = @ \cap now]]

SetAuthMode(mode) ==
    /\ mode # authMode
    /\ authMode' = mode
    /\ UNCHANGED <<allowed, registered, changeVars>>
    /\ Observe

\* A peer enters or leaves the registry.
Register(p) ==
    /\ registered' = registered \cup {p}
    /\ UNCHANGED <<authMode, allowed, changeVars>>
    /\ Observe

Unregister(p) ==
    /\ p \in registered
    /\ registered' = registered \ {p}
    /\ UNCHANGED <<authMode, allowed, changeVars>>
    /\ Observe

--------------------------------------------------------------------------------
(* AllowPublicKey and RevokePublicKey, each followed by                     *)
(* saveAllowedPublicKeys.                                                   *)

StartChange(w) ==
    /\ writer[w] = "idle"
    /\ writer' = [writer EXCEPT ![w] = "changed"]
    /\ overlap' = (overlap \/ \E v \in Writers \ {w} : writer[v] # "idle")

AllowPublicKey(w, k) ==
    /\ StartChange(w)
    /\ allowed' = allowed \cup {k}
    /\ UNCHANGED <<authMode, registered, copied, sidecarTmp, sidecar, sidecarFailed>>
    /\ Observe

MutRevokePublicKey(w, k) ==
    /\ writer[w] = "idle"
    /\ allowed' = allowed \ {k}
    /\ UNCHANGED <<authMode, registered, changeVars>>
    /\ Observe

RevokePublicKey(w, k) ==
    /\ StartChange(w)
    /\ allowed' = allowed \ {k}
    /\ UNCHANGED <<authMode, registered, copied, sidecarTmp, sidecar, sidecarFailed>>
    /\ Observe

\* The copy under allowedPublicKeyMu.
TakeSnapshot(w) ==
    /\ writer[w] = "changed"
    /\ writer' = [writer EXCEPT ![w] = "snapped"]
    /\ copied' = [copied EXCEPT ![w] = allowed]
    /\ UNCHANGED <<authMode, allowed, registered, sidecarTmp, sidecar, overlap, sidecarFailed,
                   check>>

\* coreio.Local.Write, in one step: RegistrySave has the truncation.
WriteSidecar(w) ==
    /\ writer[w] = "snapped"
    /\ writer' = [writer EXCEPT ![w] = "written"]
    /\ sidecarTmp' = {copied[w]}
    /\ UNCHANGED <<authMode, allowed, registered, copied, sidecar, overlap, sidecarFailed,
                   check>>

\* The call ends, and its snapshot with it.
EndChange(w) ==
    /\ writer' = [writer EXCEPT ![w] = "idle"]
    /\ copied' = [copied EXCEPT ![w] = {}]

RenameSidecar(w) ==
    /\ writer[w] = "written"
    /\ EndChange(w)
    /\ sidecar' \in sidecarTmp
    /\ sidecarTmp' = {}
    /\ UNCHANGED <<authMode, allowed, registered, overlap, sidecarFailed, check>>

\* The rename finds no file: an overlapping change has moved it.
SidecarMissing(w) ==
    /\ writer[w] = "written"
    /\ sidecarTmp = {}
    /\ EndChange(w)
    /\ sidecarFailed' = TRUE
    /\ UNCHANGED <<authMode, allowed, registered, sidecarTmp, sidecar, overlap, check>>

\* A file operation fails and the change stays in memory only; a rename that
\* fails deletes the temporary file.
SidecarFails(w) ==
    /\ writer[w] \in {"snapped", "written"}
    /\ EndChange(w)
    /\ sidecarFailed' = TRUE
    /\ sidecarTmp' = IF writer[w] = "written" THEN {} ELSE sidecarTmp
    /\ UNCHANGED <<authMode, allowed, registered, sidecar, overlap, check>>

--------------------------------------------------------------------------------
(* IsPeerAllowed. *)

\* The section under allowedPublicKeyMu; open mode answers at once.
ReadKeys(q, p, k) ==
    /\ check[q].stage # "read"
    /\ LET now == Rules(authMode, allowed, registered, p, k)
       IN check' = [check EXCEPT ![q] =
            [stage |-> IF authMode = "open" THEN "answered" ELSE "read",
             peer |-> p, key |-> k, keyAllowed |-> k \in allowed,
             answer |-> authMode = "open", ever |-> now # {}, steady |-> now]]
    /\ UNCHANGED <<authMode, allowed, registered, changeVars>>

MutReadPeersOnly(q) ==
    /\ check[q].stage = "read"
    /\ check' = [check EXCEPT ![q].stage = "answered",
                   ![q].answer = check[q].peer \in registered]
    /\ UNCHANGED <<authMode, allowed, registered, changeVars>>

MutReadPeers(q) ==
    /\ check[q].stage = "read"
    /\ check' = [check EXCEPT ![q].stage = "answered", ![q].answer = TRUE]
    /\ UNCHANGED <<authMode, allowed, registered, changeVars>>

\* The section under r.mu, and the answer.
ReadPeers(q) ==
    /\ check[q].stage = "read"
    /\ check' = [check EXCEPT ![q].stage = "answered",
                   ![q].answer = check[q].peer \in registered \/ check[q].keyAllowed]
    /\ UNCHANGED <<authMode, allowed, registered, changeVars>>

--------------------------------------------------------------------------------
\* The process ends, at any point, and loadAllowedPublicKeys runs in the next
\* one.  The registry comes back as it was at its last save, whenever that was.
Reload ==
    /\ authMode' = "open"
    /\ allowed' = sidecar
    /\ registered' \in SUBSET Peers
    /\ writer' = [w \in Writers |-> "idle"]
    /\ copied' = [w \in Writers |-> {}]
    /\ overlap' = FALSE
    /\ sidecarFailed' = FALSE
    /\ check' = [q \in Checkers |-> NoCheck]
    /\ UNCHANGED <<sidecarTmp, sidecar>>

AllowNext ==
    \/ \E mode \in {"open", "allowlist"} : SetAuthMode(mode)
    \/ \E p \in Peers : Register(p) \/ Unregister(p)
    \/ \E w \in Writers, k \in Keys : AllowPublicKey(w, k) \/ RevokePublicKey(w, k)
    \/ \E w \in Writers : TakeSnapshot(w) \/ WriteSidecar(w)
    \/ \E w \in Writers : RenameSidecar(w) \/ SidecarMissing(w) \/ SidecarFails(w)
    \/ \E q \in Checkers, p \in Peers, k \in Keys : ReadKeys(q, p, k)
    \/ \E q \in Checkers : ReadPeers(q)
    \/ Reload

AllowSpec == AllowInit /\ [][AllowNext]_allowVars

--------------------------------------------------------------------------------
\* A peer is let in only if the rule allowed it at some moment of the call,
\* although IsPeerAllowed reads the mode and the keys under one lock and the
\* registry under another (peer.go:217, 225).
TrueIsJustified ==
    \A q \in Checkers : check[q].stage = "answered" /\ check[q].answer => check[q].ever

\* A peer to which one and the same rule applies throughout the call is not
\* refused, whatever else changes meanwhile (peer.go:210).  It takes the same
\* rule: a registered peer whose key is allowed after the first lock section, and
\* which leaves the registry before the second, is refused.
SteadyRuleAdmits ==
    \A q \in Checkers :
      check[q].stage = "answered" /\ check[q].steady # {} => check[q].answer

Quiet == \A w \in Writers : writer[w] = "idle"

\* "saveAllowedPublicKeys persists the allowlist to disk immediately"
\* (peer.go:831): when every change has returned, the next start loads the
\* allowlist as it stands.  This takes changes that did not overlap: of two that
\* did, the older snapshot may be written last.
SequentialPersisted == Quiet /\ ~overlap /\ ~sidecarFailed => sidecar = allowed
================================================================================
