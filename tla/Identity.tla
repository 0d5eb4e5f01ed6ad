------------------------------- MODULE Identity --------------------------------
(***************************************************************************)
(* The identity of a node in memory and in its two files, the private key  *)
(* and the public identity (go/node/identity.go): loading, generating and  *)
(* deleting it, with crashes and failing file operations in between.       *)
(*                                                                         *)
(* A key pair is a number, and the ID and public key that are derived from *)
(* it are the same number.  A file is absent (Absent), good, or Torn: a    *)
(* write empties it before it fills it.  Reading a good file may fail.     *)
(***************************************************************************)
EXTENDS Integers, FiniteSets

CONSTANTS
    Managers,  \* NodeManagers that use the files
    MaxKeys,   \* bound: key pairs that are generated
    Absent,    \* no file, no identity
    Torn       \* a file that cannot be read

Keys == 1..MaxKeys

ASSUME IdentityAssumption ==
    /\ MaxKeys \in Nat
    /\ Absent \notin Keys /\ Torn \notin Keys /\ Absent # Torn

VARIABLES
    keyFile,     \* contents of keyPath
    configFile,  \* contents of configPath
    step,        \* step[m]: "down", "up", or what a call of the manager does next
    identity,    \* identity[m]: n.identity
    privateKey,  \* privateKey[m]: n.privateKey, n.keyPair
    creating,    \* managers in LoadOrCreateIdentityWithPaths
    generated,   \* number of key pairs generated
    misread,     \* history: managers whose load failed to read a good file
    granted,     \* history: identities a successful call left its caller with, since
                 \* the last Delete or replacement of an identity that succeeded
    broken,      \* history: a Delete or a replacement has begun, and none succeeded since;
                 \* a failure to read good files begins one in LoadOrCreateIdentity
    deleted      \* history: key pairs generated before the last successful Delete

hist == <<misread, granted, broken, deleted>>
identityVars == <<keyFile, configFile, step, identity, privateKey, creating, generated, hist>>

IdentityInit ==
    /\ keyFile = Absent
    /\ configFile = Absent
    /\ step = [m \in Managers |-> "down"]
    /\ identity = [m \in Managers |-> Absent]
    /\ privateKey = [m \in Managers |-> Absent]
    /\ creating = {}
    /\ generated = 0
    /\ misread = {}
    /\ granted = {}
    /\ broken = FALSE
    /\ deleted = 0

Goto(m, s) == step' = [step EXCEPT ![m] = s]

--------------------------------------------------------------------------------
(* Loading. *)

\* A load of m could not read a file with this content.
ReadFails(m, content) ==
    misread' = IF content \in Keys THEN misread \cup {m} ELSE misread

\* NewNodeManagerWithPaths, from LoadOrCreateIdentityWithPaths or not, reads
\* the config.  Bound: no identity is created when all keys are used up.
StartLoad(m) ==
    /\ step[m] = "down"
    /\ creating' \in {creating, creating \cup {x \in {m} : generated < MaxKeys}}
    /\ \/ /\ configFile \in Keys
          /\ identity' = [identity EXCEPT ![m] = configFile]
          /\ Goto(m, "loadKey")
          /\ UNCHANGED misread
       \/ /\ ReadFails(m, configFile)
          /\ Goto(m, "loaded")
          /\ UNCHANGED identity
    /\ UNCHANGED <<keyFile, configFile, privateKey, generated, granted, broken, deleted>>

\* loadIdentity reads the key; nothing compares it with the config.  Without
\* a key there is no identity.
LoadKey(m) ==
    /\ step[m] = "loadKey"
    /\ \/ /\ keyFile \in Keys
          /\ privateKey' = [privateKey EXCEPT ![m] = keyFile]
          /\ UNCHANGED <<identity, misread>>
       \/ /\ ReadFails(m, keyFile)
          /\ identity' = [identity EXCEPT ![m] = Absent]
          /\ UNCHANGED privateKey
    /\ Goto(m, "loaded")
    /\ UNCHANGED <<keyFile, configFile, creating, generated, granted, broken, deleted>>

\* A new key pair is in memory, and its private key is to be saved.
NewKeyPair(m) ==
    /\ generated < MaxKeys
    /\ generated' = generated + 1
    /\ identity' = [identity EXCEPT ![m] = generated']
    /\ privateKey' = [privateKey EXCEPT ![m] = generated']
    /\ Goto(m, "saveKey")
    /\ UNCHANGED <<keyFile, configFile>>

MutHasIdentity(m) == FALSE

HasIdentity(m) == identity[m] # Absent

\* LoadOrCreateIdentityWithPaths finds no identity loaded and generates one,
\* whatever the reason.
Create(m) ==
    /\ step[m] = "loaded"
    /\ m \in creating
    /\ ~HasIdentity(m)
    /\ NewKeyPair(m)
    /\ broken' = (broken \/ (m \in misread /\ granted # {}))
    /\ UNCHANGED <<creating, misread, granted, deleted>>

\* The caller has its manager; whoever does not create may get one without an
\* identity.
EndLoad(m) ==
    /\ step[m] = "loaded"
    /\ m \in creating => HasIdentity(m)
    /\ creating' = creating \ {m}
    /\ misread' = misread \ {m}
    /\ granted' = granted \cup ({identity[m]} \ {Absent})
    /\ Goto(m, "up")
    /\ UNCHANGED <<keyFile, configFile, identity, privateKey, generated, broken, deleted>>

--------------------------------------------------------------------------------
(* GenerateIdentity, under n.mu. *)

\* It may replace an identity, and may be called again when it failed.
Generate(m) ==
    /\ step[m] = "up"
    /\ NewKeyPair(m)
    /\ broken' = (broken \/ granted # {})
    /\ UNCHANGED <<creating, misread, granted, deleted>>

\* savePrivateKey and saveIdentity empty their file, then fill it.
OpenFile(m) ==
    /\ \/ /\ step[m] = "saveKey"
          /\ keyFile' = Torn
          /\ Goto(m, "writeKey")
          /\ UNCHANGED configFile
       \/ /\ step[m] = "saveConfig"
          /\ configFile' = Torn
          /\ Goto(m, "writeConfig")
          /\ UNCHANGED keyFile
    /\ UNCHANGED <<identity, privateKey, creating, generated, hist>>

WriteKey(m) ==
    /\ step[m] = "writeKey"
    /\ keyFile' = privateKey[m]
    /\ Goto(m, "saveConfig")
    /\ UNCHANGED <<configFile, identity, privateKey, creating, generated, hist>>

WriteConfig(m) ==
    /\ step[m] = "writeConfig"
    /\ configFile' = identity[m]
    /\ creating' = creating \ {m}
    /\ misread' = misread \ {m}
    /\ granted' = (IF broken THEN {} ELSE granted) \cup {identity[m]}
    /\ broken' = FALSE
    /\ Goto(m, "up")
    /\ UNCHANGED <<keyFile, identity, privateKey, generated, deleted>>

\* The directory, the write or the change of mode fails.  The caller of
\* LoadOrCreateIdentityWithPaths gets no manager; a caller of GenerateIdentity
\* has one that keeps the unsaved identity.
SaveFails(m) ==
    /\ step[m] \in {"saveKey", "saveConfig", "writeKey", "writeConfig"}
    /\ keyFile' \in IF step[m] = "writeKey" THEN {keyFile, privateKey[m]} ELSE {keyFile}
    /\ IF m \in creating
         THEN /\ identity' = [identity EXCEPT ![m] = Absent]
              /\ privateKey' = [privateKey EXCEPT ![m] = Absent]
              /\ Goto(m, "down")
         ELSE Goto(m, "up") /\ UNCHANGED <<identity, privateKey>>
    /\ creating' = creating \ {m}
    /\ misread' = misread \ {m}
    /\ UNCHANGED <<configFile, generated, granted, broken, deleted>>

--------------------------------------------------------------------------------
(* Delete, under n.mu: the key, the config, and what is in memory. *)

StartDelete(m) ==
    /\ step[m] = "up"
    /\ broken' = TRUE
    /\ Goto(m, "deleteKey")
    /\ UNCHANGED <<keyFile, configFile, identity, privateKey, creating, generated,
                   misread, granted, deleted>>

DeleteKey(m) ==
    /\ step[m] = "deleteKey"
    /\ keyFile' = Absent
    /\ Goto(m, "deleteConfig")
    /\ UNCHANGED <<configFile, identity, privateKey, creating, generated, hist>>

MutDeleteConfigKept(m) ==
    /\ step[m] = "deleteConfig"
    /\ identity' = [identity EXCEPT ![m] = Absent]
    /\ privateKey' = [privateKey EXCEPT ![m] = Absent]
    /\ granted' = {}
    /\ broken' = FALSE
    /\ deleted' = generated
    /\ Goto(m, "up")
    /\ UNCHANGED <<keyFile, configFile, creating, generated, misread>>

DeleteConfig(m) ==
    /\ step[m] = "deleteConfig"
    /\ configFile' = Absent
    /\ identity' = [identity EXCEPT ![m] = Absent]
    /\ privateKey' = [privateKey EXCEPT ![m] = Absent]
    /\ granted' = {}
    /\ broken' = FALSE
    /\ deleted' = generated
    /\ Goto(m, "up")
    /\ UNCHANGED <<keyFile, creating, generated, misread>>

\* A file that is there cannot be removed.
DeleteFails(m) ==
    /\ \/ step[m] = "deleteKey" /\ keyFile # Absent
       \/ step[m] = "deleteConfig" /\ configFile # Absent
    /\ Goto(m, "up")
    /\ UNCHANGED <<keyFile, configFile, identity, privateKey, creating, generated, hist>>

--------------------------------------------------------------------------------
\* The process of a manager ends, between calls or anywhere.
Exit(m) ==
    /\ step[m] # "down"
    /\ Goto(m, "down")
    /\ identity' = [identity EXCEPT ![m] = Absent]
    /\ privateKey' = [privateKey EXCEPT ![m] = Absent]
    /\ creating' = creating \ {m}
    /\ misread' = misread \ {m}
    /\ UNCHANGED <<keyFile, configFile, generated, granted, broken, deleted>>

IdentityNext ==
    \E m \in Managers :
      \/ StartLoad(m) \/ LoadKey(m) \/ Create(m) \/ EndLoad(m)
      \/ Generate(m) \/ OpenFile(m) \/ WriteKey(m) \/ WriteConfig(m) \/ SaveFails(m)
      \/ StartDelete(m) \/ DeleteKey(m) \/ DeleteConfig(m) \/ DeleteFails(m)
      \/ Exit(m)

IdentitySpec == IdentityInit /\ [][IdentityNext]_identityVars

--------------------------------------------------------------------------------
\* A node stays who it is: once a call has succeeded, every later start of the
\* node that finds an identity finds that same one, with the private key it is
\* bound to, whatever crashed or failed before or since (identity.go:201, 207,
\* 289), until it is deleted or replaced; either of them, cut short, may leave
\* halves of two.  LoadOrCreateIdentity replaces an identity that is on disk
\* when it fails to read it, and only then.  This takes a single manager over
\* the files.
IdentityKept ==
    ~broken => /\ \A m \in Managers : step[m] = "up" => identity[m] = privateKey[m]
               /\ Cardinality(granted) <= 1

\* "Removes key and config from disk" (docs/identity.md:84): once Delete has
\* succeeded, no start of the node ever comes up as an identity from before,
\* whatever crashes or fails later on; with a single manager.
NoResurrection ==
    \A m \in Managers : step[m] = "up" /\ identity[m] # Absent => identity[m] > deleted

\* "creates a new dual-role identity if no persisted identity exists"
\* (identity.go:127): LoadOrCreateIdentity generates a key pair only if the
\* files do not hold an identity.  A failing read of either breaks it.
CreatesOnlyIfNone ==
    [][\A m \in Managers : Create(m) => keyFile \notin Keys \/ configFile \notin Keys]_identityVars
================================================================================
