------------------------ MODULE CertificateAuthority ------------------------
(***************************************************************************)
(* ca.LoadOrCreate: the server's internal CA, three files written one      *)
(* after the other at the first start and loaded at the next ones.         *)
(*                                                                         *)
(* A creation is named by its number: its key pair, its certificate and    *)
(* its salt. os.WriteFile is not atomic: a process that ends in the middle *)
(* leaves a Torn file, which exists and cannot be read back.               *)
(***************************************************************************)
EXTENDS Integers

CONSTANTS
  MaxRoots,  \* creations: bounds the behaviours
  Absent,    \* no such file
  Torn       \* a file whose writing was interrupted

VARIABLES
  caFiles,  \* ca.crt, ca.salt, ca.key.enc: the creation each one is of
  boot,     \* where the server's start stands: "down", a file, or "up"
  root,     \* CA.cert in the server's memory, 0 when it is not up
  signer,   \* CA.key, likewise
  drawn,    \* creations so far
  served    \* history: the roots this server has been up with

caVars == <<caFiles, boot, root, signer, drawn, served>>

Roots   == 1..MaxRoots
CAFiles == {"cert", "salt", "key"}

CATypeOK ==
  /\ caFiles \in [CAFiles -> Roots \cup {Absent, Torn}]
  /\ boot \in CAFiles \cup {"down", "up"}
  /\ root \in 0..MaxRoots /\ signer \in 0..MaxRoots
  /\ drawn \in 0..MaxRoots
  /\ served \subseteq Roots

CAInit ==
  /\ caFiles = [f \in CAFiles |-> Absent]
  /\ boot = "down" /\ root = 0 /\ signer = 0
  /\ drawn = 0 /\ served = {}

Up(r, s) ==
  /\ boot' = "up"
  /\ root' = r /\ signer' = s
  /\ served' = served \cup {r}

\* load, when the three files exist. The key only opens with the salt it was
\* sealed with; that it is the certificate's key is not checked. A start
\* that fails ends the process (log.Fatalf): the server stays down.
Load ==
  /\ boot = "down"
  /\ \A f \in CAFiles : caFiles[f] \in Roots
  /\ caFiles["key"] = caFiles["salt"]
  /\ Up(caFiles["cert"], caFiles["key"])
  /\ UNCHANGED <<caFiles, drawn>>

\* create, when one of them is missing.
Create ==
  /\ boot = "down"
  /\ \E f \in CAFiles : caFiles[f] = Absent
  /\ drawn < MaxRoots
  /\ drawn' = drawn + 1
  /\ boot' = "cert"
  /\ UNCHANGED <<caFiles, root, signer, served>>

\* Mutant: a file that is already there is kept.
CreateWriteMissing ==
  /\ boot \in CAFiles
  /\ caFiles' = IF caFiles[boot] = Absent THEN [caFiles EXCEPT ![boot] = drawn] ELSE caFiles
  /\ IF boot = "key"
       THEN Up(drawn, drawn)
       ELSE /\ boot' = IF boot = "cert" THEN "salt" ELSE "key"
            /\ UNCHANGED <<root, signer, served>>
  /\ UNCHANGED drawn

\* create's next file, in this order: certificate, salt, key.
CreateWrite ==
  /\ boot \in CAFiles
  /\ caFiles' = [caFiles EXCEPT ![boot] = drawn]
  /\ IF boot = "key"
       THEN Up(drawn, drawn)
       ELSE /\ boot' = IF boot = "cert" THEN "salt" ELSE "key"
            /\ UNCHANGED <<root, signer, served>>
  /\ UNCHANGED drawn

\* The server ends, or fails to start, possibly while it writes a file.
CAStop ==
  /\ boot # "down"
  /\ boot' = "down" /\ root' = 0 /\ signer' = 0
  /\ \/ UNCHANGED caFiles
     \/ boot \in CAFiles /\ caFiles' = [caFiles EXCEPT ![boot] = Torn]
  /\ UNCHANGED <<drawn, served>>

\* What agents pin is worth pinning: whatever starts were interrupted, a
\* server that is up signs with the key of its certificate, and has the one
\* certificate it has always had when it was up.
RootIsStable ==
  boot = "up" => signer = root /\ served = {root}
=============================================================================
