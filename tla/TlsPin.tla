-------------------------------- MODULE TlsPin --------------------------------
(***************************************************************************)
(* The server's certificate: syn_connect of net.c tries the addresses of   *)
(* the host one by one, and a handshake counts only if the certificate's   *)
(* hash is the one in tls/hash/<host>, which is written on first use       *)
(* (--enable-tofu).  The program may die at any point; what it has written *)
(* stays.  A hash is modelled by its certificate.                          *)
(***************************************************************************)
EXTENDS Integers

CONSTANTS
  Certs,      \* the certificates a peer may show
  Addresses,  \* how many addresses getaddrinfo returns
  UserPins,   \* the user, or a second client, may write the file meanwhile
  DiskFails   \* a file may fail to open, to be read or, half-way, to be written

ASSUME TlsAssumption ==
  /\ Certs \cap {"absent", "part"} = {} /\ Addresses \in Nat \ {0}
  /\ UserPins \in BOOLEAN /\ DiskFails \in BOOLEAN

None == "absent"    \* no file, no hash
Part == "part"      \* an empty file, or the beginning of a hash

VARIABLES
  tofu,       \* tls_tofu
  stage,      \* where syn_connect is; "down" and "up" outside
  address,    \* the address tried
  stored,     \* the file tls/hash/<host>
  tlsHash,    \* tls_hash
  peer,       \* the certificate of the peer
  first,      \* history: the certificate of the first connection that came up
  pinned,     \* history: the certificates the user has stored
  edited,     \* history: the file has been written from outside
  unread      \* history: a hash was there and could not be read

history == <<first, pinned, edited, unread>>
tlsVars == <<tofu, stage, address, stored, tlsHash, peer, history>>

TlsTypeOK ==
  /\ tofu \in BOOLEAN /\ edited \in BOOLEAN /\ unread \in BOOLEAN
  /\ stage \in {"down", "setup", "handshake", "create", "write", "compare", "mismatch", "up"}
  /\ address \in 1..Addresses
  /\ stored \in Certs \cup {None, Part} /\ tlsHash \in Certs \cup {None, Part}
  /\ peer \in Certs \cup {None} /\ first \in Certs \cup {None} /\ pinned \subseteq Certs

TlsInit ==
  /\ tofu \in BOOLEAN /\ edited = FALSE /\ unread = FALSE
  /\ stage = "down" /\ address = 1 /\ stored \in Certs \cup {None}
  /\ tlsHash = None /\ peer = None /\ first = None
  /\ pinned = {stored} \ {None}

(* synNetDisconnect *)
Forget == tlsHash' = None /\ peer' = None

(* syn_connect_setup has failed: on to the next address, if there is one *)
TryNext ==
  /\ Forget
  /\ IF address < Addresses THEN stage' = "setup" /\ address' = address + 1
                            ELSE stage' = "down" /\ address' = 1
NextAddress == TryNext /\ UNCHANGED <<tofu, stored, history>>

(* syn_connect, also when a connection is up *)
Connect ==
  /\ stage \in {"down", "up"}
  /\ stage' = "setup" /\ address' = 1
  /\ Forget
  /\ UNCHANGED <<tofu, stored, history>>

LoadNoHash ==       \* mutant: a hash that is missing is left for later in any case
  /\ stage = "setup"
  /\ stage' = "handshake" /\ tlsHash' = stored
  /\ UNCHANGED <<tofu, address, stored, peer, history>>
(* socket, connect and the TLS set-up; load_cert_hash *)
LoadHash ==
  /\ stage = "setup"
  /\ stored # None \/ tofu
  /\ stage' = "handshake" /\ tlsHash' = stored
  /\ UNCHANGED <<tofu, address, stored, peer, history>>

(* load_cert_hash returns NULL for a file that is there as well, if it       *)
(* cannot be opened or read: taken for the first use.                       *)
LoadFails ==
  /\ DiskFails /\ tofu
  /\ stage = "setup" /\ stored # None
  /\ stage' = "handshake" /\ tlsHash' = None /\ unread' = TRUE
  /\ UNCHANGED <<tofu, address, stored, peer, first, pinned, edited>>

(* "No certificate hash available", or any failure on the way *)
SetupFails == stage \in {"setup", "handshake"} /\ NextAddress

Handshake ==
  /\ stage = "handshake"
  /\ \E cert \in Certs : peer' = cert
  /\ stage' = IF tlsHash = None THEN "create" ELSE "compare"
  /\ UNCHANGED <<tofu, address, stored, tlsHash, history>>

(* store_cert_hash: configWriteString opens the file (not with O_EXCL, that *)
(* is for overwriting) and then writes to it.                               *)
CreateFile ==
  /\ stage = "create"
  /\ stage' = "write" /\ tlsHash' = peer
  /\ stored' = IF stored = None THEN Part ELSE stored
  /\ UNCHANGED <<tofu, address, peer, history>>

CreateFails == DiskFails /\ stage = "create" /\ NextAddress

WriteHash ==
  /\ stage = "write"
  /\ stage' = "compare" /\ stored' = peer
  /\ UNCHANGED <<tofu, address, tlsHash, peer, history>>

WriteIgnored ==     \* mutant: a connection that cannot be saved goes on
  /\ DiskFails /\ stage = "write"
  /\ stage' = "compare" /\ stored' = Part
  /\ UNCHANGED <<tofu, address, tlsHash, peer, history>>
(* "otherwise, 'trust on first use' just becomes 'trust on every use'" *)
WriteFails ==
  /\ DiskFails /\ stage = "write"
  /\ stored' \in {stored, Part}
  /\ TryNext
  /\ UNCHANGED <<tofu, history>>

CompareAfterwards ==     \* mutant: the result is logged, and that is all
  /\ stage = "compare"
  /\ stage' = "up" /\ first' = IF first = None THEN peer ELSE first
  /\ UNCHANGED <<tofu, address, stored, tlsHash, peer, pinned, edited, unread>>
Compare ==
  /\ stage = "compare"
  /\ IF tlsHash = peer
     THEN stage' = "up" /\ first' = IF first = None THEN peer ELSE first
     ELSE stage' = "mismatch" /\ UNCHANGED first
  /\ UNCHANGED <<tofu, address, stored, tlsHash, peer, pinned, edited, unread>>

(* "CERTIFICATE HASH MISMATCH" *)
Mismatch == stage = "mismatch" /\ NextAddress

(* The program is killed, and started again. *)
Dies ==
  /\ stage' = "down" /\ address' = 1 /\ Forget
  /\ UNCHANGED <<tofu, stored, history>>

UserStores ==
  /\ UserPins
  /\ \E cert \in Certs : stored' = cert /\ pinned' = pinned \cup {cert}
  /\ edited' = TRUE
  /\ UNCHANGED <<tofu, stage, address, tlsHash, peer, first, unread>>

TlsNext ==
  \/ Connect \/ LoadHash \/ LoadFails \/ SetupFails \/ Handshake
  \/ CreateFile \/ CreateFails \/ WriteHash \/ WriteFails \/ Compare \/ Mismatch
  \/ Dies \/ UserStores

TlsSpec == TlsInit /\ [][TlsNext]_tlsVars

-----------------------------------------------------------------------------
(* Properties. *)

(* While a connection is up, the hash it was checked against is on disk, if *)
(* no one else has written there, whatever crashes and failures to read or  *)
(* write came before.                                                       *)
UpMeansStored == stage = "up" /\ ~edited => stored = peer

(* Trust is given once: however often the program died and a file could not *)
(* be created or written, every connection that comes up is to the          *)
(* certificate of the first one, until the user writes another hash -- or a *)
(* hash that is there cannot be read, which the program takes for the first *)
(* use, to trust any certificate and to overwrite the hash.                 *)
OneServer ==
  [][stage' = "up" /\ stage # "up" /\ ~edited /\ ~unread => first \in {None, peer}]_tlsVars

(* Without trust on first use the program writes no hash, and the peer it   *)
(* connects to has shown a certificate that the user has stored, before     *)
(* this attempt or at the latest during it.                                 *)
OnlyTheUserTrusts ==
  [][~tofu => /\ stored' = stored \/ UserStores
              /\ stage' = "up" => peer' \in pinned]_tlsVars
===============================================================================
