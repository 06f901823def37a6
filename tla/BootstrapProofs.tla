-------------------------- MODULE BootstrapProofs --------------------------
(***************************************************************************)
(* A secure service never listens without its certificate, whatever        *)
(* happens to the files while it starts.                                   *)
(***************************************************************************)
EXTENDS Bootstrap, TLAPS

\* How far the reads of the certificate files have come: the credential of gRPC is
\* complete with the third of them, the options of HTTP with the last.
ReadsOf ==
    /\ pc = "check" => step \in 0 .. 3
    /\ pc = "read" => step \in 0 .. 5 /\ (step >= 3 => credential = "ssl")

\* Nothing of a secure service is set up before everything was read, and a server
\* listens only when both of them were created.
SetUp ==
    secure =>
        /\ pc \in {"register", "create", "serve"} => credential = "ssl" /\ https
        /\ pc # "serve" => "listening" \notin {grpc, http}

BootInv == ReadsOf /\ SetUp

\* A process starts with nothing read and nothing set up.
LEMMA BootStarts == BootInit => BootInv
  BY DEF BootInit, BootInv, ReadsOf, SetUp

\* A look for a file.
LEMMA CheckKeeps == BootInv /\ Check => BootInv'
<1> SUFFICES ASSUME BootInv, Check
             PROVE  BootInv'
  OBVIOUS
<1> USE DEF BootInv, ReadsOf, SetUp, Check
<1>1. Len(Checks) = 4 /\ step \in 0 .. 3
  BY DEF Checks
<1>2. CASE Checks[step + 1] \notin files
  BY <1>1, <1>2
<1>3. CASE Checks[step + 1] \in files /\ step + 1 = Len(Checks)
  BY <1>1, <1>3
<1>4. CASE Checks[step + 1] \in files /\ step + 1 # Len(Checks)
  BY <1>1, <1>4
<1> QED  BY <1>2, <1>3, <1>4

\* The read of a file: the last one completes what both servers need.
LEMMA ReadKeeps == BootInv /\ Read => BootInv'
<1> SUFFICES ASSUME BootInv, Read
             PROVE  BootInv'
  OBVIOUS
<1> USE DEF BootInv, ReadsOf, SetUp, Read
<1>1. Len(Reads) = 6 /\ step \in 0 .. 5
  BY DEF Reads
<1>2. CASE Reads[step + 1] \notin files
  BY <1>1, <1>2
<1>3. CASE Reads[step + 1] \in files /\ step + 1 = Len(Reads)
  <2>1. https' = TRUE
    BY <1>3
  <2>2. credential' = "ssl" /\ pc' = "register" /\ UNCHANGED <<grpc, http, secure>>
    BY <1>1, <1>3
  <2>3. secure => "listening" \notin {grpc, http}
    OBVIOUS
  <2>4. pc' \notin {"check", "read", "serve"}
    BY <2>2
  <2>5. ReadsOf'
    BY <2>4
  <2>6. secure' => "listening" \notin {grpc', http'}
    BY <2>2, <2>3
  <2>7. credential' = "ssl" /\ https'
    BY <2>1, <2>2, Zenon
  <2>8. SetUp'
    BY <2>6, <2>7
  <2> QED  BY <2>5, <2>8
<1>4. CASE Reads[step + 1] \in files /\ step + 1 # Len(Reads)
  BY <1>1, <1>4
<1> QED  BY <1>2, <1>3, <1>4

\* Creating and starting the servers.
LEMMA ServersKeep ==
    BootInv /\ (Register \/ CreateGrpc \/ CreateHttp \/ Settle \/ ListenGrpc \/ ListenHttp)
        => BootInv'
<1> USE DEF BootInv, ReadsOf, SetUp
<1>1. BootInv /\ Register => BootInv'
  BY DEF Register
<1>2. BootInv /\ (CreateGrpc \/ CreateHttp) => BootInv'
  BY DEF CreateGrpc, CreateHttp, Created
<1>3. BootInv /\ Settle => BootInv'
  BY DEF Settle
<1>4. BootInv /\ (ListenGrpc \/ ListenHttp) => BootInv'
  BY DEF ListenGrpc, ListenHttp
<1> QED  BY <1>1, <1>2, <1>3, <1>4

\* Every step of the process, and every change of the files.
LEMMA BootStays == BootInv /\ [BootNext]_bootVars => BootInv'
<1>1. BootInv /\ FilesChange => BootInv'
  BY DEF FilesChange, BootInv, ReadsOf, SetUp
<1>2. BootInv /\ UNCHANGED bootVars => BootInv'
  BY DEF bootVars, BootInv, ReadsOf, SetUp
<1> QED  BY <1>1, <1>2, CheckKeeps, ReadKeeps, ServersKeep DEF BootNext, Main

\* A service that was asked to be secure never listens without its certificate, on
\* either server, however the files come and go while main.ts looks for them and
\* reads them twice: a file that is gone stops the start.
THEOREM NeverPlainHolds == BootSpec => []NeverPlain
<1>1. BootInv => NeverPlain
  BY DEF BootInv, SetUp, NeverPlain
<1> QED  BY <1>1, BootStarts, BootStays, PTL DEF BootSpec
=============================================================================
