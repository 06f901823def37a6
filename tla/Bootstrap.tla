----------------------------- MODULE Bootstrap -----------------------------
(***************************************************************************)
(* The start of one process of the service (main.ts): the certificate      *)
(* files of a secure service are looked for and read one by one, then the  *)
(* gRPC and the HTTP server are created side by side and, when both        *)
(* creations have settled, each is started on its own.  Outside, the       *)
(* files come and go, as when a certificate is renewed.                    *)
(***************************************************************************)
EXTENDS Integers, Sequences

VARIABLES
    pc,         \* what the process is doing, or how it ended
    step,       \* how many files of the current series are dealt with
    secure,     \* DKA_SERVER_SECURE
    files,      \* the files that exist now
    credential, \* serverCredential: "insecure" or "ssl"
    https,      \* fastifyOptions.https is set
    grpc, http  \* the two servers

bootVars == <<pc, step, secure, files, credential, https, grpc, http>>

SSLPath == {"dir", "chain", "cert", "privkey"}

\* The order of existsSync, and of readFileSync: for gRPC, then for HTTP.
Checks == <<"dir", "chain", "cert", "privkey">>
Reads == <<"chain", "cert", "privkey", "chain", "privkey", "cert">>

BootInit ==
    /\ secure \in BOOLEAN
    /\ files \in SUBSET SSLPath
    /\ pc = IF secure THEN "check" ELSE "register"
    /\ step = 0
    /\ credential = "insecure" /\ https = FALSE
    /\ grpc = "none" /\ http = "none"

-----------------------------------------------------------------------------
\* existsSync; the first file that is missing ends the process with SIGTERM.
Check ==
    /\ pc = "check"
    /\ IF Checks[step + 1] \notin files THEN pc' = "killed" /\ UNCHANGED step
       ELSE IF step + 1 = Len(Checks) THEN pc' = "read" /\ step' = 0
       ELSE step' = step + 1 /\ UNCHANGED pc
    /\ UNCHANGED <<secure, files, credential, https, grpc, http>>

\* Mutant: a file that cannot be read leaves the defaults as they are.
ReadOrSkip ==
    /\ pc = "read"
    /\ IF Reads[step + 1] \notin files
       THEN pc' = "register" /\ UNCHANGED <<step, credential, https>>
       ELSE /\ step' = step + 1
            /\ credential' = IF step + 1 >= 3 THEN "ssl" ELSE credential
            /\ https' = (step + 1 = Len(Reads))
            /\ pc' = IF step + 1 = Len(Reads) THEN "register" ELSE pc
    /\ UNCHANGED <<secure, files, grpc, http>>

\* readFileSync; a file that has gone since it was looked for throws: the main
\* function rejects, and nothing is started.
Read ==
    /\ pc = "read"
    /\ IF Reads[step + 1] \notin files
       THEN pc' = "broken" /\ UNCHANGED <<step, credential, https>>
       ELSE /\ step' = step + 1
            /\ credential' = IF step + 1 >= 3 THEN "ssl" ELSE credential
            /\ https' = (step + 1 = Len(Reads))
            /\ pc' = IF step + 1 = Len(Reads) THEN "register" ELSE pc
    /\ UNCHANGED <<secure, files, grpc, http>>

\* The adapter and its CORS plugin, which may reject; then both creations begin.
Register ==
    /\ pc = "register"
    /\ \/ pc' = "create" /\ grpc' = "creating" /\ http' = "creating"
       \/ pc' = "broken" /\ UNCHANGED <<grpc, http>>
    /\ UNCHANGED <<step, secure, files, credential, https>>

\* A creation settles (the one of gRPC once the database is connected); Nest may
\* also end the process itself when a module cannot be set up.
Created(server) ==
    /\ pc = "create" /\ server = "creating"
    /\ UNCHANGED <<step, secure, files, credential, https>>

CreateGrpc ==
    /\ Created(grpc)
    /\ \/ grpc' \in {"fulfilled", "rejected"} /\ pc' = pc
       \/ pc' = "exited" /\ UNCHANGED grpc
    /\ UNCHANGED http

CreateHttp ==
    /\ Created(http)
    /\ \/ http' \in {"fulfilled", "rejected"} /\ pc' = pc
       \/ pc' = "exited" /\ UNCHANGED http
    /\ UNCHANGED grpc

\* Promise.allSettled.
Settle ==
    /\ pc = "create" /\ "creating" \notin {grpc, http}
    /\ pc' = "serve"
    /\ UNCHANGED <<step, secure, files, credential, https, grpc, http>>

\* listen() of each server that was created, with a catch of its own that logs.
ListenGrpc ==
    /\ pc = "serve" /\ grpc = "fulfilled"
    /\ grpc' \in {"listening", "failed"}
    /\ UNCHANGED <<pc, step, secure, files, credential, https, http>>

\* Mutant: the HTTP server is started in the continuation of the gRPC one.
ListenHttpThen ==
    /\ pc = "serve" /\ http = "fulfilled" /\ grpc = "listening"
    /\ http' \in {"listening", "failed"}
    /\ UNCHANGED <<pc, step, secure, files, credential, https, grpc>>

ListenHttp ==
    /\ pc = "serve" /\ http = "fulfilled"
    /\ http' \in {"listening", "failed"}
    /\ UNCHANGED <<pc, step, secure, files, credential, https, grpc>>

\* A renewal, or an operator, replaces files while the process starts.
FilesChange ==
    /\ pc \in {"check", "read"}
    /\ \E f \in SSLPath : files' \in {files \cup {f}, files \ {f}}
    /\ UNCHANGED <<pc, step, secure, credential, https, grpc, http>>

Main ==
    \/ Check \/ Read \/ Register \/ CreateGrpc \/ CreateHttp \/ Settle
    \/ ListenGrpc \/ ListenHttp

BootNext == Main \/ FilesChange

BootSpec ==
    /\ BootInit /\ [][BootNext]_bootVars
    /\ WF_bootVars(Main) /\ WF_bootVars(ListenGrpc) /\ WF_bootVars(ListenHttp)

-----------------------------------------------------------------------------
\* A service that was asked to be secure never listens without its certificate,
\* on either server, whatever happens to the files between looking for them and
\* reading them twice.
NeverPlain ==
    secure => /\ grpc = "listening" => credential = "ssl"
              /\ http = "listening" => https

\* A server that is created tries to listen, although the other one could not be
\* created or could not listen.
ServersApart ==
    /\ pc = "serve" /\ grpc = "fulfilled" ~> grpc \in {"listening", "failed"}
    /\ pc = "serve" /\ http = "fulfilled" ~> http \in {"listening", "failed"}
=============================================================================
