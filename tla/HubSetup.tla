------------------------------ MODULE HubSetup ------------------------------
(***************************************************************************)
(* The setup of the hub core: directories, the CA, the server key and the  *)
(* keys of the message server, as the core itself and the setup command    *)
(* run it, with crashes between and within the writes of files.  Without   *)
(* its flag --new the command does what the core does before it starts the *)
(* server, so the model has the command with the flag only.                *)
(*                                                                         *)
(* A key is the number of the process that created it, a certificate the   *)
(* number of the key that it is for.  The server key, the server           *)
(* certificate, the public keys and the key of the system user are left    *)
(* out: a start replaces those it cannot use, and nothing else depends on  *)
(* them.                                                                   *)
(***************************************************************************)
EXTENDS Integers

CONSTANTS
    MaxRuns,     \* bound: processes that run Setup
    MaxCrashes   \* bound: crashes of such a process

ASSUME BoundsAssumption == MaxRuns \in Nat \ {0} /\ MaxCrashes \in Nat

\* The clients whose key and token are in files.
FileClients == {"launcher", "admin", "certs"}

Absent == 0

\* What a crash within os.WriteFile leaves: no loader accepts it, and its mode
\* does not let its owner write it again.
Partial == -1

Valid(content) == content > 0

\* NewKeyFromFile and LoadX509CertFromPEM: the value, or none with an error.
NewKeyFromFile(content) == IF Valid(content) THEN content ELSE 0

LoadX509CertFromPEM(content) == IF Valid(content) THEN content ELSE 0

\* x509.CreateCertificate signs with the key of the CA certificate only.
Signs(caCert, caKey) == caCert = caKey

Contents == {Absent, Partial} \union 1..MaxRuns

VARIABLES
    coreFile,   \* caKey, caCert and appKey in the certs directory
    keyFile,    \* {clientID}.key
    tokenFile,  \* is there a {clientID}.token?  Its text is the public key, which
                \* ConnectWithToken does not need
    dataDir,    \* does the data directory of the message server exist?
    proc,       \* the process: its step and the fields of its HubCoreConfig
    cut,        \* has a crash interrupted the removal of an old setup?
    used        \* bounds: processes, crashes and removals so far

files == <<coreFile, keyFile, tokenFile, dataDir>>

setupVars == <<coreFile, keyFile, tokenFile, dataDir, proc, cut, used>>

CoreFiles == {"caKey", "caCert", "appKey"}

\* The steps of Setup, in the order of the code.
SetupSteps ==
    {"dirs", "remove", "loadCA", "caKey", "caCert", "serverCert", "appKey", "adminKP",
     "dataDir"}

\* The steps of run and of AuthService.Start.
StartSteps ==
    {"start", "auth", "permissions", "launcherKey", "launcher", "launcherToken",
     "adminKey", "admin", "adminToken"}

Off ==
    [pc |-> "off", new |-> FALSE, run |-> 0,
     CaCert |-> 0, CaKey |-> 0, keys |-> FALSE]

SetupInit ==
    /\ coreFile = [f \in CoreFiles |-> Absent]
    /\ keyFile = [c \in FileClients |-> Absent]
    /\ tokenFile = [c \in FileClients |-> FALSE]
    /\ dataDir = FALSE
    /\ proc = Off
    /\ cut = FALSE
    /\ used = [runs |-> 0, crashes |-> 0, news |-> 0]

At(step) == proc.pc = step

Goto(step) == proc' = [proc EXCEPT !.pc = step]

\* The process ends: done, by an error that main prints, or by a panic.
Exit == proc' = Off

LastRun == proc.run = MaxRuns

-----------------------------------------------------------------------------
\* Setup

\* main of the core, or HandleSetup of the command line with --new.
\* The last process that the bounds allow is the core.
Launch(new) ==
    /\ At("off")
    /\ used.runs < MaxRuns
    /\ new => used.news = 0 /\ used.runs < MaxRuns - 1
    /\ proc' = [Off EXCEPT !.pc = "dirs", !.new = new, !.run = used.runs + 1]
    /\ used' = [used EXCEPT !.runs = @ + 1, !.news = IF new THEN 1 ELSE @]
    /\ UNCHANGED <<files, cut>>

\* setupDirectories.  Neither main nor HandleSetup assigns cfg.Env; with the
\* empty home directory that leaves, MkdirAll fails and Setup ends.
setupDirectories(env) ==
    /\ At("dirs")
    /\ IF env THEN Goto(IF proc.new THEN "remove" ELSE "loadCA") ELSE Exit
    /\ UNCHANGED <<files, cut, used>>

\* RemoveAll of the certs and the stores directory; the users go with the latter.
RemoveAll ==
    /\ At("remove")
    /\ coreFile' = [f \in CoreFiles |-> Absent]
    /\ keyFile' = [c \in FileClients |-> Absent]
    /\ tokenFile' = [c \in FileClients |-> FALSE]
    /\ dataDir' = FALSE
    /\ cut' = FALSE
    /\ Goto("loadCA")
    /\ UNCHANGED used

\* Mutant: the error of a step before is taken for that of the load.
LoadCA_StaleError ==
    /\ At("loadCA")
    /\ Goto("caKey")
    /\ UNCHANGED <<files, cut, used>>

\* setupCerts, 1: load the CA; the key only if the certificate was loaded.
LoadCA ==
    /\ At("loadCA")
    /\ LET cert == LoadX509CertFromPEM(coreFile.caCert)
           key  == IF cert # 0 THEN NewKeyFromFile(coreFile.caKey) ELSE 0
       IN proc' = [proc EXCEPT !.CaCert = cert, !.CaKey = key,
                               !.pc = IF cert # 0 /\ key # 0 THEN "serverCert" ELSE "caKey"]
    /\ UNCHANGED <<files, cut, used>>

\* CreateCA: a new key and a certificate for it.
CreateCA == [cert |-> proc.run, key |-> proc.run]

\* Mutant: the certificate is saved first, the key after it.
ExportCaKey_CertFirst ==
    /\ At("caKey")
    /\ coreFile' = [coreFile EXCEPT !.caCert = CreateCA.cert]
    /\ proc' = [proc EXCEPT !.CaCert = CreateCA.cert, !.CaKey = CreateCA.key, !.pc = "caCert"]
    /\ UNCHANGED <<keyFile, tokenFile, dataDir, cut, used>>

\* Mutant: the old file is not removed first.
ExportCaKey_Overwrite ==
    /\ At("caKey")
    /\ IF coreFile.caKey = Absent
       THEN /\ coreFile' = [coreFile EXCEPT !.caKey = CreateCA.key]
            /\ proc' = [proc EXCEPT !.CaCert = CreateCA.cert, !.CaKey = CreateCA.key,
                                    !.pc = "caCert"]
       ELSE Exit /\ UNCHANGED coreFile
    /\ UNCHANGED <<keyFile, tokenFile, dataDir, cut, used>>

\* setupCerts, 2: a new CA; its key is exported first.
ExportCaKey ==
    /\ At("caKey")
    /\ coreFile' = [coreFile EXCEPT !.caKey = CreateCA.key]
    /\ proc' = [proc EXCEPT !.CaCert = CreateCA.cert, !.CaKey = CreateCA.key, !.pc = "caCert"]
    /\ UNCHANGED <<keyFile, tokenFile, dataDir, cut, used>>

\* SaveX509CertToPEM.
SaveCaCert ==
    /\ At("caCert")
    /\ coreFile' = [coreFile EXCEPT !.caCert = proc.CaCert]
    /\ Goto("serverCert")
    /\ UNCHANGED <<keyFile, tokenFile, dataDir, cut, used>>

\* setupCerts, 3: the server key, loaded or created, and a new certificate for it.
\* CreateServerCert fails with a key that is not the CA's, and setupCerts panics.
CreateServerCert ==
    /\ At("serverCert")
    /\ IF Signs(proc.CaCert, proc.CaKey) THEN Goto("appKey") ELSE Exit
    /\ UNCHANGED <<files, cut, used>>

\* NatsServerConfig.Setup, step 3: the account key.  Without a Remove first the
\* write fails over a file that is there but does not load; Setup then returns
\* before it has made the other keys.
LoadAppKey ==
    /\ At("appKey")
    /\ IF coreFile.appKey = Partial
       THEN Goto("dataDir") /\ UNCHANGED coreFile
       ELSE /\ coreFile' = [coreFile EXCEPT !.appKey = IF @ = Absent THEN proc.run ELSE @]
            /\ Goto("adminKP")
    /\ UNCHANGED <<keyFile, tokenFile, dataDir, cut, used>>

\* Step 4: the keys, with LoadCreateUserKP for the administrator, whose error
\* of the write is ignored.
LoadCreateUserKP ==
    /\ At("adminKP")
    /\ keyFile' = [keyFile EXCEPT !["admin"] = IF @ = Absent THEN proc.run ELSE @]
    /\ proc' = [proc EXCEPT !.keys = TRUE, !.pc = "dataDir"]
    /\ UNCHANGED <<coreFile, tokenFile, dataDir, cut, used>>

\* The end of setupNatsCore.  Creating the data directory overwrites the error
\* of NatsServer.Setup; otherwise the error is a panic.  A setup command is done.
EnsureDataDir ==
    /\ At("dataDir")
    /\ dataDir' = TRUE
    /\ IF (proc.keys \/ ~dataDir) /\ ~proc.new THEN Goto("start") ELSE Exit
    /\ UNCHANGED <<coreFile, keyFile, tokenFile, cut, used>>

SetupStep ==
    \/ \E env \in IF LastRun THEN {TRUE} ELSE BOOLEAN : setupDirectories(env)
    \/ LoadCA \/ ExportCaKey \/ SaveCaCert \/ CreateServerCert
    \/ LoadAppKey \/ LoadCreateUserKP \/ EnsureDataDir

-----------------------------------------------------------------------------
\* Crashes

\* The write of a step is not begun, has removed the file, or is half done.
TornReplace(old) == {old, Absent, Partial}

\* os.WriteFile alone: where the file is there and is not writable, no change.
TornCreate(old) == IF old = Absent THEN {Absent, Partial} ELSE {old}

\* What a crash at this step leaves of the files of the core.  Of a removal it
\* leaves any of them.
TornCoreFiles ==
    CASE At("remove") ->
           {[f \in CoreFiles |-> IF f \in kept THEN coreFile[f] ELSE Absent] :
               kept \in SUBSET CoreFiles}
      [] At("caKey")  -> {[coreFile EXCEPT !.caKey = x] : x \in TornReplace(coreFile.caKey)}
      [] At("caCert") -> {[coreFile EXCEPT !.caCert = x] : x \in TornReplace(coreFile.caCert)}
      [] At("appKey") -> {[coreFile EXCEPT !.appKey = x] : x \in TornCreate(coreFile.appKey)}
      [] OTHER -> {coreFile}

\* The same of the keys; those that a removal leaves are in no relation to the CA,
\* so it leaves all or none.
TornKeyFiles ==
    CASE At("remove") -> {keyFile, [c \in FileClients |-> Absent]}
      [] At("adminKP") -> {[keyFile EXCEPT !["admin"] = x] : x \in TornCreate(keyFile["admin"])}
      [] At("adminKey") /\ ~Valid(keyFile["admin"]) ->
           {[keyFile EXCEPT !["admin"] = x] : x \in TornReplace(keyFile["admin"])}
      [] At("launcherKey") /\ ~Valid(keyFile["launcher"]) ->
           {[keyFile EXCEPT !["launcher"] = x] : x \in TornReplace(keyFile["launcher"])}
      [] OTHER -> {keyFile}

TornTokenFiles ==
    CASE At("launcherToken") -> {[tokenFile EXCEPT !["launcher"] = x] : x \in BOOLEAN}
      [] At("adminToken")    -> {[tokenFile EXCEPT !["admin"] = x] : x \in BOOLEAN}
      [] At("remove")        -> {tokenFile, [c \in FileClients |-> FALSE]}
      [] OTHER -> {tokenFile}

\* The process is killed or the machine fails.
Crash ==
    /\ ~At("off") /\ ~LastRun
    /\ used.crashes < MaxCrashes
    /\ coreFile' \in TornCoreFiles
    /\ keyFile' \in TornKeyFiles
    /\ tokenFile' \in TornTokenFiles
    /\ cut' = (cut \/ At("remove"))
    /\ used' = [used EXCEPT !.crashes = @ + 1]
    /\ Exit
    /\ UNCHANGED dataDir

-----------------------------------------------------------------------------
\* Properties

Step == {"off"} \union SetupSteps \union StartSteps \union {"up"}

SetupTypeOK ==
    /\ coreFile \in [CoreFiles -> Contents]
    /\ keyFile \in [FileClients -> Contents]
    /\ tokenFile \in [FileClients -> BOOLEAN]
    /\ dataDir \in BOOLEAN
    /\ proc \in [pc : Step, new : BOOLEAN, run : 0..MaxRuns,
                 CaCert : 0..MaxRuns, CaKey : 0..MaxRuns, keys : BOOLEAN]
    /\ cut \in BOOLEAN
    /\ used \in [runs : 0..MaxRuns, crashes : 0..MaxCrashes, news : 0..1]

\* setupCerts saves the key before the certificate and loads the key only with
\* the certificate: after any crashes a CA certificate that loads has its key
\* beside it, unless a crash has interrupted the removal of an old setup.
CaPairMatches ==
    Valid(coreFile.caCert) /\ ~cut => coreFile.caKey = coreFile.caCert

\* "If a CA doesn't exist then generate and save a new self-signed cert": a CA
\* that clients may have loaded is replaced by no start, only by a removal.
CaIsStable ==
    [][Valid(coreFile.caCert) /\ coreFile.caCert' # coreFile.caCert
          => At("remove") \/ cut]_setupVars

=============================================================================
