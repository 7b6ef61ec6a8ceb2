--------------------------- MODULE HubCoreProofs ----------------------------
(***************************************************************************)
(* Proofs about the hub core for any number of processes, crashes, users   *)
(* and services.  The inductive invariant says what the process under way  *)
(* holds of the CA and of the accounts at each of its steps, and that the  *)
(* plugin, which outlives the core, depends on files only that no start    *)
(* replaces.                                                               *)
(***************************************************************************)
EXTENDS HubCore, TLAPS

PluginSteps == {"idle", "add", "exec", "key", "run"}

Procs ==
    [pc : Step, new : BOOLEAN, run : Nat, CaCert : Int, CaKey : Int, keys : BOOLEAN]

Counters == [runs : Nat, crashes : Nat, news : Nat]

TypeInv ==
    /\ coreFile \in [CoreFiles -> Int]
    /\ keyFile \in [FileClients -> Int]
    /\ tokenFile \in [FileClients -> BOOLEAN]
    /\ proc \in Procs
    /\ cut \in BOOLEAN
    /\ used \in Counters
    /\ plug \in [pc : PluginSteps, caCert : Int, caKey : Int]
    /\ ~At("off") => proc.run > 0

\* A process that may remove the old setup does not start the server, and no plugin
\* runs beside it.
NewInv ==
    /\ proc.new => proc.pc \in SetupSteps /\ plug.pc = "idle"
    /\ At("remove") => proc.new

\* The steps of a process that has loaded or created the CA.
HasCA == {"serverCert", "appKey", "adminKP", "dataDir", "up"} \union StartSteps

\* A new CA is made only where none loads; from then on the process holds the
\* certificate that is in the file.
CaInv ==
    /\ CaPairMatches
    /\ At("caKey") \/ At("caCert") => cut \/ ~Valid(coreFile.caCert)
    /\ At("caCert") => proc.CaCert = coreFile.caKey /\ Valid(proc.CaCert)
    /\ proc.pc \in HasCA => proc.CaCert = coreFile.caCert /\ Valid(proc.CaCert)

\* The certificate service and the holders of its certificates have the CA that is
\* in the file.
CertInv ==
    ~cut => /\ plug.pc \in {"key", "run"} =>
                  Valid(coreFile.caCert) /\ plug.caCert = coreFile.caCert
            /\ \A cert \in issued : Valid(coreFile.caCert) /\ cert.ca = coreFile.caCert

\* The password file has the key that is in the client's file.
HasAccount(c) == c \in DOMAIN users /\ users[c].pub = keyFile[c] /\ Valid(keyFile[c])

\* The server knows the clients of the password file.
Applied == known = [c \in DOMAIN users |-> users[c].pub]

\* What the start of the auth service has achieved at each step.
ClientInv ==
    /\ proc.pc \in {"permissions", "launcherKey", "launcher", "launcherToken", "adminKey",
                    "admin", "adminToken", "up"} => Applied
    /\ At("launcher") => Valid(keyFile["launcher"])
    /\ proc.pc \in {"launcherToken", "adminKey", "admin", "adminToken", "up"} =>
          HasAccount("launcher")
    /\ proc.pc \in {"adminKey", "admin", "adminToken", "up"} => tokenFile["launcher"]
    /\ At("admin") => Valid(keyFile["admin"])
    /\ proc.pc \in {"adminToken", "up"} => HasAccount("admin")
    /\ At("up") => tokenFile["admin"]
    /\ plug.pc = "run" => HasAccount("certs") /\ tokenFile["certs"]

IInv == TypeInv /\ NewInv /\ CaInv /\ CertInv /\ ClientInv

-----------------------------------------------------------------------------
\* What a move of the process leaves alone.
LEMMA GotoFacts ==
    ASSUME TypeInv, NEW step \in Step, Goto(step)
    PROVE  /\ proc' \in Procs
           /\ proc'.pc = step /\ proc'.new = proc.new /\ proc'.run = proc.run
           /\ proc'.CaCert = proc.CaCert /\ proc'.CaKey = proc.CaKey
BY DEF TypeInv, Goto, Procs

\* A process that has ended holds nothing.
LEMMA ExitFacts ==
    ASSUME Exit
    PROVE  /\ proc' \in Procs
           /\ proc'.pc = "off" /\ proc'.new = FALSE
BY DEF Exit, Off, Step, Procs

\* The end of the process breaks nothing that is known of files.
LEMMA EndStep ==
    ASSUME IInv, Exit, cut' \in BOOLEAN, cut => cut',
           used' \in Counters,
           UNCHANGED <<coreFile, keyFile, tokenFile, plug, issued, users>>
    PROVE  IInv'
<1>1. proc'.pc = "off" /\ proc'.new = FALSE
  BY ExitFacts
<1>2. TypeInv'
  BY <1>1, ExitFacts DEF IInv, TypeInv, At
<1>3. NewInv'
  BY <1>1 DEF NewInv, At
<1>4. CaInv'
  BY <1>1 DEF IInv, TypeInv, CaInv, CaPairMatches, At, HasCA, StartSteps
<1>5. CertInv'
  BY DEF IInv, TypeInv, CertInv
<1>6. ClientInv'
  BY <1>1 DEF IInv, ClientInv, HasAccount, At
<1> QED BY <1>2, <1>3, <1>4, <1>5, <1>6 DEF IInv

\* A move before the accounts, with the files as they are.
LEMMA MoveStep ==
    ASSUME IInv, ~At("off"),
           NEW step \in {"remove", "loadCA", "appKey", "dataDir", "start", "auth"}, Goto(step),
           step \in HasCA => proc.pc \in HasCA,
           proc.new => step \in SetupSteps, step = "remove" => proc.new,
           UNCHANGED <<coreFile, keyFile, tokenFile, cut, used, plug, issued, users>>
    PROVE  IInv'
<1>0. step \in Step
  BY DEF Step, SetupSteps, StartSteps
<1>1. /\ proc'.pc = step /\ proc'.new = proc.new /\ proc'.run = proc.run
      /\ proc'.CaCert = proc.CaCert
  BY <1>0, GotoFacts DEF IInv
<1>2. TypeInv'
  BY <1>0, <1>1, GotoFacts DEF IInv, TypeInv, At
<1>3. NewInv'
  BY <1>1 DEF IInv, NewInv, At
<1>4. CaInv'
  BY <1>1 DEF IInv, CaInv, CaPairMatches, At
<1>5. CertInv'
  BY DEF IInv, CertInv
<1>6. ClientInv'
  BY <1>1 DEF IInv, ClientInv, HasAccount, At
<1> QED BY <1>2, <1>3, <1>4, <1>5, <1>6 DEF IInv

\* A new process.
LEMMA LaunchStep == ASSUME IInv, LaunchAny PROVE IInv'
<1> PICK new \in BOOLEAN : /\ new => plug.pc = "idle"
                           /\ Launch(new)
                           /\ UNCHANGED <<serverVars, users, plug, issued, changes>>
  BY DEF LaunchAny
<1>1. /\ proc' = [Off EXCEPT !.pc = "dirs", !.new = new, !.run = used.runs + 1]
      /\ used' = [used EXCEPT !.runs = @ + 1, !.news = IF new THEN 1 ELSE @]
      /\ UNCHANGED <<coreFile, keyFile, tokenFile, cut>>
  BY DEF Launch, files
<1>0. used \in Counters /\ used.runs + 1 \in Nat \ {0}
  BY DEF IInv, TypeInv, Counters
<1>a. proc' = [pc |-> "dirs", new |-> new, run |-> used.runs + 1,
               CaCert |-> 0, CaKey |-> 0, keys |-> FALSE]
  BY <1>1 DEF Off
<1>b. used' \in Counters
  BY <1>0, <1>1 DEF Counters
<1>2. /\ proc' \in Procs
      /\ proc'.pc = "dirs" /\ proc'.new = new /\ proc'.run > 0
      /\ used' \in Counters
  BY <1>0, <1>a, <1>b DEF Step, SetupSteps, Procs
<1>3. TypeInv'
  BY <1>1, <1>2 DEF IInv, TypeInv
<1>4. NewInv'
  BY <1>2 DEF NewInv, At, SetupSteps
<1>5. CaInv'
  BY <1>1, <1>2 DEF IInv, CaInv, CaPairMatches, At, HasCA, StartSteps
<1>6. CertInv'
  BY <1>1 DEF IInv, CertInv
<1>7. ClientInv'
  BY <1>1, <1>2 DEF IInv, ClientInv, HasAccount, At
<1> QED BY <1>3, <1>4, <1>5, <1>6, <1>7 DEF IInv

\* The removal of an old setup leaves no file, and no plugin runs.
LEMMA RemoveStep ==
    ASSUME IInv, RemoveAll, users' = <<>>, issued' = {}, UNCHANGED plug
    PROVE  IInv'
<1>0. At("remove") /\ "loadCA" \in Step /\ Goto("loadCA")
  BY DEF RemoveAll, Step, SetupSteps
<1>1. /\ proc' \in Procs
      /\ proc'.pc = "loadCA" /\ proc'.new = proc.new /\ proc'.run = proc.run
  BY <1>0, GotoFacts DEF IInv
<1>2. plug.pc = "idle" /\ proc.run > 0
  BY <1>0 DEF IInv, NewInv, TypeInv, At
<1>3. /\ coreFile' = [f \in CoreFiles |-> 0] /\ keyFile' = [c \in FileClients |-> 0]
      /\ tokenFile' = [c \in FileClients |-> FALSE]
      /\ cut' = FALSE /\ UNCHANGED used
  BY DEF RemoveAll, Absent
<1>4. /\ coreFile' \in [CoreFiles -> Int] /\ keyFile' \in [FileClients -> Int]
      /\ tokenFile' \in [FileClients -> BOOLEAN]
  BY <1>3
<1>a. TypeInv'
  BY <1>1, <1>2, <1>3, <1>4 DEF IInv, TypeInv
<1>5. NewInv'
  BY <1>1, <1>2 DEF NewInv, At, SetupSteps
<1>6. ~Valid(coreFile'["caCert"])
  BY <1>3 DEF CoreFiles, Valid
<1>7. CaInv'
  BY <1>1, <1>6 DEF CaInv, CaPairMatches, At, HasCA, StartSteps
<1>8. CertInv' /\ ClientInv'
  BY <1>1, <1>2 DEF CertInv, ClientInv, At
<1> QED BY <1>a, <1>5, <1>7, <1>8 DEF IInv

\* The CA that loads is the one in the file; a new one is made only without.
LEMMA LoadCAStep ==
    ASSUME IInv, LoadCA, UNCHANGED <<plug, issued, users>>
    PROVE  IInv'
<1> DEFINE cert == IF Valid(coreFile["caCert"]) THEN coreFile["caCert"] ELSE 0
           key == IF cert # 0 THEN IF Valid(coreFile["caKey"]) THEN coreFile["caKey"] ELSE 0 ELSE 0
           step == IF cert # 0 /\ key # 0 THEN "serverCert" ELSE "caKey"
<1>0. /\ proc' = [proc EXCEPT !.CaCert = cert, !.CaKey = key, !.pc = step]
      /\ At("loadCA") /\ UNCHANGED <<coreFile, keyFile, tokenFile, cut, used>>
  BY DEF LoadCA, LoadX509CertFromPEM, NewKeyFromFile, files
<1>1. coreFile["caCert"] \in Int /\ coreFile["caKey"] \in Int /\ cert \in Int /\ key \in Int
  BY DEF IInv, TypeInv, CoreFiles
<1>2. step \in Step /\ step \in {"serverCert", "caKey"} /\ step \in SetupSteps
  BY DEF Step, SetupSteps
<1>3. cut \/ Valid(coreFile["caCert"]) => (cut \/ step = "serverCert")
  BY <1>1 DEF IInv, CaInv, CaPairMatches, Valid
<1>4. step = "serverCert" => cert = coreFile["caCert"] /\ Valid(cert)
  BY <1>1 DEF Valid
<1> HIDE DEF cert, key, step
<1>5. /\ proc' \in Procs /\ proc'.pc = step /\ proc'.new = proc.new
      /\ proc'.run = proc.run /\ proc'.CaCert = cert
  BY <1>0, <1>1, <1>2 DEF IInv, TypeInv, Procs
<1>6. proc.run > 0
  BY <1>0 DEF IInv, TypeInv, At
<1>7. TypeInv'
  BY <1>0, <1>5, <1>6 DEF IInv, TypeInv
<1>8. NewInv'
  BY <1>0, <1>2, <1>5 DEF IInv, NewInv, At
<1>9. CaInv'
  BY <1>0, <1>2, <1>3, <1>4, <1>5 DEF IInv, CaInv, CaPairMatches, At, HasCA, StartSteps
<1>10. CertInv'
  BY <1>0 DEF IInv, CertInv
<1>11. ClientInv'
  BY <1>0, <1>2, <1>5 DEF IInv, ClientInv, HasAccount, At
<1> QED BY <1>7, <1>8, <1>9, <1>10, <1>11 DEF IInv

\* The key is written where no certificate loads.
LEMMA ExportStep ==
    ASSUME IInv, ExportCaKey, UNCHANGED <<plug, issued, users>>
    PROVE  IInv'
<1>0. /\ coreFile' = [coreFile EXCEPT !["caKey"] = proc.run]
      /\ proc' = [proc EXCEPT !.CaCert = proc.run, !.CaKey = proc.run, !.pc = "caCert"]
      /\ At("caKey") /\ UNCHANGED <<keyFile, tokenFile, cut, used>>
  BY DEF ExportCaKey, CreateCA
<1>1. "caCert" \in Step /\ "caCert" \in SetupSteps /\ proc.run \in Nat /\ proc.run > 0
  BY <1>0 DEF Step, SetupSteps, IInv, TypeInv, Procs, At
<1>2. /\ proc' \in Procs /\ proc'.pc = "caCert" /\ proc'.new = proc.new
      /\ proc'.run = proc.run /\ proc'.CaCert = proc.run
  <2>1. proc \in Procs /\ proc.run \in Int
    BY <1>1 DEF IInv, TypeInv
  <2> QED BY <1>0, <1>1, <2>1 DEF Procs
<1>3. /\ coreFile' \in [CoreFiles -> Int] /\ coreFile'["caKey"] = proc.run
      /\ coreFile'["caCert"] = coreFile["caCert"]
  BY <1>0, <1>1 DEF IInv, TypeInv, CoreFiles
<1>4. cut \/ ~Valid(coreFile["caCert"])
  BY <1>0 DEF IInv, CaInv
<1>5. TypeInv'
  BY <1>0, <1>1, <1>2, <1>3 DEF IInv, TypeInv
<1>6. NewInv'
  BY <1>0, <1>1, <1>2 DEF IInv, NewInv, At
<1>7. CaInv'
  BY <1>0, <1>1, <1>2, <1>3, <1>4 DEF CaInv, CaPairMatches, At, HasCA, StartSteps, Valid
<1>8. CertInv'
  BY <1>0, <1>3 DEF IInv, CertInv
<1>9. ClientInv'
  BY <1>0, <1>2 DEF IInv, ClientInv, HasAccount, At
<1> QED BY <1>5, <1>6, <1>7, <1>8, <1>9 DEF IInv

\* The certificate is written beside its key; nobody has a certificate of an older CA.
LEMMA SaveStep ==
    ASSUME IInv, SaveCaCert, UNCHANGED <<plug, issued, users>>
    PROVE  IInv'
<1>0. /\ coreFile' = [coreFile EXCEPT !["caCert"] = proc.CaCert]
      /\ At("caCert") /\ Goto("serverCert") /\ UNCHANGED <<keyFile, tokenFile, cut, used>>
      /\ "serverCert" \in Step /\ "serverCert" \in SetupSteps
  BY DEF SaveCaCert, Step, SetupSteps
<1>1. /\ proc' \in Procs /\ proc'.pc = "serverCert" /\ proc'.new = proc.new
      /\ proc'.run = proc.run /\ proc'.CaCert = proc.CaCert
  BY <1>0, GotoFacts DEF IInv
<1>2. proc.CaCert \in Int /\ proc.run > 0
  BY <1>0 DEF IInv, TypeInv, Procs, At
<1>3. /\ coreFile' \in [CoreFiles -> Int] /\ coreFile'["caKey"] = coreFile["caKey"]
      /\ coreFile'["caCert"] = proc.CaCert
  BY <1>0, <1>2 DEF IInv, TypeInv, CoreFiles
<1>4. /\ cut \/ ~Valid(coreFile["caCert"])
      /\ proc.CaCert = coreFile["caKey"] /\ Valid(proc.CaCert)
  BY <1>0 DEF IInv, CaInv
<1>5. TypeInv'
  BY <1>0, <1>1, <1>2, <1>3 DEF IInv, TypeInv
<1>6. NewInv'
  BY <1>0, <1>1 DEF IInv, NewInv, At
<1>7. CaInv'
  BY <1>0, <1>1, <1>3, <1>4 DEF CaInv, CaPairMatches, At
<1>8. CertInv'
  BY <1>0, <1>4 DEF IInv, CertInv
<1>9. ClientInv'
  BY <1>0, <1>1 DEF IInv, ClientInv, HasAccount, At
<1> QED BY <1>5, <1>6, <1>7, <1>8, <1>9 DEF IInv

\* The account key is in no relation to the CA.
LEMMA AppKeyStep ==
    ASSUME IInv, LoadAppKey, UNCHANGED <<plug, issued, users>>
    PROVE  IInv'
<1>0. At("appKey") /\ ~At("off") /\ UNCHANGED <<keyFile, tokenFile, cut, used>>
  BY DEF LoadAppKey, At
<1>1. CASE coreFile["appKey"] = Partial
  <2>1. Goto("dataDir") /\ UNCHANGED coreFile
    BY <1>1 DEF LoadAppKey
  <2> QED BY <1>0, <2>1, MoveStep DEF At, HasCA, SetupSteps
<1>2. CASE coreFile["appKey"] # Partial
  <2>1. /\ Goto("adminKP") /\ "adminKP" \in Step /\ "adminKP" \in SetupSteps
        /\ coreFile' = [coreFile EXCEPT !["appKey"] = IF @ = Absent THEN proc.run ELSE @]
    BY <1>2 DEF LoadAppKey, Step, SetupSteps
  <2>2. /\ proc' \in Procs /\ proc'.pc = "adminKP" /\ proc'.new = proc.new
        /\ proc'.run = proc.run /\ proc'.CaCert = proc.CaCert
    BY <2>1, GotoFacts DEF IInv
  <2>3. proc.run \in Int /\ proc.run > 0
    BY <1>0 DEF IInv, TypeInv, Procs
  <2>4. /\ coreFile' \in [CoreFiles -> Int] /\ coreFile'["caKey"] = coreFile["caKey"]
        /\ coreFile'["caCert"] = coreFile["caCert"]
    BY <2>1, <2>3 DEF IInv, TypeInv, CoreFiles
  <2>5. TypeInv'
    BY <1>0, <2>2, <2>3, <2>4 DEF IInv, TypeInv
  <2>6. NewInv'
    BY <1>0, <2>1, <2>2 DEF IInv, NewInv, At
  <2>7. CaInv'
    BY <1>0, <2>2, <2>4 DEF IInv, CaInv, CaPairMatches, At, HasCA
  <2>8. CertInv'
    BY <1>0, <2>4 DEF IInv, CertInv
  <2>9. ClientInv'
    BY <1>0, <2>2 DEF IInv, ClientInv, HasAccount, At
  <2> QED BY <2>5, <2>6, <2>7, <2>8, <2>9 DEF IInv
<1> QED BY <1>1, <1>2

\* The administrator's key is made before the account.
LEMMA AdminKPStep ==
    ASSUME IInv, LoadCreateUserKP, UNCHANGED <<plug, issued, users>>
    PROVE  IInv'
<1>0. /\ At("adminKP") /\ ~At("off") /\ UNCHANGED <<coreFile, tokenFile, cut, used>>
      /\ keyFile' = [keyFile EXCEPT !["admin"] = IF @ = Absent THEN proc.run ELSE @]
      /\ proc' = [proc EXCEPT !.keys = TRUE, !.pc = "dataDir"]
      /\ "dataDir" \in Step /\ "dataDir" \in SetupSteps
  BY DEF LoadCreateUserKP, At, Step, SetupSteps
<1>1. proc \in Procs /\ proc.run \in Int /\ proc.run > 0
  BY <1>0 DEF IInv, TypeInv, Procs
<1>2. /\ proc' \in Procs /\ proc'.pc = "dataDir" /\ proc'.new = proc.new
      /\ proc'.run = proc.run /\ proc'.CaCert = proc.CaCert
  BY <1>0, <1>1 DEF Procs
<1>3. /\ keyFile' \in [FileClients -> Int] /\ keyFile'["certs"] = keyFile["certs"]
  BY <1>0, <1>1 DEF IInv, TypeInv, FileClients
<1>4. TypeInv'
  BY <1>0, <1>1, <1>2, <1>3 DEF IInv, TypeInv
<1>5. NewInv'
  BY <1>0, <1>2 DEF IInv, NewInv, At
<1>6. CaInv'
  BY <1>0, <1>2 DEF IInv, CaInv, CaPairMatches, At, HasCA
<1>7. CertInv'
  BY <1>0 DEF IInv, CertInv
<1>8. ClientInv'
  BY <1>0, <1>2, <1>3 DEF IInv, ClientInv, HasAccount, At
<1> QED BY <1>4, <1>5, <1>6, <1>7, <1>8 DEF IInv

\* Every step of Setup.
LEMMA SetupStepInv ==
    ASSUME IInv, SetupStep, UNCHANGED <<plug, issued, users>>
    PROVE  IInv'
<1>0. cut \in BOOLEAN /\ used \in Counters
  BY DEF IInv, TypeInv
<1>1. ASSUME NEW env, setupDirectories(env) PROVE IInv'
  <2>1. /\ At("dirs") /\ ~At("off") /\ UNCHANGED <<coreFile, keyFile, tokenFile, cut, used>>
        /\ Goto(IF proc.new THEN "remove" ELSE "loadCA") \/ Exit
    BY <1>1 DEF setupDirectories, files, At
  <2>2. CASE Exit
    BY <1>0, <2>1, <2>2, EndStep
  <2>3. CASE Goto(IF proc.new THEN "remove" ELSE "loadCA")
    BY <2>1, <2>3, MoveStep DEF At, HasCA, SetupSteps, StartSteps
  <2> QED BY <2>1, <2>2, <2>3
<1>2. CASE CreateServerCert
  <2>1. /\ At("serverCert") /\ ~At("off") /\ UNCHANGED <<coreFile, keyFile, tokenFile, cut, used>>
        /\ Goto("appKey") \/ Exit
    BY <1>2 DEF CreateServerCert, files, At
  <2>2. CASE Exit
    BY <1>0, <2>1, <2>2, EndStep
  <2>3. CASE Goto("appKey")
    BY <2>1, <2>3, MoveStep DEF At, HasCA, SetupSteps
  <2> QED BY <2>1, <2>2, <2>3
<1>3. CASE EnsureDataDir
  <2>1. /\ At("dataDir") /\ ~At("off") /\ UNCHANGED <<coreFile, keyFile, tokenFile, cut, used>>
        /\ (Goto("start") /\ ~proc.new) \/ Exit
    BY <1>3 DEF EnsureDataDir, At
  <2>2. CASE Exit
    BY <1>0, <2>1, <2>2, EndStep
  <2>3. CASE Goto("start") /\ ~proc.new
    BY <2>1, <2>3, MoveStep DEF At, HasCA
  <2> QED BY <2>1, <2>2, <2>3
<1> QED
  BY <1>1, <1>2, <1>3, LoadCAStep, ExportStep, SaveStep, AppKeyStep, AdminKPStep DEF SetupStep

\* What a crash leaves of the CA: torn only where no certificate loads.
LEMMA TornCA ==
    ASSUME IInv, Crash
    PROVE  /\ coreFile' \in [CoreFiles -> Int]
           /\ ~cut' /\ Valid(coreFile["caCert"]) =>
                 /\ coreFile'["caCert"] = coreFile["caCert"]
                 /\ coreFile'["caKey"] = coreFile["caKey"]
           /\ ~cut' /\ ~Valid(coreFile["caCert"]) => ~Valid(coreFile'["caCert"])
<1> USE DEF TornReplace, TornCreate, CoreFiles, Absent, Partial, Valid
<1>0. /\ coreFile \in [CoreFiles -> Int] /\ coreFile' \in TornCoreFiles
  BY DEF IInv, TypeInv, Crash
<1>a. ~cut' => ~cut /\ ~At("remove")
  BY DEF Crash
<1>1. CASE At("remove")
  <2>1. PICK kept \in SUBSET CoreFiles :
          coreFile' = [f \in CoreFiles |-> IF f \in kept THEN coreFile[f] ELSE 0]
    BY <1>0, <1>1 DEF TornCoreFiles, At
  <2>2. coreFile' \in [CoreFiles -> Int]
    BY <1>0, <2>1
  <2> QED BY <1>a, <1>1, <2>2
<1>2. CASE At("caKey")
  <2>1. PICK x \in {coreFile["caKey"], 0, -1} : coreFile' = [coreFile EXCEPT !["caKey"] = x]
    BY <1>0, <1>2 DEF TornCoreFiles, At
  <2>2. cut \/ ~Valid(coreFile["caCert"])
    BY <1>2 DEF IInv, CaInv
  <2>3. coreFile' \in [CoreFiles -> Int] /\ coreFile'["caCert"] = coreFile["caCert"]
    BY <1>0, <2>1
  <2> QED BY <1>a, <2>2, <2>3
<1>3. CASE At("caCert")
  <2>1. PICK x \in {coreFile["caCert"], 0, -1} : coreFile' = [coreFile EXCEPT !["caCert"] = x]
    BY <1>0, <1>3 DEF TornCoreFiles, At
  <2>2. cut \/ ~Valid(coreFile["caCert"])
    BY <1>3 DEF IInv, CaInv
  <2>3. /\ coreFile' \in [CoreFiles -> Int] /\ coreFile'["caKey"] = coreFile["caKey"]
        /\ ~Valid(coreFile["caCert"]) => ~Valid(coreFile'["caCert"])
    BY <1>0, <2>1
  <2> QED BY <1>a, <2>2, <2>3
<1>4. CASE At("appKey")
  <2>1. PICK x \in {coreFile["appKey"], 0, -1} : coreFile' = [coreFile EXCEPT !["appKey"] = x]
    BY <1>0, <1>4 DEF TornCoreFiles, At
  <2> QED BY <1>0, <1>4, <2>1
<1>5. CASE ~(At("remove") \/ At("caKey") \/ At("caCert") \/ At("appKey"))
  <2>1. coreFile' = coreFile
    BY <1>0, <1>5 DEF TornCoreFiles, At
  <2> QED BY <1>0, <2>1
<1> QED BY <1>1, <1>2, <1>3, <1>4, <1>5

\* Of the keys it leaves those of the plugin as they are.
LEMMA TornKeys ==
    ASSUME IInv, Crash
    PROVE  /\ keyFile' \in [FileClients -> Int] /\ tokenFile' \in [FileClients -> BOOLEAN]
           /\ ~At("remove") => /\ keyFile'["certs"] = keyFile["certs"]
                               /\ tokenFile'["certs"] = tokenFile["certs"]
<1> USE DEF FileClients, Absent, Partial
<1>0. /\ keyFile \in [FileClients -> Int] /\ tokenFile \in [FileClients -> BOOLEAN]
      /\ keyFile' \in TornKeyFiles /\ tokenFile' \in TornTokenFiles
  BY DEF IInv, TypeInv, Crash
<1>1. keyFile' \in [FileClients -> Int] /\ (~At("remove") => keyFile'["certs"] = keyFile["certs"])
  <2>1. CASE At("remove")
    <3>1. keyFile' \in {keyFile, [c \in FileClients |-> 0]}
      BY <1>0, <2>1 DEF TornKeyFiles, At
    <3> QED BY <1>0, <2>1, <3>1
  <2>2. CASE ~At("remove")
    <3>1. \/ keyFile' = keyFile
          \/ \E c \in {"admin", "launcher"}, x \in Int : keyFile' = [keyFile EXCEPT ![c] = x]
      <4>1. \A c \in FileClients : TornCreate(keyFile[c]) \subseteq Int
        BY <1>0 DEF TornCreate
      <4>2. \A c \in FileClients : TornReplace(keyFile[c]) \subseteq Int
        BY <1>0 DEF TornReplace
      <4> QED BY <1>0, <2>2, <4>1, <4>2 DEF TornKeyFiles, At
    <3> QED BY <1>0, <2>2, <3>1
  <2> QED BY <2>1, <2>2
<1>2. /\ tokenFile' \in [FileClients -> BOOLEAN]
      /\ ~At("remove") => tokenFile'["certs"] = tokenFile["certs"]
  <2>1. CASE At("remove")
    <3>1. tokenFile' \in {tokenFile, [c \in FileClients |-> FALSE]}
      BY <1>0, <2>1 DEF TornTokenFiles, At
    <3> QED BY <1>0, <2>1, <3>1
  <2>2. CASE ~At("remove")
    <3>1. \/ tokenFile' = tokenFile
          \/ \E c \in {"admin", "launcher"}, x \in BOOLEAN :
                tokenFile' = [tokenFile EXCEPT ![c] = x]
      BY <1>0, <2>2 DEF TornTokenFiles, At
    <3> QED BY <1>0, <2>2, <3>1
  <2> QED BY <2>1, <2>2
<1> QED BY <1>1, <1>2

\* A crash at any step.
LEMMA CrashStep == ASSUME IInv, CrashCore PROVE IInv'
<1>0. /\ Crash /\ Exit /\ cut' = (cut \/ At("remove")) /\ UNCHANGED <<plug, issued>>
      /\ ~At("remove") => users' = users
  BY DEF CrashCore, Crash
<1>1. proc' \in Procs /\ proc'.pc = "off" /\ proc'.new = FALSE
  BY <1>0, ExitFacts
<1>2. used' \in Counters
  BY <1>0 DEF Crash, IInv, TypeInv, Counters
<1>3. TypeInv'
  BY <1>0, <1>1, <1>2, TornCA, TornKeys DEF IInv, TypeInv, At
<1>4. NewInv'
  BY <1>1 DEF NewInv, At
<1>5. CaInv'
  BY <1>0, <1>1, TornCA DEF IInv, CaInv, CaPairMatches, At, HasCA, StartSteps
<1>6. CertInv'
  BY <1>0, TornCA DEF IInv, CertInv
<1>7. plug.pc = "run" => ~At("remove")
  BY DEF IInv, NewInv
<1>8. ClientInv'
  BY <1>0, <1>1, <1>7, TornKeys DEF IInv, ClientInv, HasAccount, At
<1> QED BY <1>3, <1>4, <1>5, <1>6, <1>8 DEF IInv

\* A change of the clients reaches the server and leaves the others alone.
LEMMA AddFacts ==
    ASSUME NEW c, NEW pub, NEW role, Add(c, pub, role)
    PROVE  /\ Applied'
           /\ DOMAIN users' = DOMAIN users \union {c}
           /\ users'[c].pub = pub
           /\ \A d \in DOMAIN users \ {c} : users'[d] = users[d]
<1> DEFINE list == [d \in DOMAIN users \union {c} |->
                       IF d = c THEN Profile(pub, role) ELSE users[d]]
<1>1. /\ DOMAIN list = DOMAIN users \union {c} /\ list[c] = Profile(pub, role)
      /\ \A d \in DOMAIN users \ {c} : list[d] = users[d]
  OBVIOUS
<1>2. users' = list /\ known' = [d \in DOMAIN list |-> list[d].pub]
  BY DEF Add, ApplyAuth
<1>3. Profile(pub, role).pub = pub
  BY DEF Profile
<1> HIDE DEF list
<1> QED BY <1>1, <1>2, <1>3 DEF Applied

\* A move within the start changes what is known of clients only.
LEMMA StartMove ==
    ASSUME IInv, NEW step \in StartSteps \union {"up"}, Goto(step), proc.pc \in StartSteps,
           UNCHANGED <<coreFile, cut, used, plug, issued>>,
           keyFile' \in [FileClients -> Int], tokenFile' \in [FileClients -> BOOLEAN],
           proc'.pc = step => ClientInv'
    PROVE  IInv'
<1>0. /\ step \in Step /\ step \in HasCA /\ proc.pc \in HasCA /\ ~At("off")
      /\ step \notin {"caKey", "caCert", "remove", "off"} /\ proc.pc \notin SetupSteps
  BY DEF Step, HasCA, StartSteps, At, SetupSteps
<1>1. /\ proc' \in Procs /\ proc'.pc = step /\ proc'.new = proc.new
      /\ proc'.run = proc.run /\ proc'.CaCert = proc.CaCert
  BY <1>0, GotoFacts DEF IInv
<1>2. TypeInv'
  BY <1>0, <1>1 DEF IInv, TypeInv
<1>3. NewInv'
  BY <1>0, <1>1 DEF IInv, NewInv, At
<1>4. CaInv'
  BY <1>0, <1>1 DEF IInv, CaInv, CaPairMatches, At
<1>5. CertInv'
  BY DEF IInv, CertInv
<1> QED BY <1>1, <1>2, <1>3, <1>4, <1>5 DEF IInv

\* The account of a client is not touched by that of another.
LEMMA OtherAccount ==
    ASSUME NEW c, NEW d, c # d, HasAccount(d),
           DOMAIN users' = DOMAIN users \union {c},
           \A e \in DOMAIN users \ {c} : users'[e] = users[e],
           keyFile'[d] = keyFile[d]
    PROVE  HasAccount(d)'
BY DEF HasAccount

\* The service adds itself.
LEMMA StartAuthStep == ASSUME IInv, StartAuth PROVE IInv'
<1>0. /\ At("auth") /\ Goto("permissions") /\ Add("auth", proc.run, "service")
      /\ UNCHANGED <<coreFile, keyFile, tokenFile, cut, used, plug, issued>>
      /\ "permissions" \in StartSteps /\ proc.pc \in StartSteps
  BY DEF StartAuth, files, At, StartSteps
<1>1. keyFile' \in [FileClients -> Int] /\ tokenFile' \in [FileClients -> BOOLEAN]
  BY <1>0 DEF IInv, TypeInv
<1>2. ASSUME proc'.pc = "permissions" PROVE ClientInv'
  <2>1. plug.pc = "run" => HasAccount("certs")' /\ tokenFile'["certs"]
    BY <1>0, AddFacts, OtherAccount DEF IInv, ClientInv
  <2> QED BY <1>0, <1>2, <2>1, AddFacts DEF ClientInv, At
<1> QED BY <1>0, <1>1, <1>2, StartMove

\* A step beside the process that leaves the files of the core.
LEMMA BesideStep ==
    ASSUME IInv, UNCHANGED <<coreFile, proc, cut, used>>,
           keyFile' \in [FileClients -> Int], tokenFile' \in [FileClients -> BOOLEAN],
           plug' \in [pc : PluginSteps, caCert : Int, caKey : Int],
           proc.new => plug'.pc = "idle", CertInv', ClientInv'
    PROVE  IInv'
<1>1. TypeInv'
  BY DEF IInv, TypeInv, At
<1>2. NewInv'
  BY DEF IInv, NewInv, At
<1>3. CaInv'
  BY DEF IInv, CaInv, CaPairMatches, At
<1> QED BY <1>1, <1>2, <1>3 DEF IInv

\* A registration beside the process changes permissions only.
LEMMA RegisterStep ==
    ASSUME IInv,
           UNCHANGED <<coreFile, keyFile, tokenFile, proc, cut, used, plug, issued, users, known>>
    PROVE  IInv'
<1>1. CertInv' /\ ClientInv'
  BY DEF IInv, CertInv, ClientInv, HasAccount, Applied, At
<1>2. /\ keyFile' \in [FileClients -> Int] /\ tokenFile' \in [FileClients -> BOOLEAN]
      /\ plug' \in [pc : PluginSteps, caCert : Int, caKey : Int]
      /\ proc.new => plug'.pc = "idle"
  BY DEF IInv, TypeInv, NewInv
<1> QED BY <1>1, <1>2, BesideStep

\* Permissions are in no relation to keys.
LEMMA PermissionsStep == ASSUME IInv, SetAuthPermissions PROVE IInv'
<1>0. /\ At("permissions") /\ (Goto("launcherKey") \/ UNCHANGED proc)
      /\ UNCHANGED <<coreFile, keyFile, tokenFile, cut, used, plug, issued, users, known>>
      /\ "launcherKey" \in StartSteps /\ proc.pc \in StartSteps
  BY DEF SetAuthPermissions, files, At, StartSteps
<1>1. keyFile' \in [FileClients -> Int] /\ tokenFile' \in [FileClients -> BOOLEAN]
  BY <1>0 DEF IInv, TypeInv
<1>2. ASSUME proc'.pc = "launcherKey" PROVE ClientInv'
  BY <1>0, <1>2 DEF IInv, ClientInv, At, HasAccount, Applied
<1>3. CASE UNCHANGED proc
  BY <1>0, <1>3, RegisterStep
<1> QED BY <1>0, <1>1, <1>2, <1>3, StartMove

\* The key of an account is one that loads; those of the others stay.
LEMMA KeyPairFacts ==
    ASSUME IInv, ~At("off"), NEW c \in FileClients, LoadCreateKeyPair(c, proc.run)
    PROVE  /\ keyFile' \in [FileClients -> Int] /\ Valid(keyFile'[c])
           /\ \A d \in FileClients \ {c} : keyFile'[d] = keyFile[d]
<1>1. proc.run \in Int /\ proc.run > 0 /\ keyFile \in [FileClients -> Int]
  BY DEF IInv, TypeInv, Procs
<1> QED BY <1>1 DEF LoadCreateKeyPair, Valid

\* The keys of the launcher and of the administrator.
LEMMA AccountKeyStep ==
    ASSUME IInv,
           \/ AccountKey("launcher", "launcherKey", "launcher")
           \/ AccountKey("admin", "adminKey", "admin")
    PROVE  IInv'
<1> USE DEF StartSteps
<1>1. CASE AccountKey("launcher", "launcherKey", "launcher")
  <2>0. /\ At("launcherKey") /\ ~At("off") /\ Goto("launcher")
        /\ LoadCreateKeyPair("launcher", proc.run)
        /\ UNCHANGED <<coreFile, tokenFile, cut, used, plug, issued, users, known>>
    BY <1>1 DEF AccountKey, At, serverVars
  <2>1. /\ keyFile' \in [FileClients -> Int] /\ Valid(keyFile'["launcher"])
        /\ keyFile'["certs"] = keyFile["certs"]
    BY <2>0, KeyPairFacts DEF FileClients
  <2>2. tokenFile' \in [FileClients -> BOOLEAN]
    BY <2>0 DEF IInv, TypeInv
  <2>3. ASSUME proc'.pc = "launcher" PROVE ClientInv'
    BY <2>0, <2>1, <2>3 DEF IInv, ClientInv, At, HasAccount, Applied
  <2> QED BY <2>0, <2>1, <2>2, <2>3, StartMove DEF At
<1>2. CASE AccountKey("admin", "adminKey", "admin")
  <2>0. /\ At("adminKey") /\ ~At("off") /\ Goto("admin")
        /\ LoadCreateKeyPair("admin", proc.run)
        /\ UNCHANGED <<coreFile, tokenFile, cut, used, plug, issued, users, known>>
    BY <1>2 DEF AccountKey, At, serverVars
  <2>1. /\ keyFile' \in [FileClients -> Int] /\ Valid(keyFile'["admin"])
        /\ keyFile'["certs"] = keyFile["certs"] /\ keyFile'["launcher"] = keyFile["launcher"]
    BY <2>0, KeyPairFacts DEF FileClients
  <2>2. tokenFile' \in [FileClients -> BOOLEAN]
    BY <2>0 DEF IInv, TypeInv
  <2>3. ASSUME proc'.pc = "admin" PROVE ClientInv'
    BY <2>0, <2>1, <2>3 DEF IInv, ClientInv, At, HasAccount, Applied
  <2> QED BY <2>0, <2>1, <2>2, <2>3, StartMove DEF At
<1> QED BY <1>1, <1>2

\* Their accounts.
LEMMA AddAccountStep ==
    ASSUME IInv,
           \/ AddAccount("launcher", "service", "launcher", "launcherToken")
           \/ AddAccount("admin", "admin", "admin", "adminToken")
    PROVE  IInv'
<1> USE DEF StartSteps
<1>0. keyFile \in [FileClients -> Int] /\ tokenFile \in [FileClients -> BOOLEAN]
  BY DEF IInv, TypeInv
<1>1. CASE AddAccount("launcher", "service", "launcher", "launcherToken")
  <2>0. /\ At("launcher") /\ Goto("launcherToken") /\ Add("launcher", keyFile["launcher"], "service")
        /\ UNCHANGED <<coreFile, keyFile, tokenFile, cut, used, plug, issued>>
    BY <1>1 DEF AddAccount, files
  <2>1. Applied' /\ HasAccount("launcher")'
    BY <2>0, AddFacts DEF IInv, ClientInv, HasAccount, At
  <2>2. plug.pc = "run" => HasAccount("certs")' /\ tokenFile'["certs"]
    BY <2>0, AddFacts, OtherAccount DEF IInv, ClientInv
  <2>3. ASSUME proc'.pc = "launcherToken" PROVE ClientInv'
    BY <2>0, <2>1, <2>2, <2>3 DEF ClientInv, At
  <2> QED BY <1>0, <2>0, <2>3, StartMove DEF At
<1>2. CASE AddAccount("admin", "admin", "admin", "adminToken")
  <2>0. /\ At("admin") /\ Goto("adminToken") /\ Add("admin", keyFile["admin"], "admin")
        /\ UNCHANGED <<coreFile, keyFile, tokenFile, cut, used, plug, issued>>
    BY <1>2 DEF AddAccount, files
  <2>1. Applied' /\ HasAccount("admin")'
    BY <2>0, AddFacts DEF IInv, ClientInv, HasAccount, At
  <2>2. plug.pc = "run" => HasAccount("certs")' /\ tokenFile'["certs"]
    BY <2>0, AddFacts, OtherAccount DEF IInv, ClientInv
  <2>3. HasAccount("launcher")' /\ tokenFile'["launcher"]
    BY <2>0, AddFacts, OtherAccount DEF IInv, ClientInv, At
  <2>4. ASSUME proc'.pc = "adminToken" PROVE ClientInv'
    BY <2>0, <2>1, <2>2, <2>3, <2>4 DEF ClientInv, At
  <2> QED BY <1>0, <2>0, <2>4, StartMove DEF At
<1> QED BY <1>1, <1>2

\* Their tokens.
LEMMA TokenStep ==
    ASSUME IInv,
           \/ AccountToken("launcher", "launcherToken", "adminKey")
           \/ AccountToken("admin", "adminToken", "up")
    PROVE  IInv'
<1> USE DEF StartSteps
<1>0. keyFile \in [FileClients -> Int] /\ tokenFile \in [FileClients -> BOOLEAN]
  BY DEF IInv, TypeInv
<1>1. CASE AccountToken("launcher", "launcherToken", "adminKey")
  <2>0. /\ At("launcherToken") /\ Goto("adminKey")
        /\ tokenFile' = [tokenFile EXCEPT !["launcher"] = TRUE]
        /\ UNCHANGED <<coreFile, keyFile, cut, used, plug, issued, users, known>>
    BY <1>1 DEF AccountToken, serverVars
  <2>1. /\ tokenFile' \in [FileClients -> BOOLEAN] /\ tokenFile'["launcher"]
        /\ tokenFile'["certs"] = tokenFile["certs"]
    BY <1>0, <2>0 DEF FileClients
  <2>2. ASSUME proc'.pc = "adminKey" PROVE ClientInv'
    BY <2>0, <2>1, <2>2 DEF IInv, ClientInv, At, HasAccount, Applied
  <2> QED BY <1>0, <2>0, <2>1, <2>2, StartMove DEF At
<1>2. CASE AccountToken("admin", "adminToken", "up")
  <2>0. /\ At("adminToken") /\ Goto("up")
        /\ tokenFile' = [tokenFile EXCEPT !["admin"] = TRUE]
        /\ UNCHANGED <<coreFile, keyFile, cut, used, plug, issued, users, known>>
    BY <1>2 DEF AccountToken, serverVars
  <2>1. /\ tokenFile' \in [FileClients -> BOOLEAN] /\ tokenFile'["admin"]
        /\ tokenFile'["certs"] = tokenFile["certs"]
        /\ tokenFile'["launcher"] = tokenFile["launcher"]
    BY <1>0, <2>0 DEF FileClients
  <2>2. ASSUME proc'.pc = "up" PROVE ClientInv'
    BY <2>0, <2>1, <2>2 DEF IInv, ClientInv, At, HasAccount, Applied
  <2> QED BY <1>0, <2>0, <2>1, <2>2, StartMove DEF At
<1> QED BY <1>1, <1>2

\* Every step of the start.
LEMMA StartStepInv == ASSUME IInv, StartStep PROVE IInv'
<1>1. CASE StartServer
  <2>0. /\ At("start") /\ ~At("off")
        /\ Goto("auth") \/ Exit
        /\ UNCHANGED <<coreFile, keyFile, tokenFile, cut, used, plug, issued, users>>
    BY <1>1 DEF StartServer, files, At
  <2>1. cut \in BOOLEAN /\ used \in Counters /\ ~proc.new
    BY <2>0 DEF IInv, TypeInv, NewInv, At, SetupSteps
  <2>2. CASE Exit
    BY <2>0, <2>1, <2>2, EndStep
  <2>3. CASE Goto("auth")
    BY <2>0, <2>1, <2>3, MoveStep DEF At, HasCA, StartSteps
  <2> QED BY <2>0, <2>2, <2>3
<1> QED
  BY <1>1, StartAuthStep, PermissionsStep, AccountKeyStep, AddAccountStep, TokenStep DEF StartStep

\* A process that is up is not one that removes an old setup.
LEMMA UpFacts ==
    ASSUME IInv, At("up")
    PROVE  /\ ~proc.new /\ Applied /\ ~At("off")
           /\ HasAccount("launcher") /\ HasAccount("admin")
           /\ tokenFile["launcher"] /\ tokenFile["admin"]
BY DEF IInv, NewInv, ClientInv, At, SetupSteps

\* A change of another client.
LEMMA ClientStep ==
    ASSUME IInv, NEW c, c \notin FileClients, NEW role, AddClient(c, role)
    PROVE  IInv'
<1>0. /\ At("up") /\ Add(c, proc.run, role)
      /\ UNCHANGED <<coreFile, keyFile, tokenFile, proc, cut, used, plug, issued>>
  BY DEF AddClient, setupVars
<1>1. c # "launcher" /\ c # "admin" /\ c # "certs"
  BY DEF FileClients
<1>2. /\ keyFile' \in [FileClients -> Int] /\ tokenFile' \in [FileClients -> BOOLEAN]
      /\ plug' \in [pc : PluginSteps, caCert : Int, caKey : Int]
      /\ proc.new => plug'.pc = "idle"
  BY <1>0 DEF IInv, TypeInv, NewInv
<1>3. CertInv'
  BY <1>0 DEF IInv, CertInv
<1>4. Applied' /\ HasAccount("launcher")' /\ HasAccount("admin")'
  BY <1>0, <1>1, UpFacts, AddFacts, OtherAccount
<1>5. plug.pc = "run" => HasAccount("certs")' /\ tokenFile["certs"]
  BY <1>0, <1>1, AddFacts, OtherAccount DEF IInv, ClientInv
<1>6. ClientInv'
  BY <1>0, <1>4, <1>5, UpFacts DEF ClientInv, At
<1> QED BY <1>0, <1>2, <1>3, <1>6, BesideStep

\* Requests to the auth service.
LEMMA RequestStep == ASSUME IInv, Requests PROVE IInv'
<1>1. ASSUME NEW c \in Users \union Services PROVE c \notin FileClients
  BY ClientsAssumption
<1>2. ASSUME NEW s \in Services, RegisterService(s) PROVE IInv'
  BY <1>2, RegisterStep DEF RegisterService, setupVars
<1> QED BY <1>1, <1>2, ClientStep DEF Requests

\* The launcher makes the key of the plugin, which is not running.
LEMMA PluginKeyStep == ASSUME IInv, PluginKey PROVE IInv'
<1>0. /\ At("up") /\ LoadCreateKeyPair("certs", proc.run)
      /\ plug' = [plug EXCEPT !.pc = "add"]
      /\ UNCHANGED <<coreFile, tokenFile, proc, cut, used, issued, users, known>>
  BY DEF PluginKey, serverVars
<1>1. /\ keyFile' \in [FileClients -> Int] /\ keyFile'["launcher"] = keyFile["launcher"]
      /\ keyFile'["admin"] = keyFile["admin"]
  BY <1>0, UpFacts, KeyPairFacts DEF FileClients
<1>2. plug' \in [pc : PluginSteps, caCert : Int, caKey : Int] /\ plug'.pc = "add"
  BY <1>0 DEF IInv, TypeInv, PluginSteps
<1>3. tokenFile' \in [FileClients -> BOOLEAN]
  BY <1>0 DEF IInv, TypeInv
<1>4. CertInv'
  BY <1>0, <1>2 DEF IInv, CertInv
<1>5. ClientInv'
  BY <1>0, <1>1, <1>2, UpFacts DEF ClientInv, HasAccount, Applied, At
<1> QED BY <1>0, <1>1, <1>2, <1>3, <1>4, <1>5, UpFacts, BesideStep

\* The launcher adds it as a client, if it can.
LEMMA PluginAddStep == ASSUME IInv, PluginAdd PROVE IInv'
<1>0. /\ plug.pc = "add" /\ plug' = [plug EXCEPT !.pc = "exec"]
      /\ UNCHANGED <<coreFile, keyFile, proc, cut, used, issued>>
  BY DEF PluginAdd
<1>1. plug' \in [pc : PluginSteps, caCert : Int, caKey : Int] /\ plug'.pc = "exec"
  BY <1>0 DEF IInv, TypeInv, PluginSteps
<1>2. keyFile' \in [FileClients -> Int] /\ tokenFile \in [FileClients -> BOOLEAN] /\ ~proc.new
  BY <1>0 DEF IInv, TypeInv, NewInv
<1>3. CertInv'
  BY <1>0, <1>1 DEF IInv, CertInv
<1>4. CASE CanConnect("launcher")
  <2>1. At("up") /\ Add("certs", keyFile["certs"], "service")
    BY <1>4 DEF PluginAdd, CanConnect
  <2>2. PICK token \in BOOLEAN : tokenFile' = [tokenFile EXCEPT !["certs"] = token]
    BY <1>4 DEF PluginAdd
  <2>3. /\ tokenFile' \in [FileClients -> BOOLEAN]
        /\ tokenFile'["launcher"] = tokenFile["launcher"]
        /\ tokenFile'["admin"] = tokenFile["admin"]
    BY <1>2, <2>2 DEF FileClients
  <2>4. Applied' /\ HasAccount("launcher")' /\ HasAccount("admin")'
    BY <1>0, <2>1, UpFacts, AddFacts, OtherAccount
  <2>5. ClientInv'
    BY <1>0, <1>1, <2>1, <2>3, <2>4, UpFacts DEF ClientInv, At
  <2> QED BY <1>0, <1>1, <1>2, <1>3, <2>3, <2>5, BesideStep
<1>5. CASE ~CanConnect("launcher")
  <2>1. UNCHANGED <<users, known, tokenFile>>
    BY <1>5 DEF PluginAdd, serverVars
  <2>2. ClientInv'
    BY <1>0, <1>1, <2>1 DEF IInv, ClientInv, HasAccount, Applied, At
  <2> QED BY <1>0, <1>1, <1>2, <1>3, <2>1, <2>2, BesideStep
<1> QED BY <1>4, <1>5

\* The certificate service loads, starts, issues and ends.
LEMMA CertsStep ==
    ASSUME IInv, CertsLoadCert \/ CertsStart \/ CertsEnd \/ CertRequests
    PROVE  IInv'
<1>0. plug.pc # "idle" /\ UNCHANGED <<coreFile, keyFile, tokenFile, proc, cut, used, users, known>>
  BY DEF CertsLoadCert, CertsStart, CertsEnd, CertRequests, CreateDeviceCert, CreateUserCert,
         CreateServiceCert, Issue, setupVars, serverVars
<1>1. /\ keyFile' \in [FileClients -> Int] /\ tokenFile' \in [FileClients -> BOOLEAN]
      /\ coreFile["caCert"] \in Int /\ coreFile["caKey"] \in Int
      /\ plug \in [pc : PluginSteps, caCert : Int, caKey : Int] /\ ~proc.new
  BY <1>0 DEF IInv, TypeInv, NewInv, CoreFiles
<1>2. ASSUME plug' = NoPlugin, UNCHANGED issued PROVE IInv'
  <2>1. plug' \in [pc : PluginSteps, caCert : Int, caKey : Int] /\ plug'.pc = "idle"
    BY <1>2 DEF NoPlugin, PluginSteps
  <2>2. CertInv'
    BY <1>0, <1>2, <2>1 DEF IInv, CertInv
  <2>3. ClientInv'
    BY <1>0, <2>1 DEF IInv, ClientInv, HasAccount, Applied, At
  <2> QED BY <1>0, <1>1, <2>1, <2>2, <2>3, BesideStep
<1>3. ASSUME plug' = [plug EXCEPT !.pc = "key", !.caCert = coreFile["caCert"]],
             Valid(coreFile["caCert"]), UNCHANGED issued
      PROVE  IInv'
  <2>1. /\ plug' \in [pc : PluginSteps, caCert : Int, caKey : Int]
        /\ plug'.pc = "key" /\ plug'.caCert = coreFile["caCert"]
    BY <1>1, <1>3 DEF PluginSteps
  <2>2. CertInv'
    BY <1>0, <1>3, <2>1 DEF IInv, CertInv
  <2>3. ClientInv'
    BY <1>0, <2>1 DEF IInv, ClientInv, HasAccount, Applied, At
  <2> QED BY <1>0, <1>1, <2>1, <2>2, <2>3, BesideStep
<1>4. ASSUME plug.pc = "key", plug' = [plug EXCEPT !.pc = "run", !.caKey = coreFile["caKey"]],
             CanConnect("certs"), UNCHANGED issued
      PROVE  IInv'
  <2>1. /\ plug' \in [pc : PluginSteps, caCert : Int, caKey : Int]
        /\ plug'.pc = "run" /\ plug'.caCert = plug.caCert
    BY <1>1, <1>4 DEF PluginSteps
  <2>2. CertInv'
    BY <1>0, <1>4, <2>1 DEF IInv, CertInv
  <2>3. tokenFile["certs"] /\ Valid(keyFile["certs"])
    BY <1>4 DEF CanConnect, LoadsTokenFile, NewKeyFromFile
  <2>4. HasAccount("certs")
    BY <1>4, <2>3, UpFacts DEF CanConnect, ConnectsWithKey, HasAccount, Applied
  <2>5. ClientInv'
    BY <1>0, <2>1, <2>3, <2>4 DEF IInv, ClientInv, HasAccount, Applied, At
  <2> QED BY <1>0, <1>1, <2>1, <2>2, <2>5, BesideStep
<1>5. ASSUME plug.pc = "run", UNCHANGED plug, NEW certs, issued' = issued \union certs,
             \A cert \in certs : cert.ca = plug.caCert
      PROVE  IInv'
  <2>1. CertInv'
    BY <1>0, <1>5 DEF IInv, CertInv
  <2>2. ClientInv'
    BY <1>0, <1>5 DEF IInv, ClientInv, HasAccount, Applied, At
  <2> QED BY <1>0, <1>1, <1>5, <2>1, <2>2, BesideStep
<1>6. CASE CertsLoadCert
  BY <1>2, <1>3, <1>6 DEF CertsLoadCert, LoadX509CertFromPEM
<1>7. CASE CertsStart
  BY <1>2, <1>4, <1>7 DEF CertsStart
<1>8. CASE CertsEnd
  BY <1>2, <1>8 DEF CertsEnd
<1>9. CASE CertRequests
  <2>1. ASSUME NEW id, NEW pubKey
        PROVE  \A cert \in createClientCert(id, pubKey) : cert.ca = plug.caCert
    <3>1. createClientCert(id, pubKey) \subseteq {[ca |-> plug.caCert, name |-> id]}
      BY Zenon DEF createClientCert
    <3> QED BY <3>1
  <2>2. ASSUME NEW id, NEW pubKey, NEW names
        PROVE  \A cert \in createServiceCert(id, pubKey, names) : cert.ca = plug.caCert
    <3>1. createServiceCert(id, pubKey, names) \subseteq {[ca |-> plug.caCert, name |-> id]}
      BY Zenon DEF createServiceCert
    <3> QED BY <3>1
  <2>3. ASSUME NEW certs, Issue(certs), \A cert \in certs : cert.ca = plug.caCert
        PROVE  IInv'
    BY <1>5, <2>3 DEF Issue
  <2>4. ASSUME NEW id, NEW pubKey, CreateDeviceCert(id, pubKey) \/ CreateUserCert(id, pubKey)
        PROVE  IInv'
    BY <2>1, <2>3, <2>4 DEF CreateDeviceCert, CreateUserCert
  <2>5. ASSUME NEW id, NEW pubKey, NEW names, CreateServiceCert(id, pubKey, names)
        PROVE  IInv'
    BY <2>2, <2>3, <2>5 DEF CreateServiceCert
  <2>6. PICK id \in {"", "name"}, pubKey \in {"valid", "invalid"} :
          \/ CreateDeviceCert(id, pubKey)
          \/ CreateUserCert(id, pubKey)
          \/ \E names \in {"nil", "host"} : CreateServiceCert(id, pubKey, names)
    BY <1>9 DEF CertRequests
  <2>7. CASE CreateDeviceCert(id, pubKey) \/ CreateUserCert(id, pubKey)
    BY <2>4, <2>7
  <2>8. CASE \E names \in {"nil", "host"} : CreateServiceCert(id, pubKey, names)
    BY <2>5, <2>8
  <2> QED BY <2>6, <2>7, <2>8
<1> QED BY <1>6, <1>7, <1>8, <1>9

-----------------------------------------------------------------------------
\* In the beginning there are no files.
LEMMA InitInv == ASSUME Init PROVE IInv
<1>0. /\ coreFile = [f \in CoreFiles |-> 0] /\ keyFile = [c \in FileClients |-> 0]
      /\ tokenFile = [c \in FileClients |-> FALSE] /\ proc = Off /\ cut = FALSE
      /\ used = [runs |-> 0, crashes |-> 0, news |-> 0]
      /\ plug = [pc |-> "idle", caCert |-> 0, caKey |-> 0] /\ issued = {}
  BY DEF Init, SetupInit, Absent, NoPlugin
<1>1. proc \in Procs /\ proc.pc = "off" /\ proc.new = FALSE
  <2>1. proc = Off
    BY <1>0
  <2> QED BY <2>1 DEF Off, Procs, Step
<1>2. used \in Counters /\ plug \in [pc : PluginSteps, caCert : Int, caKey : Int]
      /\ plug.pc = "idle"
  BY <1>0 DEF Counters, PluginSteps
<1>a. /\ coreFile \in [CoreFiles -> Int] /\ keyFile \in [FileClients -> Int]
      /\ tokenFile \in [FileClients -> BOOLEAN]
  BY <1>0
<1>b. ~Valid(coreFile["caCert"])
  <2>1. coreFile["caCert"] = 0
    BY <1>0 DEF CoreFiles
  <2> QED BY <2>1 DEF Valid
<1>3. /\ coreFile \in [CoreFiles -> Int] /\ keyFile \in [FileClients -> Int]
      /\ tokenFile \in [FileClients -> BOOLEAN] /\ cut \in BOOLEAN
      /\ ~Valid(coreFile["caCert"])
  BY <1>0, <1>a, <1>b
<1>4. TypeInv /\ NewInv
  BY <1>1, <1>2, <1>3 DEF TypeInv, NewInv, At
<1>5. CaInv
  BY <1>1, <1>3 DEF CaInv, CaPairMatches, At, HasCA, StartSteps
<1>6. CertInv /\ ClientInv
  BY <1>0, <1>1, <1>2 DEF CertInv, ClientInv, At
<1> QED BY <1>4, <1>5, <1>6 DEF IInv

\* Every step of the system keeps the invariant.
LEMMA NextInv == ASSUME IInv, [Next]_vars PROVE IInv'
<1>1. CASE LaunchAny
  BY <1>1, LaunchStep
<1>2. CASE Setup
  BY <1>2, SetupStepInv, RemoveStep DEF Setup
<1>3. CASE StartStep
  BY <1>3, StartStepInv
<1>4. CASE StopCore
  <2>1. cut \in BOOLEAN /\ used \in Counters
    BY DEF IInv, TypeInv
  <2> QED BY <1>4, <2>1, EndStep DEF StopCore, files
<1>5. CASE CrashCore
  BY <1>5, CrashStep
<1>6. CASE Requests
  BY <1>6, RequestStep
<1>7. CASE Plugin
  BY <1>7, PluginKeyStep, PluginAddStep, CertsStep DEF Plugin
<1>8. CASE UNCHANGED vars
  <2>1. UNCHANGED <<coreFile, keyFile, tokenFile, proc, cut, used, plug, issued, users, known>>
    BY <1>8 DEF vars, setupVars, serverVars
  <2>2. CertInv' /\ ClientInv'
    BY <2>1 DEF IInv, CertInv, ClientInv, HasAccount, Applied, At
  <2>3. /\ keyFile' \in [FileClients -> Int] /\ tokenFile' \in [FileClients -> BOOLEAN]
        /\ plug' \in [pc : PluginSteps, caCert : Int, caKey : Int]
        /\ proc.new => plug'.pc = "idle"
    BY <2>1 DEF IInv, TypeInv, NewInv
  <2> QED BY <2>1, <2>2, <2>3, BesideStep
<1> QED BY <1>1, <1>2, <1>3, <1>4, <1>5, <1>6, <1>7, <1>8 DEF Next

\* The invariant is inductive.
THEOREM Invariance == Spec => []IInv
<1>1. Init => IInv
  BY InitInv
<1>2. IInv /\ [Next]_vars => IInv'
  BY NextInv
<1> QED BY <1>1, <1>2, PTL DEF Spec

\* However often setups and starts crash, and at whatever write: a CA certificate that
\* loads has its key beside it, unless the removal of an old setup was interrupted.
THEOREM CaPairMatchesHolds == Spec => []CaPairMatches
<1>1. IInv => CaPairMatches
  BY DEF IInv, CaInv
<1> QED BY <1>1, Invariance, PTL

\* When the core is up, the launcher, the administrator and a certificate service that
\* runs can connect with what is in their files.
THEOREM ClientsConnectHolds == Spec => []ClientsConnect
<1>1. ASSUME IInv PROVE ClientsConnect
  <2>1. SUFFICES ASSUME At("up") PROVE ClientsConnect
    BY DEF ClientsConnect
  <2>2. Valid(coreFile["caCert"]) /\ coreFile["caCert"] = proc.CaCert
    BY <1>1, <2>1 DEF IInv, CaInv, HasCA, At
  <2>3. ASSUME NEW c \in FileClients, HasAccount(c), tokenFile[c] PROVE CanConnect(c)
    <3>1. LoadsTokenFile(c)
      BY <2>3, <1>1 DEF LoadsTokenFile, HasAccount, NewKeyFromFile, Valid, IInv, TypeInv
    <3>2. ConnectsWithKey(c)
      BY <1>1, <2>1, <2>3, UpFacts DEF ConnectsWithKey, HasAccount, Applied
    <3> QED BY <2>1, <2>2, <3>1, <3>2 DEF CanConnect
  <2>4. plug.pc = "run" => HasAccount("certs") /\ tokenFile["certs"]
    BY <1>1 DEF IInv, ClientInv
  <2> QED BY <1>1, <2>1, <2>3, <2>4, UpFacts DEF ClientsConnect, FileClients
<1> QED BY <1>1, Invariance, PTL

\* What the certificate service has issued verifies with the service that runs now and
\* with the CA certificate in the file, over any restarts of both.
THEOREM IssuedVerifiesHolds == Spec => []IssuedVerifies
<1>1. IInv => IssuedVerifies
  BY DEF IInv, CertInv, IssuedVerifies, VerifyCert
<1> QED BY <1>1, Invariance, PTL

\* A CA certificate that clients may have loaded is replaced by no start, whatever
\* crashes came before, only by the removal of the old setup.
THEOREM CaIsStableHolds == Spec => CaIsStable
<1> DEFINE Stable == Valid(coreFile.caCert) /\ coreFile.caCert' # coreFile.caCert
                        => At("remove") \/ cut
<1>1. ASSUME IInv, [Next]_vars PROVE [Stable]_setupVars
  <2>1. CASE coreFile' = coreFile
    BY <2>1
  <2>2. CASE ExportCaKey
    <3>1. At("caKey")
      BY <2>2 DEF ExportCaKey
    <3> QED BY <1>1, <3>1 DEF IInv, CaInv
  <2>3. CASE SaveCaCert
    <3>1. At("caCert")
      BY <2>3 DEF SaveCaCert
    <3> QED BY <1>1, <3>1 DEF IInv, CaInv
  <2>4. CASE LoadAppKey
    <3>1. coreFile'["caCert"] = coreFile["caCert"]
      BY <1>1, <2>4 DEF LoadAppKey, IInv, TypeInv, CoreFiles
    <3> QED BY <3>1
  <2>5. CASE RemoveAll
    BY <2>5 DEF RemoveAll
  <2>6. CASE CrashCore
    <3>1. Crash /\ cut' = (cut \/ At("remove"))
      BY <2>6 DEF CrashCore, Crash
    <3> QED BY <1>1, <3>1, TornCA
  <2>7. \/ coreFile' = coreFile \/ ExportCaKey \/ SaveCaCert \/ LoadAppKey
        \/ RemoveAll \/ CrashCore
    BY <1>1 DEF Next, LaunchAny, Launch, Setup, SetupStep, setupDirectories, LoadCA,
                CreateServerCert, LoadCreateUserKP, EnsureDataDir, StartStep, StartServer,
                StartAuth, SetAuthPermissions, AccountKey, AddAccount, AccountToken, StopCore,
                Requests, AddClient, RegisterService, Plugin, PluginKey, PluginAdd,
                CertsLoadCert, CertsStart, CertsEnd, CertRequests, CreateDeviceCert,
                CreateUserCert, CreateServiceCert, Issue, files, setupVars, vars
  <2> QED BY <2>1, <2>2, <2>3, <2>4, <2>5, <2>6, <2>7
<1> QED BY <1>1, Invariance, PTL DEF Spec, CaIsStable

=============================================================================
