----------------------------- MODULE Approvals -----------------------------
(***************************************************************************)
(* The approvals of a repository, .masuda/settings.local.json, the values   *)
(* of its secrets, and what they open.                                     *)
(*                                                                         *)
(* ConfigService (serve/config.go) reads the whole file and writes it back  *)
(* under its own mutex; `masuda env import` (cmd/masuda/env.go) does the    *)
(* same in a process of its own, without it, after it has put the secrets   *)
(* of its file into the store through serve.  Run and Resume read the file  *)
(* and then the store into the plan of a run (serve/settings.go), which     *)
(* bounds the secrets and the hosts of its VM; run_privileged_command reads *)
(* the file at each call.  The declarations, settings.json, are edited by people and by      *)
(* published commits, and a run works on the copy it made when it began.    *)
(***************************************************************************)
EXTENDS Integers, FiniteSets

CONSTANTS Hosts,       \* hosts that egress may declare
          Plaintexts,  \* names of secrets in plaintext mode
          Placeholders,\* names of secrets in placeholder mode, which need no approval
          Clients,     \* callers of ConfigService
          MaxDecls,    \* bound: declarations of the privileged command
          MaxImports,  \* bound: files for env import
          MaxStops     \* bound: Stops

Secrets == Plaintexts \cup Placeholders
Items == Hosts \cup Secrets

ASSUME ItemsAssumption == Hosts \cap Secrets = {} /\ Plaintexts \cap Placeholders = {}
\* The name of a client is not the word for a mutex that is free.
ASSUME NamesAssumption == "free" \notin Clients
ASSUME ApprovalsBounds == MaxDecls \in Nat \ {0} /\ MaxImports \in Nat /\ MaxStops \in Nat

VARIABLES
    decl,      \* settings.json: the items declared, and which declaration the command has
    local,     \* settings.local.json: the items approved, the declaration pinned, the vars
    mu,        \* configService.mu: the client that holds it, or "free"
    client,    \* the calls of ConfigService
    store,     \* the values of the secrets: 1 + the file that was imported last when it was set
    importer,  \* env import: its file, the secrets it has still to set, what it has read
    run,       \* the run: the copy of its declarations, its plan
    sandbox,   \* its VM: hosts that are open, plaintext values in its environment
    policies,  \* SetPolicy calls that the sandbox service has still to handle
    ran,       \* the declaration of the privileged command that ran last, or 0
    said,      \* history: what people have approved, and the declaration they had read
    stops,
    mishap     \* history: see Mishaps

fileVars == <<local, mu, client, store, importer>>
runVars == <<run, sandbox, policies, ran>>
approvalsVars == <<decl, fileVars, runVars, said, stops, mishap>>

(* import: env import and a call of serve wrote over each other;
   unseen: the declaration changed between the list and the approval;
   late: a SetPolicy of a stopped run reached the VM of the next one;
   skipped: env import passed over a secret of its file that was not declared. *)
Mishaps == {"import", "unseen", "late", "skipped"}

Pins == 0..MaxDecls
Files == [approved : SUBSET Items, pin : Pins, vars : 0..MaxImports]
NoFile == [approved |-> {}, pin |-> 0, vars |-> 0]
Idle == [at |-> "idle", op |-> "none", item |-> "none", seen |-> 0, hash |-> 0, copy |-> NoFile]
Policies == [hosts : SUBSET Hosts, old : BOOLEAN]
Ages == 0..(MaxImports + 1)
NoImport == [at |-> "idle", file |-> 0, todo |-> {}, copy |-> NoFile]
NoValues == [s \in Secrets |-> 0]
NoRun == [at |-> "none", items |-> {}, cmd |-> 0, plan |-> {}, said |-> {}, vars |-> 0, values |-> NoValues]

Decls == [items : SUBSET Items, cmd : 1..MaxDecls]
ConfigCalls == [at : {"idle", "listed", "loaded"}, op : {"none", "approve", "reject", "pin"},
          item : Items \cup {"none"}, seen : Pins, hash : Pins, copy : Files]
Imports == [at : {"idle", "sets", "loaded", "failed"}, file : 0..MaxImports,
            todo : SUBSET Secrets, copy : Files]
Stores == [Secrets -> Ages]
Runs == [at : {"none", "copied", "planning", "replanning", "planned", "up", "stopped"},
         items : SUBSET Items, cmd : Pins, plan : SUBSET Items, said : SUBSET Items,
         vars : 0..MaxImports, values : Stores]
Sandboxes == [on : BOOLEAN, hosts : SUBSET Hosts, plain : SUBSET Plaintexts]
Sayings == [approved : SUBSET Items, pin : Pins]

ApprovalsTypeOK ==
    /\ decl \in Decls
    /\ local \in Files
    /\ mu \in Clients \cup {"free"}
    /\ client \in [Clients -> ConfigCalls]
    /\ store \in Stores
    /\ importer \in Imports
    /\ run \in Runs
    /\ sandbox \in Sandboxes
    /\ policies \subseteq Policies
    /\ ran \in Pins
    /\ said \in Sayings
    /\ stops \in 0..MaxStops
    /\ mishap \subseteq Mishaps

ApprovalsInit ==
    /\ decl = [items |-> Items, cmd |-> 1]
    /\ local = NoFile /\ said = [approved |-> {}, pin |-> 0]
    /\ mu = "free"
    /\ client = [c \in Clients |-> Idle]
    /\ store = NoValues /\ importer = NoImport
    /\ run = NoRun
    /\ sandbox = [on |-> FALSE, hosts |-> {}, plain |-> {}]
    /\ policies = {} /\ ran = 0
    /\ stops = 0 /\ mishap = {}

(***************************************************************************)
(* The declarations                                                        *)
(***************************************************************************)

\* A person, or a publish, changes settings.json of the working tree: the declaration of the
\* command, and an item that goes or comes.
Declare ==
    /\ decl.cmd < MaxDecls
    /\ \E i \in Items :
         \E items \in {decl.items, decl.items \ {i}, decl.items \cup {i}} :
           decl' = [items |-> items, cmd |-> decl.cmd + 1]
    /\ UNCHANGED <<fileVars, runVars, said, stops, mishap>>

(***************************************************************************)
(* ConfigService                                                           *)
(***************************************************************************)

\* A person lists the privileged commands, and decides to approve this one.
List(c) ==
    /\ client[c] = Idle
    /\ client' = [client EXCEPT ![c] = [Idle EXCEPT !.at = "listed", !.seen = decl.cmd]]
    /\ UNCHANGED <<decl, local, mu, store, importer, runVars, said, stops, mishap>>

\* The calls that people can make: approvals and rejections of a host, those of a secret,
\* and the approval of the command.
EgressCalls == {"approve", "reject"} \X Hosts
SecretCalls == {"approve", "reject"} \X Plaintexts
PinCalls == {<<"pin", "none">>}

\* There is something to write: an approval is of what is declared, and what is approved
\* can be taken back also when it is no longer declared.
Changes(op, item) ==
    CASE op = "approve" -> item \in decl.items \ local.approved
      [] op = "reject" -> item \in local.approved
      [] op = "pin" -> item = "none"

Reads(c, op, item) ==
    client' = [client EXCEPT ![c].at = "loaded", ![c].op = op, ![c].item = item,
                             ![c].copy = local, ![c].hash = decl.cmd]

\* Mutant: the files are read without the mutex.
LoadUnlocked(c, op, item) ==
    /\ client[c].at = (IF op = "pin" THEN "listed" ELSE "idle")
    /\ Changes(op, item)
    /\ Reads(c, op, item)
    /\ UNCHANGED <<decl, local, mu, store, importer, runVars, said, stops, mishap>>

\* A call of ApproveEgress, ApproveSecret (approve), RejectEgress, RejectSecret (reject) or
\* ApprovePrivilegedCommand (pin): the mutex is taken, and both files are read.
Load(c, op, item) ==
    /\ client[c].at = (IF op = "pin" THEN "listed" ELSE "idle")
    /\ mu = "free" /\ Changes(op, item)
    /\ mu' = c
    /\ Reads(c, op, item)
    /\ UNCHANGED <<decl, local, store, importer, runVars, said, stops, mishap>>

With(c, file) ==
    CASE client[c].op = "approve" -> [file EXCEPT !.approved = @ \cup {client[c].item}]
      [] client[c].op = "reject" -> [file EXCEPT !.approved = @ \ {client[c].item}]
      [] OTHER -> [file EXCEPT !.pin = client[c].hash]

\* What the person meant by it.
Meant(c) ==
    CASE client[c].op = "approve" -> [said EXCEPT !.approved = @ \cup {client[c].item}]
      [] client[c].op = "reject" -> [said EXCEPT !.approved = @ \ {client[c].item}]
      [] OTHER -> [said EXCEPT !.pin = client[c].seen]

\* The whole file is written, as it was read, with the one change.
Save(c) ==
    /\ client[c].at = "loaded"
    /\ local' = With(c, client[c].copy)
    /\ said' = Meant(c)
    /\ mu' = "free"
    /\ client' = [client EXCEPT ![c] = Idle]
    /\ mishap' = mishap
         \cup (IF client[c].copy.vars # local.vars \/ importer.at = "loaded" THEN {"import"} ELSE {})
         \cup (IF client[c].op = "pin" /\ client[c].seen # client[c].hash THEN {"unseen"} ELSE {})
    /\ UNCHANGED <<decl, store, importer, runVars, stops>>

\* The file cannot be written: nothing has changed, and the caller is told.
SaveFails(c) ==
    /\ client[c].at = "loaded"
    /\ mu' = "free"
    /\ client' = [client EXCEPT ![c] = Idle]
    /\ UNCHANGED <<decl, local, store, importer, runVars, said, stops, mishap>>

(***************************************************************************)
(* The values of secrets, and masuda env import                            *)
(***************************************************************************)

\* What masuda secret set may name.
SetCalls == Secrets

\* SetSecret sets only a secret that is declared.
Settable(s) == s \in decl.items

\* The write of the value.
Put(s) == store' = [store EXCEPT ![s] = 1 + importer.file]

\* masuda secret set.
SetValue(s) ==
    /\ Settable(s) /\ store[s] # 1 + importer.file
    /\ Put(s)
    /\ UNCHANGED <<decl, local, mu, client, importer, runVars, said, stops, mishap>>

\* The file is read, and each name in it goes to the store, to the vars or nowhere.
Classified(file) == [NoImport EXCEPT !.at = "sets", !.file = file, !.todo = Secrets \cap decl.items]

\* The next file is imported, or one again whose import had failed.
ImportBegins ==
    /\ importer.at \in {"idle", "failed"}
    /\ \E file \in {importer.file, importer.file + 1} :
         /\ file = importer.file => importer.at = "failed"
         /\ file <= MaxImports
         /\ importer' = Classified(file)
    /\ mishap' = IF Secrets \subseteq decl.items THEN mishap ELSE mishap \cup {"skipped"}
    /\ UNCHANGED <<decl, local, mu, client, store, runVars, said, stops>>

ImportSets(s) ==
    /\ importer.at = "sets" /\ s \in importer.todo /\ Settable(s)
    /\ Put(s)
    /\ importer' = [importer EXCEPT !.todo = @ \ {s}]
    /\ UNCHANGED <<decl, local, mu, client, runVars, said, stops, mishap>>

\* Mutant: a secret that cannot be set is reported, and the import goes on.
ImportGoesOn(s) ==
    /\ importer.at = "sets" /\ s \in importer.todo
    /\ Put(s) \/ UNCHANGED store
    /\ importer' = [importer EXCEPT !.todo = @ \ {s}]
    /\ UNCHANGED <<decl, local, mu, client, runVars, said, stops, mishap>>

\* SetSecret is refused, cannot write or is not reached, or its answer is lost: the import ends
\* there.
ImportFails(s) ==
    /\ importer.at = "sets" /\ s \in importer.todo
    /\ Put(s) \/ UNCHANGED store
    /\ importer' = [NoImport EXCEPT !.at = "failed", !.file = importer.file]
    /\ UNCHANGED <<decl, local, mu, client, runVars, said, stops, mishap>>

\* settings.local.json is read again for the vars.
ImportLoad ==
    /\ importer.at = "sets" /\ importer.todo = {}
    /\ importer' = [importer EXCEPT !.at = "loaded", !.copy = local]
    /\ UNCHANGED <<decl, local, mu, client, store, runVars, said, stops, mishap>>

ImportSave ==
    /\ importer.at = "loaded"
    /\ local' = [importer.copy EXCEPT !.vars = importer.file]
    /\ importer' = [NoImport EXCEPT !.file = importer.file]
    /\ UNCHANGED <<decl, mu, client, store, runVars, said, stops, mishap>>

(***************************************************************************)
(* A run                                                                   *)
(***************************************************************************)

\* Run copies .masuda before it reads anything of it.
Copy ==
    /\ run.at = "none"
    /\ run' = [run EXCEPT !.at = "copied", !.items = decl.items, !.cmd = decl.cmd]
    /\ UNCHANGED <<decl, fileVars, sandbox, policies, ran, said, stops, mishap>>

\* Mutant: a Resume goes by what the Run had read.
ReadOnce ==
    [run EXCEPT !.at = IF run.at = "copied" THEN "planning" ELSE "replanning",
                !.plan = IF run.at = "stopped" THEN run.plan ELSE run.items \cap local.approved,
                !.vars = local.vars, !.said = said.approved]

\* What is declared and approved, or needs no approval.
Allowed == run.items \cap (local.approved \cup Placeholders)

\* What planBoot takes from the files: what is declared and approved, and the vars.
ReadFiles ==
    [run EXCEPT !.at = IF run.at = "copied" THEN "planning" ELSE "replanning",
                !.plan = Allowed,
                !.vars = local.vars, !.said = said.approved]

\* planBoot, for Run and for every Resume, reads the files first.
PlanReads ==
    /\ run.at \in {"copied", "stopped"}
    /\ run' = ReadFiles
    /\ UNCHANGED <<decl, fileVars, sandbox, policies, ran, said, stops, mishap>>

\* Every declared secret has a value, and is approved if it is plaintext.
NothingMissing ==
    \A s \in run.items \cap Secrets : store[s] # 0 /\ s \in run.plan

\* The values of the declared secrets.
Values == [s \in Secrets |-> IF s \in run.items THEN store[s] ELSE 0]

\* Then it reads the store.  It refuses while something is missing: the Run ends, the Resume
\* leaves the run as it was.
Plan ==
    /\ run.at \in {"planning", "replanning"}
    /\ run' = IF NothingMissing
              THEN [run EXCEPT !.at = "planned", !.values = Values]
              ELSE IF run.at = "planning" THEN NoRun
              ELSE [run EXCEPT !.at = "stopped", !.vars = 0]
    /\ UNCHANGED <<decl, fileVars, sandbox, policies, ran, said, stops, mishap>>

\* The VM is made: no host but the API's, and the values of the plaintext secrets.
CreateSandbox ==
    /\ run.at = "planned"
    /\ run' = [run EXCEPT !.at = "up"]
    /\ sandbox' = [on |-> TRUE, hosts |-> {}, plain |-> run.items \cap Plaintexts]
    /\ UNCHANGED <<decl, fileVars, policies, ran, said, stops, mishap>>

\* The engine comes to a node.  Its hosts are refused unless the plan has them all.
SetPolicy(hosts) ==
    /\ run.at = "up" /\ hosts \subseteq run.plan
    /\ \A p \in policies : p.old
    /\ policies' = policies \cup {[hosts |-> hosts, old |-> FALSE]}
    /\ UNCHANGED <<decl, fileVars, run, sandbox, ran, said, stops, mishap>>

\* The sandbox service handles it, also when its caller has gone meanwhile.
PolicyHandled(p) ==
    /\ p \in policies
    /\ policies' = policies \ {p}
    /\ IF sandbox.on THEN /\ sandbox' = [sandbox EXCEPT !.hosts = p.hosts]
                          /\ mishap' = IF p.old THEN mishap \cup {"late"} ELSE mishap
       ELSE UNCHANGED <<sandbox, mishap>>
    /\ UNCHANGED <<decl, fileVars, run, ran, said, stops>>

StopRun ==
    /\ run.at \in {"planned", "up"} /\ stops < MaxStops
    /\ stops' = stops + 1
    /\ run' = [run EXCEPT !.at = "stopped", !.vars = 0, !.values = NoValues]
    /\ sandbox' = [on |-> FALSE, hosts |-> {}, plain |-> {}]
    /\ policies' = {[p EXCEPT !.old = TRUE] : p \in policies}
    /\ UNCHANGED <<decl, fileVars, ran, said, mishap>>

\* Mutant: an approval of the command, whatever its declaration was.
ResolveByName ==
    /\ run.at = "up" /\ local.pin # 0
    /\ ran' = run.cmd
    /\ UNCHANGED <<decl, fileVars, run, sandbox, policies, said, stops, mishap>>

\* A privileged command runs as the copy declares it, if the approval has that hash.
Resolve ==
    /\ run.at = "up" /\ local.pin = run.cmd
    /\ ran' = run.cmd
    /\ UNCHANGED <<decl, fileVars, run, sandbox, policies, said, stops, mishap>>

(***************************************************************************)
(* Specification                                                           *)
(***************************************************************************)

ApprovalsNext ==
    \/ Declare
    \/ \E c \in Clients :
         \/ List(c) \/ Save(c) \/ SaveFails(c)
         \/ \E call \in EgressCalls \cup SecretCalls \cup PinCalls : Load(c, call[1], call[2])
    \/ \E s \in SetCalls : SetValue(s)
    \/ \E s \in Secrets : ImportSets(s) \/ ImportFails(s)
    \/ ImportBegins \/ ImportLoad \/ ImportSave
    \/ Copy \/ PlanReads \/ Plan \/ CreateSandbox \/ StopRun \/ Resolve
    \/ \E hosts \in SUBSET Hosts : SetPolicy(hosts)
    \/ \E p \in policies : PolicyHandled(p)

ApprovalsSpec == ApprovalsInit /\ [][ApprovalsNext]_approvalsVars

(***************************************************************************)
(* Properties                                                              *)
(***************************************************************************)

\* settings.local.json holds every approval and every rejection that was answered, and the
\* declaration that was read before it was approved: calls at the same time do not undo
\* one another.
FileIsWhatWasSaid == local.approved = said.approved /\ local.pin = said.pin
FileIsWhatWasSaidUnlessSlip == mishap \cap {"import", "unseen"} # {} \/ FileIsWhatWasSaid

\* The VM of a run opens and holds only what was declared when the run began and was
\* approved when it was last started: what is taken back stays out after the next Resume.
VMWithinApprovalsUnlessSlip ==
    mishap \cap {"import", "late"} # {}
    \/ (sandbox.on => sandbox.hosts \cup sandbox.plain \subseteq run.items \cap run.said)

\* A run never has the vars of one .env file with the secrets of an older one: env import
\* sets the secrets first, stops at one that fails, and writes the vars last; planBoot reads
\* them in the opposite order.  The slip: a secret of the file that was not declared yet is passed
\* over, and its old value stays.
VarsWithTheirSecretsUnlessSlip ==
    mishap \cap {"import", "skipped"} # {}
    \/ (run.at \in {"planned", "up"} => \A s \in run.items \cap Secrets : run.values[s] > run.vars)

\* A privileged command runs only as a person has read and approved it, whatever the
\* working tree declares by now.
RunsAsReadUnlessSlip ==
    [][mishap' \cap {"import", "unseen"} # {} \/ ran' = ran \/ ran' = said.pin]_approvalsVars

\* What a person said is on file, and bounds what a VM has: the two above
\* (internal/config/local.go; serve/settings.go, planBoot).
ApprovalsBindUnlessSlip == FileIsWhatWasSaidUnlessSlip /\ VMWithinApprovalsUnlessSlip
=============================================================================
