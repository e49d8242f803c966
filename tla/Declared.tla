------------------------------ MODULE Declared ------------------------------
(***************************************************************************)
(* What .masuda/settings.json may declare, and what is made of it: the     *)
(* patterns of a privileged command's inputs and outputs                   *)
(* (internal/privileged/glob.go), the files they select in a guest and in  *)
(* the working tree, the rules of Validate (internal/config/config.go),    *)
(* and the hosts, secrets and variables that planBoot and Resolve take     *)
(* from settings that passed it.                                           *)
(*                                                                         *)
(* These are functions: the state is an input, which does not change.  A   *)
(* path is a sequence of names, a pattern one of segments, a host name one *)
(* of labels, of which a first "*" stands for one label or more.           *)
(***************************************************************************)
EXTENDS SequencesExt

CONSTANTS Patterns,  \* sequences of segments
          Names,     \* sequences of names
          Trees,     \* sets of files
          Files,     \* settings, and what is approved and known beside them
          Hosts      \* host names

\* A path has a name, and is that of one file of a tree.
ASSUME DeclaredAssumption ==
    /\ Patterns \subseteq Seq(STRING) /\ Names \subseteq Seq(STRING)
    /\ \A tree \in Trees : \A f, g \in tree :
           f.path \in Seq(STRING) \ {<<>>} /\ (f.path = g.path => f = g)

VARIABLE input

NoInput == [kind |-> "none"]

Inputs == [kind : {"match"}, pattern : Patterns, name : Names]
     \cup [kind : {"tree"}, tree : Trees, pattern : Patterns]
     \cup [kind : {"settings"}, file : Files]

(***************************************************************************)
(* Patterns                                                                *)
(***************************************************************************)

\* A segment is a name, "*", which path.Match takes for any one name, or "**".
\* "[" stands for what path.Match cannot read.
ValidatePattern(pattern) ==
    /\ pattern # <<>>
    /\ \A k \in DOMAIN pattern : pattern[k] \notin {"", ".", "..", "["}

SegmentMatches(segment, name) == segment \in {"*", name}

\* Mutant: a "**" in the middle takes one segment or more.
MatchSome(pattern, name) ==
    LET from[p \in 1..(Len(pattern) + 1)] ==
            IF p > Len(pattern) THEN {Len(name) + 1}
            ELSE IF pattern[p] = "**"
            THEN IF p = Len(pattern) THEN 1..Len(name)
                 ELSE {n \in 1..Len(name) : \E i \in (n + 1)..Len(name) : i \in from[p + 1]}
            ELSE {n \in 1..Len(name) : SegmentMatches(pattern[p], name[n]) /\ n + 1 \in from[p + 1]}
    IN  1 \in from[1]

\* matchSegs, as the names from which on the segments from p on match: several "**" are
\* one; the rest of the pattern is tried from each of the names that are left, and a "**"
\* at the end takes one at least.
Match(pattern, name) ==
    LET from[p \in 1..(Len(pattern) + 1)] ==
            IF p > Len(pattern) THEN {Len(name) + 1}
            ELSE IF pattern[p] = "**"
            THEN LET rest == SelectInSubSeq(pattern, p, Len(pattern), LAMBDA s : s # "**")
                 IN  IF rest = 0 THEN 1..Len(name)
                     ELSE {n \in 1..Len(name) : \E i \in n..Len(name) : i \in from[rest]}
            ELSE {n \in 1..Len(name) : SegmentMatches(pattern[p], name[n]) /\ n + 1 \in from[p + 1]}
    IN  1 \in from[1]

\* What a pattern means: its segments begin at places of the name that follow each other,
\* each "**" stands for some number of names, and those at its end for one at least.
Expands(pattern, name) ==
    \E begins \in [1..(Len(pattern) + 1) -> 1..(Len(name) + 1)] :
        /\ begins[1] = 1 /\ begins[Len(pattern) + 1] = Len(name) + 1
        /\ \A k \in 1..Len(pattern) :
               IF pattern[k] = "**" THEN begins[k] <= begins[k + 1]
               ELSE begins[k + 1] = begins[k] + 1 /\ SegmentMatches(pattern[k], name[begins[k]])
        /\ pattern[Len(pattern)] = "**" =>
               \E k \in 1..Len(pattern) :
                   begins[k] < begins[k + 1] /\ \A l \in k..Len(pattern) : pattern[l] = "**"

(***************************************************************************)
(* Files                                                                   *)
(***************************************************************************)

\* A file: its path, whether it is a regular one, and whether git ignores it.
InGit(path) == \E k \in 1..(Len(path) - 1) : path[k] = ".git"
NamedGit(path) == \E k \in DOMAIN path : path[k] = ".git"

\* matchFiles, of the main guest: a directory .git is not entered, links are not
\* followed.
GuestInputs(tree, pattern) ==
    {f.path : f \in {f \in tree : f.regular /\ ~InGit(f.path) /\ Match(pattern, f.path)}}

\* git ls-files of the ignored files; the others are in the snapshot of the tree.
IgnoredFiles(tree) == {f \in tree : f.ignored}

\* WorktreeInputs, of masuda privileged-command run.
WorktreeInputs(tree, pattern) ==
    {f.path : f \in {f \in IgnoredFiles(tree) : f.regular /\ ~NamedGit(f.path) /\ Match(pattern, f.path)}}

(***************************************************************************)
(* Hosts                                                                   *)
(***************************************************************************)

\* Mutant: a wildcard takes the domain itself, too.
HostAllowedApex(allowed, host) ==
    \E a \in allowed :
        \/ a = host
        \/ a[1] = "*" /\ host[1] # "*" /\ IsSuffix(Tail(a), host)

HostAllowed(allowed, host) ==
    \E a \in allowed :
        \/ a = host
        \/ a[1] = "*" /\ host[1] # "*" /\ IsStrictSuffix(Tail(a), host)

\* What a host of a declaration stands for.
Covers(a, host) == IF a[1] = "*" THEN IsStrictSuffix(Tail(a), host) ELSE a = host

(***************************************************************************)
(* Settings                                                                *)
(***************************************************************************)

NamesOf(secrets) == {d.name : d \in ToSet(secrets)}
Once(secrets) == \A k, l \in DOMAIN secrets : secrets[k].name = secrets[l].name => k = l

Reserved == "CLAUDE_CODE_OAUTH_TOKEN"

ValidateSecret(d) ==
    /\ d.name # Reserved
    /\ d.mode \in {"placeholder", "plaintext"}
    /\ d.mode = "placeholder" => d.hosts # {}

\* The rules of a command's own secrets and hosts.
ValidateCommand(s, c) ==
    /\ c.secrets # <<>> => ~c.inputs
    /\ Once(c.secrets)
    /\ \A d \in ToSet(c.secrets) :
           /\ ValidateSecret(d) /\ d.mode = "placeholder"
           /\ d.name \notin NamesOf(s.secrets)
           /\ \A h \in d.hosts : HostAllowed(c.egress, h)

Validate(s) ==
    /\ Once(s.secrets)
    /\ \A d \in ToSet(s.secrets) : ValidateSecret(d)
    /\ \A c \in DOMAIN s.commands : ValidateCommand(s, s.commands[c])

\* PrivilegedSecrets: one entry for each name, with the hosts of all that have it.
PrivilegedSecrets(s) ==
    LET decls == UNION {ToSet(s.commands[c].secrets) : c \in DOMAIN s.commands}
    IN  {[name |-> n, hosts |-> UNION {d.hosts : d \in {d \in decls : d.name = n}}] :
             n \in {d.name : d \in decls}}

\* planBoot: the hosts, and where the values of the guest come from.
AllowedEgress(s, approved) == s.egress \cap approved
Placeholders(s) == {d.name : d \in {d \in ToSet(s.secrets) : d.mode = "placeholder"}}
Plaintext(s) == {d.name : d \in {d \in ToSet(s.secrets) : d.mode = "plaintext"}}

PlanBoot(f) ==
    /\ Validate(f.settings)
    /\ f.settings.envVars \subseteq NamesOf(f.settings.secrets) \cup f.vars
    /\ Plaintext(f.settings) \subseteq f.secretsApproved

\* guestEnvFiles: a placeholder of the sandbox, then a plaintext, then a public value.
GuestEnvFile(f) ==
    [v \in f.settings.envVars |->
        IF v \in Placeholders(f.settings) THEN "placeholder"
        ELSE IF v \in Plaintext(f.settings) THEN "plaintext" ELSE "public"]

\* guestEnv: the commands of the guest have the placeholders as variables.
GuestEnv(f) == [v \in Placeholders(f.settings) |-> "placeholder"]

\* Resolve: the hosts of a command's VM.
CommandEgress(f, c) == AllowedEgress(f.settings, f.approved) \cup f.settings.commands[c].egress

(***************************************************************************)
(* Properties                                                              *)
(***************************************************************************)

\* A pattern selects what its segments stand for, and the same ignored files in the
\* working tree as in the main guest (internal/privileged/glob.go, Match,
\* WorktreeInputs; internal/fakesandbox/job.go, matchFiles).  A file that is itself
\* called .git is only taken from the guest.
SelectsWhatPatternsSay ==
    /\ input.kind = "match" /\ ValidatePattern(input.pattern) =>
           (Match(input.pattern, input.name) <=> Expands(input.pattern, input.name))
    /\ input.kind = "tree" =>
           WorktreeInputs(input.tree, input.pattern) =
               {p \in GuestInputs(input.tree, input.pattern) :
                    p[Len(p)] # ".git" /\ \E f \in IgnoredFiles(input.tree) : f.path = p}

\* Settings that boot: a value of the store goes to the main guest or to commands,
\* never to both, and is the same in the environment and in every env file; every host that a command's
\* secret may be sent to can be reached from its VM, and is listed for the secret
\* (internal/config/config.go, Validate; serve/settings.go, planBoot).
DeclaredIsConsistent ==
    input.kind = "settings" /\ PlanBoot(input.file) =>
        LET f == input.file
            s == f.settings
            listed == PrivilegedSecrets(s)
        IN  /\ {d.name : d \in listed} \cap (Placeholders(s) \cup Plaintext(s)) = {}
            /\ \A v \in s.envVars \cap NamesOf(s.secrets) :
                   GuestEnvFile(f)[v] = "placeholder" <=> v \in DOMAIN GuestEnv(f) \ Plaintext(s)
            /\ \A v \in s.envVars :
                   /\ GuestEnvFile(f)[v] = "public" => v \in f.vars
                   /\ GuestEnvFile(f)[v] = "plaintext" => v \in f.secretsApproved
            /\ \A c \in DOMAIN s.commands : \A d \in ToSet(s.commands[c].secrets) :
                   /\ \E l \in listed : l.name = d.name /\ d.hosts \subseteq l.hosts
                   /\ \A host \in Hosts :
                          (\E h \in d.hosts : Covers(h, host)) =>
                              \E a \in CommandEgress(f, c) : Covers(a, host)
=============================================================================
