------------------------------ MODULE Secrets ------------------------------
(***************************************************************************)
(* The secrets of a device: provisioning/generate_secrets.py as the        *)
(* installers of the server and of the voice interface run it (build_hooks *)
(* server.sh and voice-ui.sh), service_identity.py, make_result_key.py and *)
(* gateway_env.py, with the file writes of secret_output.py.               *)
(*                                                                         *)
(* Every write of a file is a step and a program may be stopped between    *)
(* any two.  The env and identity programs run one at a time; two runs of  *)
(* gateway_env.py may overlap.  A value is a number: no line, an example   *)
(* value, one that is too short, or a random one no other draw gives.      *)
(* The operator works while no env program runs.                           *)
(***************************************************************************)
EXTENDS Naturals

CONSTANTS Drafts,        \* the keys with an example value in the voice file
                         \* an operator may have copied from its template
          MaxCommands,   \* bound: program runs
          MaxEdits,      \* bound: what the operator does
          MaxStops       \* bound: programs that are stopped

ASSUME SecretsAssumption ==
  MaxCommands \in Nat /\ MaxEdits \in Nat /\ MaxStops \in Nat

VARIABLES
  env,          \* server.env and voice-ui.env: key -> value
  credentials,  \* server-admin.txt: the password it holds
  recorded,     \* every password ever written there (history)
  identity,     \* the key file of a service and its drop-in
  resultKey,    \* the key file of the local technician
  gateway,      \* gateway.env and gateway-bridges.txt: a value each
  cmd,          \* the env, identity or key program that runs
  runs,         \* the runs of gateway_env.py
  overlapped,   \* two of these were ever under way at once (history)
  strayed,      \* a mirror gave another key than its own a value (history)
  draws, commands, edits, stops

counters == <<commands, edits, stops>>
envPart == <<env, credentials, recorded, draws>>
keyPart == <<identity, resultKey>>
history == <<overlapped, strayed>>
gatewayPart == <<gateway, runs>>
vars == <<envPart, keyPart, gatewayPart, history, cmd, counters>>

Keys == {"jwt", "password", "token", "result"}
Shared == {"token", "result"}     \* the same in both files
Number == [jwt |-> 0, password |-> 1, token |-> 2, result |-> 3]

NoLine == 0   \* also: no file
Example == 1  \* is_placeholder
Short == 2    \* fewer characters than the check wants; also an empty file
Real(value) == value >= Short

NoFile == [k \in Keys |-> NoLine]
Fresh(k) == 4 * (draws + 1) + Number[k]

Idle == [pc |-> "idle", file |-> "server", text |-> NoFile, made |-> {}]

Init ==
  /\ env = [server |-> NoFile, voice |-> NoFile]
  /\ credentials = NoLine /\ recorded = {}
  /\ identity = [key |-> NoLine, on |-> FALSE]
  /\ resultKey = NoLine
  /\ gateway = [env |-> NoLine, credentials |-> NoLine]
  /\ cmd = Idle
  /\ runs = [r \in 1 .. 2 |-> [pc |-> "idle", value |-> NoLine]]
  /\ overlapped = FALSE /\ strayed = FALSE
  /\ draws = 0 /\ commands = 0 /\ edits = 0 /\ stops = 0

At(place) == cmd.pc = place
Goto(place) == cmd' = [cmd EXCEPT !.pc = place]
Starts == At("idle") /\ commands < MaxCommands /\ commands' = commands + 1
Other(file) == IF file = "server" THEN "voice" ELSE "server"

-----------------------------------------------------------------------------
(* generate_secrets.py *)

(* The file, or the template it is created from; the older templates know  *)
(* nothing of the result key.                                              *)
Template(file) ==
  [k \in Keys |-> IF k = "token" \/ (k # "result" /\ file = "server")
                  THEN Example ELSE NoLine]
TextOf(file) == IF env[file] = NoFile THEN Template(file) ELSE env[file]

(* ensure_lines *)
EnsureLines(text, keys) ==
  [k \in Keys |-> IF k \in keys /\ text[k] = NoLine THEN Example ELSE text[k]]

(* fill: EVERY example value goes, by the value chosen or a random one.    *)
Fill(text, chosen) ==
  [k \in Keys |-> IF text[k] # Example THEN text[k]
                  ELSE IF Real(chosen[k]) THEN chosen[k] ELSE Fresh(k)]

(* Mutant: the installer does not look into the other file. *)
AdoptNothing(file) == NoFile

(* --adopt: the real values the other file has for the shared keys. *)
Adopted(file) ==
  [k \in Keys |-> IF k \in Shared /\ Real(env[Other(file)][k])
                  THEN env[Other(file)][k] ELSE NoLine]

Generate(file) ==
  LET text == EnsureLines(TextOf(file), {"result"})
      made == {k \in Keys : text[k] = Example}
  IN  /\ Starts
      /\ IF made = {}
         THEN cmd' = [cmd EXCEPT !.pc = "check", !.file = file]
         ELSE IF "password" \in made /\ credentials # NoLine
         THEN UNCHANGED cmd      \* refused: never overwritten
         ELSE cmd' = [pc |-> IF "password" \in made THEN "credentials"
                                                    ELSE "env",
                      file |-> file, text |-> Fill(text, Adopted(file)),
                      made |-> made]
      /\ draws' = draws + 1
      /\ UNCHANGED <<env, credentials, recorded, keyPart, gatewayPart, history, edits, stops>>

(* Mutant: the password is generated and written nowhere else. *)
NoCredentials ==
  /\ At("credentials")
  /\ Goto("env")
  /\ UNCHANGED <<envPart, keyPart, gatewayPart, history, counters>>

(* write_private_atomic without overwrite. *)
WriteCredentials ==
  /\ At("credentials")
  /\ credentials' = cmd.text["password"]
  /\ recorded' = recorded \cup {credentials'}
  /\ Goto("env")
  /\ UNCHANGED <<env, draws, keyPart, gatewayPart, history, counters>>

(* Only the server's installer mirrors. *)
WriteEnv ==
  /\ At("env")
  /\ env' = [env EXCEPT ![cmd.file] = cmd.text]
  /\ Goto(IF cmd.file = "server" THEN "token" ELSE "check")
  /\ UNCHANGED <<credentials, recorded, draws, keyPart, gatewayPart, history, counters>>

(* --mirror KEY: the line is ensured in the other file, and fill runs over *)
(* it with the value of this one key.                                      *)
Mirror(key) ==
  LET text == EnsureLines(env.voice, {key})
      fills == key \in cmd.made /\ env.voice # NoFile /\ text[key] = Example
  IN  /\ At(key) /\ cmd.file = "server"
      /\ env' = IF fills THEN [env EXCEPT !.voice =
                        Fill(text, [k \in Keys |-> IF k = key THEN cmd.text[k]
                                                              ELSE NoLine])]
                ELSE env
      /\ Goto(IF key = "token" THEN "result" ELSE "check")
      /\ strayed' = (strayed \/ (/\ fills
                                 /\ \E k \in Keys \ {key} : text[k] = Example))
      /\ draws' = draws + 1
      /\ UNCHANGED <<credentials, recorded, keyPart, gatewayPart, overlapped, counters>>

(* The installer then asks --check and goes on or stops: no file changes.  *)
Check ==
  /\ At("check")
  /\ cmd' = Idle
  /\ UNCHANGED <<envPart, keyPart, gatewayPart, history, counters>>

-----------------------------------------------------------------------------
(* service_identity.py *)

(* server_secret refuses a signing key that is missing, an example or      *)
(* short.                                                                  *)
Usable(value) == value > Short

Enable ==
  /\ Starts
  /\ cmd' = IF Usable(env.server["jwt"]) THEN [cmd EXCEPT !.pc = "key"] ELSE cmd
  /\ UNCHANGED <<envPart, keyPart, gatewayPart, history, edits, stops>>

(* Mutant: the unit is told before there is a key. *)
DropInFirst ==
  /\ At("key")
  /\ identity' = [identity EXCEPT !.on = TRUE]
  /\ Goto("drop-in")
  /\ UNCHANGED <<envPart, resultKey, gatewayPart, history, counters>>

WriteKey ==
  /\ At("key")
  /\ identity' = [identity EXCEPT !.key = env.server["jwt"]]
  /\ Goto("drop-in")
  /\ UNCHANGED <<envPart, resultKey, gatewayPart, history, counters>>

WriteDropIn ==
  /\ At("drop-in")
  /\ identity' = [identity EXCEPT !.on = TRUE]
  /\ cmd' = Idle
  /\ UNCHANGED <<envPart, resultKey, gatewayPart, history, counters>>

Disable ==
  /\ Starts
  /\ identity' = [identity EXCEPT !.on = FALSE]
  /\ UNCHANGED <<envPart, resultKey, gatewayPart, history, cmd, edits, stops>>

-----------------------------------------------------------------------------
(* make_result_key.py: a file that is there is kept, whatever it holds     *)

MakeKey ==
  /\ Starts
  /\ IF resultKey = NoLine
     THEN resultKey' = Short /\ Goto("result-key")   \* created, still empty
     ELSE UNCHANGED <<resultKey, cmd>>
  /\ UNCHANGED <<envPart, identity, gatewayPart, history, edits, stops>>

MakeKeyWrites ==
  /\ At("result-key")
  /\ resultKey' \in {4 * (draws + 1), NoLine}   \* or the write fails: removed
  /\ cmd' = Idle
  /\ draws' = draws + 1
  /\ UNCHANGED <<env, credentials, recorded, identity, gatewayPart, history, counters>>

-----------------------------------------------------------------------------
(* gateway_env.py *)

GatewayRuns(r) ==
  /\ commands < MaxCommands /\ commands' = commands + 1
  /\ runs[r].pc = "idle"
  /\ gateway.env = NoLine                \* else unchanged
  /\ runs' = [runs EXCEPT ![r] = [pc |-> "credentials",
                                  value |-> 4 * (draws + 1)]]
  /\ overlapped' = (overlapped \/ \E o \in 1 .. 2 : runs[o].pc # "idle")
  /\ draws' = draws + 1
  /\ UNCHANGED <<env, credentials, recorded, keyPart, gateway, strayed, cmd, edits,
                 stops>>

(* Mutant: a credentials file that is there stays. *)
KeepsCredentials(r) ==
  /\ runs[r].pc = "credentials"
  /\ gateway' = IF gateway.credentials # NoLine THEN gateway
                ELSE [gateway EXCEPT !.credentials = runs[r].value]
  /\ runs' = [runs EXCEPT ![r].pc = "env"]
  /\ UNCHANGED <<envPart, keyPart, history, cmd, counters>>

GatewayCredentials(r) ==
  /\ runs[r].pc = "credentials"
  /\ gateway' = [gateway EXCEPT !.credentials = runs[r].value]
  /\ runs' = [runs EXCEPT ![r].pc = "env"]
  /\ UNCHANGED <<envPart, keyPart, history, cmd, counters>>

(* Mutant: the second of two runs replaces what the first has written. *)
GatewayEnvAgain(r) ==
  /\ runs[r].pc = "env"
  /\ gateway' = [gateway EXCEPT !.env = runs[r].value]
  /\ runs' = [runs EXCEPT ![r].pc = "idle"]
  /\ UNCHANGED <<envPart, keyPart, history, cmd, counters>>

(* write_private_atomic: the second of two runs finds the file and leaves it. *)
GatewayEnv(r) ==
  /\ runs[r].pc = "env"
  /\ gateway' = IF gateway.env # NoLine THEN gateway
                ELSE [gateway EXCEPT !.env = runs[r].value]
  /\ runs' = [runs EXCEPT ![r].pc = "idle"]
  /\ UNCHANGED <<envPart, keyPart, history, cmd, counters>>

-----------------------------------------------------------------------------
(* Stops, and the operator *)

Stopped ==
  /\ stops < MaxStops
  /\ stops' = stops + 1
  /\ \/ ~At("idle") /\ cmd' = Idle /\ UNCHANGED runs
     \/ \E r \in 1 .. 2 : /\ runs[r].pc # "idle"
                          /\ runs' = [runs EXCEPT ![r].pc = "idle"]
                          /\ UNCHANGED cmd
  /\ UNCHANGED <<envPart, keyPart, gateway, history, commands, edits>>

Edits ==
  /\ At("idle") /\ edits < MaxEdits
  /\ edits' = edits + 1
  /\ UNCHANGED <<recorded, draws, runs, history, cmd, commands, stops>>

(* The voice file is copied from its template; an env file gets an example *)
(* or a short value again; the credentials are taken away after reading,   *)
(* or the administrator's line; the gateway's secrets are rotated; a key   *)
(* file that is no key is removed.                                         *)
Operator ==
  /\ Edits
  /\ \/ /\ env.voice = NoFile
        /\ env' = [env EXCEPT !.voice =
                     [k \in Keys |-> IF k \in Drafts THEN Example ELSE NoLine]]
        /\ UNCHANGED <<credentials, keyPart, gateway>>
     \/ /\ env.server # NoFile
        /\ \E k \in {"jwt", "token", "result"}, v \in {Example, Short} :
             /\ v = Short => k = "jwt"
             /\ env' = [env EXCEPT !.server[k] = v]
        /\ UNCHANGED <<credentials, keyPart, gateway>>
     \/ /\ credentials # NoLine
        /\ credentials' = NoLine
        /\ UNCHANGED <<env, keyPart, gateway>>
     \/ /\ Real(env.server["password"])
        /\ env' = [env EXCEPT !.server["password"] = NoLine]
        /\ UNCHANGED <<credentials, keyPart, gateway>>
     \/ /\ \A r \in 1 .. 2 : runs[r].pc = "idle"
        /\ gateway.env # NoLine
        /\ gateway' \in {[gateway EXCEPT !.env = NoLine],
                         [env |-> NoLine, credentials |-> NoLine]}
        /\ UNCHANGED <<env, credentials, keyPart>>
     \/ /\ resultKey = Short
        /\ resultKey' = NoLine
        /\ UNCHANGED <<env, credentials, identity, gateway>>

Next ==
  \/ \E file \in {"server", "voice"} : Generate(file)
  \/ WriteCredentials
  \/ WriteEnv
  \/ \E key \in Shared : Mirror(key)
  \/ Check
  \/ Enable \/ WriteKey \/ WriteDropIn \/ Disable
  \/ MakeKey \/ MakeKeyWrites
  \/ \E r \in 1 .. 2 : GatewayRuns(r) \/ GatewayCredentials(r) \/ GatewayEnv(r)
  \/ Stopped
  \/ Operator

Spec == Init /\ [][Next]_vars

-----------------------------------------------------------------------------
(* Safety *)

(* The administrator's password of server.env was written to the           *)
(* credentials file before, so that a stop at any point never leaves one   *)
(* that is recorded nowhere (generate_secrets.py, "the credentials first").*)
PasswordIsRecorded ==
  Real(env.server["password"]) => env.server["password"] \in recorded

Agree ==
  At("idle") => \A k \in Shared :
                  (Real(env.server[k]) /\ Real(env.voice[k]))
                    => env.server[k] = env.voice[k]

(* Unless a mirror gave a second key of the voice file a value of its own, *)
(* the server and the voice interface never hold two different real values *)
(* of a shared key, whichever installer ran first, was stopped, or was run *)
(* again after the operator asked for a new value (--adopt, --mirror).     *)
SharedKeysAgree == strayed \/ Agree

(* The same without the exception, as the comment beside the mirror says:  *)
(* "so the value reaches both files in one run".                           *)
ReachesBothFiles == Agree

(* No program changes a value that is not an example, in any file: only    *)
(* the operator does (generate_secrets.py fill, make_result_key.py make,   *)
(* gateway_env.py main).                                                   *)
Kept ==
  /\ \A f \in {"server", "voice"}, k \in Keys :
       Real(env[f][k]) => env'[f][k] = env[f][k]
  /\ Usable(resultKey) => resultKey' = resultKey
  /\ gateway.env # NoLine => gateway'.env = gateway.env
ChoicesStay == [][Kept \/ Operator]_vars

(* A unit told to use an identity file finds a usable key in it, also when *)
(* the program was stopped in between or the server's key is an example    *)
(* again (service_identity.py main).                                       *)
IdentityIsUsable == identity.on => Usable(identity.key)

(* Unless two runs overlapped, the bridges' credentials are the ones of    *)
(* gateway.env or were taken away (gateway_env.py main: a file left over   *)
(* is replaced, a run that was stopped is made up for by the next).        *)
GatewayCredentialsMatch ==
  (gateway.env # NoLine /\ ~overlapped)
    => gateway.credentials \in {gateway.env, NoLine}
=============================================================================
