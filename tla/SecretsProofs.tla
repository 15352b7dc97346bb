---------------------------- MODULE SecretsProofs ----------------------------
(***************************************************************************)
(* The safety properties of Secrets, for all templates and bounds.         *)
(*                                                                         *)
(* The env file of the program that runs does not change between the       *)
(* moment it is read and the moment it is written: what was true of the    *)
(* text then is true of the file after.                                    *)
(***************************************************************************)
EXTENDS Secrets, TLAPS

Files == {"server", "voice"}
Texts == [Keys -> Nat]
Places == {"idle", "credentials", "env", "token", "result", "check", "key",
           "drop-in", "result-key"}

TypeOK ==
  /\ env \in [Files -> Texts]
  /\ draws \in Nat
  /\ identity \in [key : Nat, on : BOOLEAN]
  /\ gateway \in [env : Nat, credentials : Nat]
  /\ cmd \in [pc : Places, file : Files, text : Texts, made : SUBSET Keys]
  /\ runs \in [1 .. 2 -> [pc : {"idle", "credentials", "env"}, value : Nat]]

(* A new text keeps the real values of its file and agrees with the other  *)
(* file; a password in it that is real is recorded once the credentials    *)
(* are written.                                                            *)
TextIsKind ==
  cmd.pc \in {"credentials", "env"} =>
    /\ \A k \in Keys : Real(env[cmd.file][k]) => cmd.text[k] = env[cmd.file][k]
    /\ ~strayed => \A k \in Shared :
         (Real(cmd.text[k]) /\ Real(env[Other(cmd.file)][k]))
           => cmd.text[k] = env[Other(cmd.file)][k]
    /\ (At("env") /\ cmd.file = "server" /\ Real(cmd.text["password"]))
         => cmd.text["password"] \in recorded

(* While the mirrors run, the file of the server is the text.              *)
MirrorsTheText ==
  cmd.pc \in Shared => cmd.file = "server" /\ env.server = cmd.text

FilesAgree ==
  ~strayed => \A k \in Shared : (Real(env.server[k]) /\ Real(env.voice[k]))
                                  => env.server[k] = env.voice[k]

KeyIsUsable ==
  /\ At("key") => Usable(env.server["jwt"])
  /\ At("drop-in") => Usable(identity.key)
  /\ At("result-key") => resultKey = Short

(* A run of gateway_env.py that is alone finds no file when it is done.    *)
OneGatewayRun ==
  ~overlapped =>
    /\ \A r, o \in 1 .. 2 :
         r # o => runs[r].pc = "idle" \/ runs[o].pc = "idle"
    /\ \A r \in 1 .. 2 :
         /\ runs[r].pc # "idle" => gateway.env = NoLine
         /\ runs[r].pc = "env" => gateway.credentials = runs[r].value

EnvInv == TextIsKind /\ MirrorsTheText /\ FilesAgree /\ PasswordIsRecorded
KeyInv == KeyIsUsable /\ IdentityIsUsable
GatewayInv == OneGatewayRun /\ GatewayCredentialsMatch
IInv == TypeOK /\ EnvInv /\ KeyInv /\ GatewayInv

-----------------------------------------------------------------------------

(* ensure_lines and fill make texts, and touch no value that is real.      *)
LEMMA TextFacts ==
  /\ NoFile \in Texts
  /\ \A file \in Files : Template(file) \in Texts
  /\ \A text \in Texts, keys \in SUBSET Keys :
       /\ EnsureLines(text, keys) \in Texts
       /\ \A k \in Keys : (Real(text[k]) \/ Real(EnsureLines(text, keys)[k]))
                            => EnsureLines(text, keys)[k] = text[k]
  /\ draws \in Nat => \A text, chosen \in Texts :
       /\ Fill(text, chosen) \in Texts
       /\ \A k \in Keys :
            /\ text[k] # Example => Fill(text, chosen)[k] = text[k]
            /\ text[k] = Example /\ Real(chosen[k])
                 => Fill(text, chosen)[k] = chosen[k]
<1> USE DEF Texts, NoLine, Example, Short, Real
<1>1. NoFile \in Texts
  BY DEF NoFile
<1>2. \A file \in Files : Template(file) \in Texts
  BY DEF Template
<1>3. ASSUME NEW text \in Texts, NEW keys \in SUBSET Keys
      PROVE  /\ EnsureLines(text, keys) \in Texts
             /\ \A k \in Keys : (Real(text[k]) \/ Real(EnsureLines(text, keys)[k]))
                                  => EnsureLines(text, keys)[k] = text[k]
  BY DEF EnsureLines
<1>4. ASSUME draws \in Nat, NEW text \in Texts, NEW chosen \in Texts
      PROVE  /\ Fill(text, chosen) \in Texts
             /\ \A k \in Keys :
                  /\ text[k] # Example => Fill(text, chosen)[k] = text[k]
                  /\ text[k] = Example /\ Real(chosen[k])
                       => Fill(text, chosen)[k] = chosen[k]
  <2>1. \A k \in Keys : Fresh(k) \in Nat
    BY <1>4 DEF Fresh, Number, Keys
  <2> QED
    BY <1>4, <2>1 DEF Fill
<1> QED
  BY <1>1, <1>2, <1>3, <1>4

(* At first there is no file.                                              *)
LEMMA InitIInv == Init => IInv
<1> SUFFICES ASSUME Init PROVE IInv
  OBVIOUS
<1> USE DEF Init, Idle, At, NoLine, Short, Real, Usable
<1>1. env \in [Files -> Texts] /\ NoFile \in Texts
  BY TextFacts DEF Files
<1>2. TypeOK
  BY <1>1 DEF TypeOK, Places, Files
<1>3. \A k \in Keys : NoFile[k] = 0
  BY DEF NoFile
<1>4. EnvInv
  BY <1>3 DEF EnvInv, TextIsKind, MirrorsTheText, FilesAgree,
     PasswordIsRecorded, Keys, Shared
<1>5. KeyInv /\ GatewayInv
  BY DEF KeyInv, GatewayInv, KeyIsUsable, IdentityIsUsable, OneGatewayRun,
     GatewayCredentialsMatch
<1> QED
  BY <1>2, <1>4, <1>5 DEF IInv

(* A program that is about to write knows a text that may be written.      *)
LEMMA GenerateStep ==
  ASSUME IInv, NEW file \in Files, Generate(file)
  PROVE  TypeOK' /\ EnvInv' /\ KeyInv'
<1> DEFINE text == EnsureLines(TextOf(file), {"result"})
           made == {k \in Keys : text[k] = Example}
           new == Fill(text, Adopted(file))
<1>a. /\ env \in [Files -> Texts] /\ draws \in Nat
      /\ cmd \in [pc : Places, file : Files, text : Texts, made : SUBSET Keys]
      /\ At("idle") /\ draws' = draws + 1
      /\ UNCHANGED <<env, credentials, recorded, keyPart, gatewayPart, history>>
  BY DEF IInv, TypeOK, Generate, Starts
<1>b. Other(file) \in Files /\ {"result"} \in SUBSET Keys
  BY DEF Other, Files, Keys
<1>1. /\ TextOf(file) \in Texts
      /\ \A k \in Keys : Real(env[file][k]) \/ Real(TextOf(file)[k])
           => TextOf(file)[k] = env[file][k]
  <2>1. \A k \in Keys : ~Real(NoFile[k]) /\ ~Real(Template(file)[k])
    BY DEF NoFile, Template, Real, NoLine, Example, Short
  <2> QED
    BY <1>a, <2>1, TextFacts DEF TextOf
<1>2. /\ text \in Texts
      /\ \A k \in Keys : Real(env[file][k]) \/ Real(text[k])
           => text[k] = env[file][k]
  BY <1>1, <1>b, TextFacts
<1>3. /\ Adopted(file) \in Texts
      /\ \A k \in Shared : Real(env[Other(file)][k])
           => Adopted(file)[k] = env[Other(file)][k]
  BY <1>a, <1>b DEF Adopted, Texts, NoLine, Shared, Keys
<1>4. /\ new \in Texts
      /\ \A k \in Keys :
           /\ text[k] # Example => new[k] = text[k]
           /\ text[k] = Example /\ Real(Adopted(file)[k])
                => new[k] = Adopted(file)[k]
  BY <1>a, <1>2, <1>3, TextFacts
<1>5. \A k \in Keys : Real(env[file][k]) => new[k] = env[file][k]
  BY <1>2, <1>4 DEF Real, Example, Short
<1>6. ~strayed => \A k \in Shared :
        (Real(new[k]) /\ Real(env[Other(file)][k]))
          => new[k] = env[Other(file)][k]
  <2>1. SUFFICES ASSUME ~strayed, NEW k \in Shared, Real(new[k]),
                        Real(env[Other(file)][k])
                 PROVE  new[k] = env[Other(file)][k]
    OBVIOUS
  <2>2. CASE text[k] = Example
    BY <1>3, <1>4, <2>1, <2>2 DEF Shared, Keys
  <2>3. CASE text[k] # Example
    <3>1. Real(env[file][k]) /\ new[k] = env[file][k]
      BY <1>2, <1>4, <2>1, <2>3 DEF Shared, Keys
    <3> QED
      BY <2>1, <3>1 DEF IInv, EnvInv, FilesAgree, Files, Other
  <2> QED
    BY <2>2, <2>3
<1>7. ("password" \notin made /\ file = "server" /\ Real(new["password"]))
        => new["password"] \in recorded
  <2>1. "password" \in Keys
    BY DEF Keys
  <2> QED
    BY <1>2, <1>4, <2>1 DEF IInv, EnvInv, PasswordIsRecorded
<1> HIDE DEF text, new, made
<1>8. CASE cmd' = [cmd EXCEPT !.pc = "check", !.file = file]
  <2>1. TypeOK'
    <3>1. [cmd EXCEPT !.pc = "check", !.file = file] \in
            [pc : Places, file : Files, text : Texts, made : SUBSET Keys]
      BY <1>a DEF Places
    <3> QED
      BY <1>a, <1>8, <3>1 DEF IInv, TypeOK, keyPart, gatewayPart
  <2>2. cmd'.pc = "check"
    BY <1>a, <1>8
  <2> QED
    BY <1>a, <2>1, <2>2 DEF IInv, EnvInv, KeyInv, TextIsKind, MirrorsTheText,
       FilesAgree, PasswordIsRecorded, KeyIsUsable, IdentityIsUsable, At,
       Shared, keyPart, history
<1>9. CASE UNCHANGED cmd
  BY <1>a, <1>9 DEF IInv, TypeOK, EnvInv, KeyInv, TextIsKind, MirrorsTheText,
     FilesAgree, PasswordIsRecorded, KeyIsUsable, IdentityIsUsable, At, Shared,
     keyPart, gatewayPart, history, Places
<1>10. CASE cmd' = [pc |-> IF "password" \in made THEN "credentials" ELSE "env",
                    file |-> file, text |-> new, made |-> made]
  <2>1. made \in SUBSET Keys
    BY DEF made
  <2>2. TypeOK'
    BY <1>a, <1>4, <1>10, <2>1
    DEF IInv, TypeOK, keyPart, gatewayPart, Places
  <2>3. TextIsKind'
    BY <1>a, <1>5, <1>6, <1>7, <1>10
    DEF TextIsKind, At, history
  <2>4. MirrorsTheText' /\ FilesAgree' /\ PasswordIsRecorded' /\ KeyInv'
    BY <1>a, <1>10 DEF IInv, EnvInv, KeyInv, MirrorsTheText, FilesAgree,
       PasswordIsRecorded, KeyIsUsable, IdentityIsUsable, At, Shared, keyPart,
       history
  <2> QED
    BY <2>2, <2>3, <2>4 DEF EnvInv
<1> QED
  BY <1>8, <1>9, <1>10 DEF Generate, text, new, made

(* No env file loses a real value.                                         *)
ValuesStay ==
  \A f \in Files, k \in Keys : Real(env[f][k]) => env'[f][k] = env[f][k]

(* The text that replaces a file keeps its real values.                    *)
LEMMA WriteEnvStep ==
  ASSUME IInv, WriteEnv
  PROVE  TypeOK' /\ EnvInv' /\ KeyInv' /\ ValuesStay
<1>a. /\ env \in [Files -> Texts] /\ cmd.file \in Files /\ At("env")
      /\ cmd.text \in Texts
      /\ cmd \in [pc : Places, file : Files, text : Texts, made : SUBSET Keys]
      /\ env' = [env EXCEPT ![cmd.file] = cmd.text]
      /\ Goto(IF cmd.file = "server" THEN "token" ELSE "check")
      /\ UNCHANGED <<recorded, draws, keyPart, gatewayPart, history>>
  BY DEF IInv, TypeOK, WriteEnv
<1>b. TextIsKind /\ FilesAgree /\ PasswordIsRecorded
  BY DEF IInv, EnvInv
<1>1. cmd'.pc = (IF cmd.file = "server" THEN "token" ELSE "check")
  BY <1>a DEF Goto
<1>2. TypeOK'
  BY <1>a DEF IInv, TypeOK, Goto, Places, keyPart, gatewayPart
<1>3. TextIsKind' /\ MirrorsTheText'
  BY <1>a, <1>1 DEF TextIsKind, MirrorsTheText, Shared, Files, Goto
<1>4. FilesAgree'
  BY <1>a, <1>b DEF FilesAgree, TextIsKind, At, Other, Files, history
<1>5. PasswordIsRecorded'
  BY <1>a, <1>b DEF PasswordIsRecorded, TextIsKind, At, Files
<1>6. KeyInv'
  BY <1>a, <1>1
  DEF IInv, KeyInv, KeyIsUsable, IdentityIsUsable, At, keyPart
<1>7. ValuesStay
  BY <1>a, <1>b DEF ValuesStay, TextIsKind, At
<1> QED
  BY <1>2, <1>3, <1>4, <1>5, <1>6, <1>7 DEF EnvInv

(* A mirror gives the other file the value the server has.                 *)
LEMMA MirrorStep ==
  ASSUME IInv, NEW key \in Shared, Mirror(key)
  PROVE  TypeOK' /\ EnvInv' /\ KeyInv' /\ ValuesStay
<1> DEFINE text == EnsureLines(env.voice, {key})
           fills == /\ key \in cmd.made /\ env.voice # NoFile
                    /\ text[key] = Example
           chosen == [k \in Keys |-> IF k = key THEN cmd.text[k] ELSE NoLine]
           new == Fill(text, chosen)
<1>a. /\ env \in [Files -> Texts] /\ key \in Keys /\ draws \in Nat
      /\ cmd \in [pc : Places, file : Files, text : Texts, made : SUBSET Keys]
      /\ cmd.pc \in Shared /\ cmd.file = "server"
      /\ Goto(IF key = "token" THEN "result" ELSE "check")
      /\ UNCHANGED <<recorded, keyPart, gatewayPart, overlapped>>
      /\ draws' = draws + 1
  BY DEF IInv, TypeOK, Mirror, At, Shared, Keys
<1>b. MirrorsTheText /\ FilesAgree /\ PasswordIsRecorded
  BY DEF IInv, EnvInv
<1>c. /\ env' = IF fills THEN [env EXCEPT !.voice = new] ELSE env
      /\ strayed' = (strayed \/ (/\ fills
                                 /\ \E k \in Keys \ {key} : text[k] = Example))
  BY DEF Mirror
<1>1. /\ env.voice \in Texts /\ {key} \in SUBSET Keys
      /\ env.server = cmd.text
  BY <1>a, <1>b DEF Files, MirrorsTheText
<1>2. /\ text \in Texts
      /\ \A k \in Keys : (Real(env.voice[k]) \/ Real(text[k]))
                          => text[k] = env.voice[k]
  BY <1>1, TextFacts
<1>3. chosen \in Texts
  BY <1>a DEF Texts, NoLine
<1>4. /\ new \in Texts
      /\ \A k \in Keys :
           /\ text[k] # Example => new[k] = text[k]
           /\ text[k] = Example /\ Real(chosen[k]) => new[k] = chosen[k]
  BY <1>a, <1>2, <1>3, TextFacts
<1>5. \A k \in Keys : Real(env.voice[k]) => new[k] = env.voice[k]
  BY <1>2, <1>4 DEF Real, Example, Short
<1>6. chosen[key] = env.server[key]
  BY <1>a, <1>1
<1> HIDE DEF text, new, chosen
<1>7. env' \in [Files -> Texts] /\ env'.server = env.server
  BY <1>a, <1>c, <1>4 DEF Files
<1>8. env'.voice = IF fills THEN new ELSE env.voice
  BY <1>a, <1>c DEF Files
<1>9. cmd'.pc \in {"result", "check"} /\ cmd'.text = cmd.text
      /\ cmd'.file = "server"
  BY <1>a DEF Goto
<1>10. TypeOK'
  BY <1>a, <1>7 DEF IInv, TypeOK, Goto, Places, keyPart, gatewayPart
<1>11. TextIsKind' /\ MirrorsTheText' /\ PasswordIsRecorded' /\ KeyInv'
  BY <1>a, <1>b, <1>1, <1>7, <1>9
  DEF IInv, KeyInv, TextIsKind, MirrorsTheText, PasswordIsRecorded,
      KeyIsUsable, IdentityIsUsable, At, Shared, keyPart
<1>12. FilesAgree'
  <2>1. SUFFICES ASSUME ~strayed', NEW k \in Shared,
                        Real(env.server[k]), Real(env'.voice[k])
                 PROVE  env.server[k] = env'.voice[k]
    BY <1>7 DEF FilesAgree
  <2>2. k \in Keys /\ ~strayed
    BY <1>c, <2>1 DEF Shared, Keys
  <2>3. CASE ~fills
    BY <1>b, <1>8, <2>1, <2>2, <2>3 DEF FilesAgree
  <2>4. CASE fills /\ k = key
    BY <1>4, <1>6, <1>8, <2>1, <2>2, <2>4
  <2>5. CASE fills /\ k # key
    <3>1. text[k] # Example
      BY <1>c, <2>1, <2>2, <2>5
    <3> QED
      BY <1>b, <1>2, <1>4, <1>8, <2>1, <2>2, <2>5, <3>1 DEF FilesAgree
  <2> QED
    BY <2>3, <2>4, <2>5
<1>13. ValuesStay
  BY <1>5, <1>7, <1>8 DEF ValuesStay, Files
<1> QED
  BY <1>10, <1>11, <1>12, <1>13 DEF EnvInv

(* The other programs and the operator.                                    *)
LEMMA WriteCredentialsStep ==
  ASSUME IInv, WriteCredentials
  PROVE  TypeOK' /\ EnvInv' /\ KeyInv'
<1>a. /\ cmd.pc = "credentials" /\ Goto("env")
      /\ cmd \in [pc : Places, file : Files, text : Texts, made : SUBSET Keys]
      /\ recorded' = recorded \cup {cmd.text["password"]}
      /\ UNCHANGED <<env, draws, keyPart, gatewayPart, history>>
  BY DEF IInv, TypeOK, WriteCredentials, At
<1>1. TypeOK'
  BY <1>a DEF IInv, TypeOK, Goto, Places, keyPart, gatewayPart
<1>2. EnvInv'
  BY <1>a DEF IInv, EnvInv, TextIsKind, MirrorsTheText, FilesAgree, Goto,
     PasswordIsRecorded, At, Shared, history
<1>3. KeyInv'
  BY <1>a DEF IInv, KeyInv, KeyIsUsable, IdentityIsUsable, At, Goto, keyPart
<1> QED
  BY <1>1, <1>2, <1>3

KeyPrograms ==
  Check \/ Enable \/ WriteKey \/ WriteDropIn \/ Disable \/ MakeKey
    \/ MakeKeyWrites

(* The check, the identity and the key programs leave the env files alone. *)
LEMMA KeyStep ==
  ASSUME IInv, KeyPrograms
  PROVE  /\ TypeOK' /\ EnvInv' /\ KeyInv' /\ UNCHANGED <<env, gatewayPart>>
         /\ Usable(resultKey) => resultKey' = resultKey
<1>a. /\ env \in [Files -> Texts] /\ env.server["jwt"] \in Nat
      /\ cmd \in [pc : Places, file : Files, text : Texts, made : SUBSET Keys]
  BY DEF IInv, TypeOK, Files, Texts, Keys
<1>b. Idle \in [pc : Places, file : Files, text : Texts, made : SUBSET Keys]
  BY TextFacts DEF Idle, Places, Files
<1>c. \A place \in Places : [cmd EXCEPT !.pc = place] \in
        [pc : Places, file : Files, text : Texts, made : SUBSET Keys]
  BY <1>a
<1>d. UNCHANGED <<env, gatewayPart, recorded, history>>
  BY DEF KeyPrograms, Check, Enable, WriteKey, WriteDropIn, Disable, MakeKey,
     MakeKeyWrites, envPart, keyPart
<1>e. /\ cmd' \in [pc : Places, file : Files, text : Texts, made : SUBSET Keys]
      /\ cmd'.pc \in {"idle", "key", "drop-in", "result-key"} \/ cmd' = cmd
  BY <1>b, <1>c, <1>a DEF KeyPrograms, Check, Enable, WriteKey, WriteDropIn, Disable,
     MakeKey, MakeKeyWrites, Goto, Idle, Places
<1>1. draws' \in Nat
  BY DEF IInv, TypeOK, KeyPrograms, Check, Enable, WriteKey, WriteDropIn,
     Disable, MakeKey, MakeKeyWrites, envPart
<1>2. identity' \in [key : Nat, on : BOOLEAN]
  BY <1>a DEF IInv, TypeOK, KeyPrograms, Check, Enable, WriteKey, WriteDropIn,
     Disable, MakeKey, MakeKeyWrites, keyPart
<1>3. TypeOK'
  BY <1>d, <1>e, <1>1, <1>2 DEF IInv, TypeOK, gatewayPart
<1>4. EnvInv'
  BY <1>d, <1>e
  DEF IInv, EnvInv, TextIsKind, MirrorsTheText, FilesAgree,
      PasswordIsRecorded, At, Shared, history
<1>5. KeyInv' /\ (Usable(resultKey) => resultKey' = resultKey)
  <2> USE <1>a, <1>d DEF IInv, TypeOK, KeyInv, KeyIsUsable, IdentityIsUsable,
      At, Goto, Starts, Idle, keyPart, Usable, Short, NoLine, Places
  <2>1. CASE Check
    BY <2>1 DEF Check
  <2>2. CASE Enable
    BY <2>2 DEF Enable
  <2>3. CASE WriteKey
    BY <2>3 DEF WriteKey
  <2>4. CASE WriteDropIn
    BY <2>4 DEF WriteDropIn
  <2>5. CASE Disable
    BY <2>5 DEF Disable
  <2>6. CASE MakeKey
    BY <2>6 DEF MakeKey
  <2>7. CASE MakeKeyWrites
    BY <2>7 DEF MakeKeyWrites
  <2> QED
    BY <2>1, <2>2, <2>3, <2>4, <2>5, <2>6, <2>7 DEF KeyPrograms
<1> QED
  BY <1>d, <1>3, <1>4, <1>5

(* A stop changes no file, and what was known of the files stays known.    *)
LEMMA StoppedStep ==
  ASSUME IInv, Stopped
  PROVE  IInv' /\ UNCHANGED <<env, resultKey, gateway>>
<1>a. UNCHANGED <<envPart, keyPart, gateway, history>>
  BY DEF Stopped
<1>1. CASE cmd' = Idle /\ UNCHANGED runs
  <2>1. Idle \in [pc : Places, file : Files, text : Texts, made : SUBSET Keys]
    BY TextFacts DEF Idle, Places, Files
  <2>2. TypeOK'
    BY <1>a, <1>1, <2>1 DEF IInv, TypeOK, envPart, keyPart
  <2>3. EnvInv' /\ KeyInv' /\ GatewayInv'
    BY <1>a, <1>1
    DEF IInv, EnvInv, KeyInv, GatewayInv, TextIsKind, MirrorsTheText,
        FilesAgree, PasswordIsRecorded, KeyIsUsable, IdentityIsUsable,
        OneGatewayRun, GatewayCredentialsMatch, Idle, At, Shared, envPart,
        keyPart, history
  <2> QED
    BY <1>a, <2>2, <2>3 DEF IInv, envPart, keyPart
<1>2. ASSUME NEW r \in 1 .. 2, runs' = [runs EXCEPT ![r].pc = "idle"],
             UNCHANGED cmd
      PROVE  IInv'
  <2>1. TypeOK'
    BY <1>a, <1>2 DEF IInv, TypeOK, envPart, keyPart
  <2>2. EnvInv' /\ KeyInv'
    BY <1>a, <1>2
    DEF IInv, EnvInv, KeyInv, TextIsKind, MirrorsTheText,
        FilesAgree, PasswordIsRecorded, KeyIsUsable, IdentityIsUsable,
        At, Shared, envPart, keyPart, history
  <2>3. GatewayInv'
    BY <1>a, <1>2 DEF IInv, TypeOK, GatewayInv, OneGatewayRun,
       GatewayCredentialsMatch, history
  <2> QED
    BY <2>1, <2>2, <2>3 DEF IInv
<1> QED
  BY <1>a, <1>1, <1>2 DEF Stopped, envPart, keyPart

(* The operator makes no value real in an env file, and works while no env *)
(* program runs.                                                           *)
LEMMA OperatorStep ==
  ASSUME IInv, Operator
  PROVE  IInv'
<1>a. /\ At("idle")
      /\ UNCHANGED <<recorded, draws, runs, history, cmd>>
  BY DEF Operator, Edits
<1>b. /\ env \in [Files -> Texts]
      /\ gateway \in [env : Nat, credentials : Nat]
  BY DEF IInv, TypeOK
<1>1. /\ env' \in [Files -> Texts]
      /\ \A f \in Files, k \in Keys :
           Real(env'[f][k]) => \/ env'[f][k] = env[f][k]
                              \/ k \notin Shared \cup {"password"}
  <2> DEFINE Kind == /\ env' \in [Files -> Texts]
                     /\ \A f \in Files, k \in Keys :
                          Real(env'[f][k]) => \/ env'[f][k] = env[f][k]
                                             \/ k \notin Shared \cup {"password"}
  <2>1. CASE env' = [env EXCEPT !.voice =
                [k \in Keys |-> IF k \in Drafts THEN Example ELSE NoLine]]
    BY <1>b, <2>1 DEF Files, Texts, Real, Example, NoLine, Short
  <2>2. ASSUME NEW k \in {"jwt", "token", "result"}, NEW v \in {Example, Short},
               v = Short => k = "jwt", env' = [env EXCEPT !.server[k] = v]
        PROVE  Kind
    <3>1. k \in Keys /\ v \in Nat
      BY DEF Keys, Example, Short
    <3>2. env' = [env EXCEPT !["server"] = [env["server"] EXCEPT ![k] = v]]
      BY <2>2
    <3>3. [env["server"] EXCEPT ![k] = v] \in Texts
      BY <1>b, <3>1 DEF Files, Texts
    <3>4. ~Real(v) \/ k \notin Shared \cup {"password"}
      BY <2>2 DEF Real, Example, Short, Shared
    <3>5. env'["voice"] = env["voice"]
      BY <1>b, <3>2 DEF Files
    <3>6. \A j \in Keys : env'["server"][j] = IF j = k THEN v
                                              ELSE env["server"][j]
      BY <1>b, <3>2 DEF Files, Texts
    <3> QED
      BY <1>b, <3>2, <3>3, <3>4, <3>5, <3>6 DEF Files
  <2>3. CASE env' = [env EXCEPT !.server["password"] = NoLine]
    <3>1. "password" \in Keys /\ NoLine \in Nat /\ ~Real(NoLine)
      BY DEF Keys, NoLine, Real, Short
    <3>2. env' = [env EXCEPT !["server"] =
                    [env["server"] EXCEPT !["password"] = NoLine]]
      BY <2>3
    <3>3. [env["server"] EXCEPT !["password"] = NoLine] \in Texts
      BY <1>b, <3>1 DEF Files, Texts
    <3>4. env'["voice"] = env["voice"]
      BY <1>b, <3>2 DEF Files
    <3>5. \A j \in Keys : env'["server"][j] = IF j = "password" THEN NoLine
                                              ELSE env["server"][j]
      BY <1>b, <3>2 DEF Files, Texts
    <3> QED
      BY <1>b, <3>1, <3>2, <3>3, <3>4, <3>5 DEF Files
  <2>4. CASE env' = env
    BY <1>b, <2>4
  <2> QED
    BY <2>1, <2>2, <2>3, <2>4 DEF Operator
<1>2. UNCHANGED identity /\ (resultKey' = resultKey \/ resultKey = Short)
  BY DEF Operator, keyPart
<1>3. \/ UNCHANGED gateway
      \/ /\ \A r \in 1 .. 2 : runs[r].pc = "idle"
         /\ gateway' \in [env : {NoLine}, credentials : Nat]
  BY <1>b DEF Operator, NoLine
<1>4. TypeOK'
  BY <1>a, <1>b, <1>1, <1>2, <1>3 DEF IInv, TypeOK, NoLine
<1>5. TextIsKind' /\ MirrorsTheText' /\ KeyInv'
  BY <1>a, <1>2 DEF IInv, KeyInv, TextIsKind, MirrorsTheText, KeyIsUsable,
     IdentityIsUsable, At, Shared
<1>6. FilesAgree' /\ PasswordIsRecorded'
  BY <1>a, <1>1 DEF IInv, EnvInv, FilesAgree, PasswordIsRecorded, Files, Keys,
     Shared, history
<1>7. GatewayInv'
  <2>1. CASE UNCHANGED gateway
    BY <1>a, <2>1
    DEF IInv, GatewayInv, OneGatewayRun, GatewayCredentialsMatch, history
  <2>2. CASE /\ \A r \in 1 .. 2 : runs[r].pc = "idle"
             /\ gateway' \in [env : {NoLine}, credentials : Nat]
    BY <1>a, <2>2
    DEF IInv, GatewayInv, OneGatewayRun, GatewayCredentialsMatch, history
  <2> QED
    BY <1>3, <2>1, <2>2
<1> QED
  BY <1>4, <1>5, <1>6, <1>7 DEF IInv, EnvInv

(* A run of gateway_env.py keeps the secrets that are there.               *)
LEMMA GatewayStep ==
  ASSUME IInv, NEW r \in 1 .. 2,
         GatewayRuns(r) \/ GatewayCredentials(r) \/ GatewayEnv(r)
  PROVE  /\ IInv' /\ UNCHANGED <<env, resultKey>>
         /\ gateway.env # NoLine => gateway'.env = gateway.env
<1>a. /\ UNCHANGED <<env, credentials, recorded, keyPart, strayed, cmd>>
      /\ draws \in Nat /\ draws' \in Nat
      /\ gateway \in [env : Nat, credentials : Nat]
      /\ runs \in [1 .. 2 -> [pc : {"idle", "credentials", "env"}, value : Nat]]
  BY DEF IInv, TypeOK, GatewayRuns, GatewayCredentials, GatewayEnv, envPart,
     history
<1>b. EnvInv' /\ KeyInv'
  BY <1>a DEF IInv, EnvInv, KeyInv, TextIsKind, MirrorsTheText, FilesAgree,
     PasswordIsRecorded, KeyIsUsable, IdentityIsUsable, At, Shared, keyPart
<1> DEFINE Good == /\ gateway' \in [env : Nat, credentials : Nat]
                   /\ runs' \in [1 .. 2 -> [pc : {"idle", "credentials", "env"},
                                            value : Nat]]
                   /\ GatewayInv'
                   /\ gateway.env # NoLine => gateway'.env = gateway.env
<1> USE DEF IInv, GatewayInv, OneGatewayRun, GatewayCredentialsMatch
<1>1. ASSUME GatewayRuns(r) PROVE Good
  <2>1. \A o \in 1 .. 2 : o # r => runs'[o] = runs[o]
    BY <1>a, <1>1 DEF GatewayRuns
  <2>2. runs'[r].pc = "credentials" /\ UNCHANGED gateway
        /\ gateway.env = NoLine
    BY <1>a, <1>1 DEF GatewayRuns
  <2>3. runs' \in [1 .. 2 -> [pc : {"idle", "credentials", "env"}, value : Nat]]
    BY <1>a, <1>1 DEF GatewayRuns
  <2>4. ~overlapped' => /\ ~overlapped
                        /\ \A o \in 1 .. 2 : runs[o].pc = "idle"
    BY <1>1 DEF GatewayRuns
  <2>5. OneGatewayRun'
    BY <2>1, <2>2, <2>4
  <2>6. GatewayCredentialsMatch'
    BY <2>2
  <2> QED
    BY <1>a, <2>2, <2>3, <2>5, <2>6
<1>2. ASSUME GatewayCredentials(r) PROVE Good
  <2>1. /\ \A o \in 1 .. 2 : o # r => runs'[o] = runs[o]
        /\ runs[r].pc = "credentials" /\ runs'[r].pc = "env"
        /\ runs'[r].value = runs[r].value
        /\ runs' \in [1 .. 2 -> [pc : {"idle", "credentials", "env"},
                                 value : Nat]]
    BY <1>a, <1>2 DEF GatewayCredentials
  <2>2. /\ gateway'.credentials = runs[r].value
        /\ gateway'.env = gateway.env
        /\ gateway' \in [env : Nat, credentials : Nat]
        /\ UNCHANGED overlapped
    BY <1>a, <1>2 DEF GatewayCredentials, history
  <2>3. OneGatewayRun'
    BY <2>1, <2>2
  <2>4. GatewayCredentialsMatch'
    BY <2>1, <2>2
  <2> QED
    BY <2>1, <2>2, <2>3, <2>4
<1>3. ASSUME GatewayEnv(r) PROVE Good
  <2>1. /\ \A o \in 1 .. 2 : o # r => runs'[o] = runs[o]
        /\ runs[r].pc = "env" /\ runs'[r].pc = "idle"
        /\ runs' \in [1 .. 2 -> [pc : {"idle", "credentials", "env"},
                                 value : Nat]]
    BY <1>a, <1>3 DEF GatewayEnv
  <2>2. /\ gateway'.credentials = gateway.credentials
        /\ gateway'.env = IF gateway.env # NoLine THEN gateway.env
                          ELSE runs[r].value
        /\ gateway' \in [env : Nat, credentials : Nat]
        /\ UNCHANGED overlapped
    BY <1>a, <1>3 DEF GatewayEnv, history
  <2>3. OneGatewayRun'
    BY <2>1, <2>2
  <2>4. GatewayCredentialsMatch'
    BY <2>1, <2>2
  <2> QED
    BY <2>1, <2>2, <2>3, <2>4
<1>4. Good
  BY <1>1, <1>2, <1>3
<1>5. TypeOK'
  BY <1>a, <1>4 DEF TypeOK, keyPart
<1> QED
  BY <1>a, <1>b, <1>4, <1>5 DEF keyPart

(* Every step keeps the invariant, and every value unless it is the        *)
(* operator's.                                                             *)
LEMMA NextStep ==
  ASSUME IInv, Next
  PROVE  IInv' /\ (Kept \/ Operator)
<1>g. ASSUME UNCHANGED <<gatewayPart, overlapped>>
      PROVE  GatewayInv' /\ gateway' = gateway
  BY <1>g DEF IInv, GatewayInv, OneGatewayRun, GatewayCredentialsMatch,
     gatewayPart
<1>k. ASSUME ValuesStay, Usable(resultKey) => resultKey' = resultKey,
             gateway.env # NoLine => gateway'.env = gateway.env
      PROVE  Kept
  BY <1>k DEF Kept, ValuesStay, Files
<1>v. UNCHANGED env => ValuesStay
  BY DEF ValuesStay
<1>1. ASSUME NEW file \in {"server", "voice"}, Generate(file)
      PROVE  IInv' /\ Kept
  <2>1. UNCHANGED <<env, resultKey, gatewayPart, overlapped>>
    BY <1>1 DEF Generate, keyPart, history
  <2>2. TypeOK' /\ EnvInv' /\ KeyInv'
    BY <1>1, GenerateStep DEF Files
  <2> QED
    BY <1>g, <1>k, <1>v, <2>1, <2>2 DEF IInv
<1>2. CASE WriteCredentials
  <2>1. UNCHANGED <<env, resultKey, gatewayPart, overlapped>>
    BY <1>2 DEF WriteCredentials, keyPart, history
  <2> QED
    BY <1>2, <1>g, <1>k, <1>v, <2>1, WriteCredentialsStep DEF IInv
<1>3. CASE WriteEnv
  <2>1. UNCHANGED <<resultKey, gatewayPart, overlapped>>
    BY <1>3 DEF WriteEnv, keyPart, history
  <2> QED
    BY <1>3, <1>g, <1>k, <2>1, WriteEnvStep DEF IInv
<1>4. ASSUME NEW key \in Shared, Mirror(key)
      PROVE  IInv' /\ Kept
  <2>1. UNCHANGED <<resultKey, gatewayPart, overlapped>>
    BY <1>4 DEF Mirror, keyPart
  <2> QED
    BY <1>4, <1>g, <1>k, <2>1, MirrorStep DEF IInv
<1>5. CASE KeyPrograms
  <2>1. UNCHANGED overlapped
    BY <1>5 DEF KeyPrograms, Check, Enable, WriteKey, WriteDropIn, Disable,
       MakeKey, MakeKeyWrites, history
  <2> QED
    BY <1>5, <1>g, <1>k, <1>v, <2>1, KeyStep DEF IInv
<1>6. ASSUME NEW r \in 1 .. 2,
             GatewayRuns(r) \/ GatewayCredentials(r) \/ GatewayEnv(r)
      PROVE  IInv' /\ Kept
  BY <1>6, <1>k, <1>v, GatewayStep
<1>7. CASE Stopped
  BY <1>7, <1>k, <1>v, StoppedStep
<1>8. CASE Operator
  BY <1>8, OperatorStep
<1> QED
  BY <1>1, <1>2, <1>3, <1>4, <1>5, <1>6, <1>7, <1>8 DEF Next, KeyPrograms

(* So does a step that changes nothing.                                    *)
LEMMA StutterStep ==
  ASSUME IInv, UNCHANGED vars
  PROVE  IInv'
<1>1. TypeOK'
  BY DEF IInv, TypeOK, vars, envPart, keyPart, gatewayPart
<1>2. EnvInv' /\ KeyInv'
  BY DEF IInv, EnvInv, KeyInv, TextIsKind, MirrorsTheText, FilesAgree,
     PasswordIsRecorded, KeyIsUsable, IdentityIsUsable, At, Shared, vars,
     envPart, keyPart, history
<1>3. GatewayInv'
  BY DEF IInv, GatewayInv, OneGatewayRun, GatewayCredentialsMatch, vars,
     gatewayPart, history
<1> QED
  BY <1>1, <1>2, <1>3 DEF IInv

-----------------------------------------------------------------------------

(* Every reachable state satisfies the invariant.                          *)
THEOREM Invariance == Spec => []IInv
<1>1. ASSUME IInv, [Next]_vars PROVE IInv'
  BY <1>1, NextStep, StutterStep
<1> QED
  BY InitIInv, <1>1, PTL DEF Spec

(* The administrator's password is recorded before it is in force, in      *)
(* whatever order the programs run and wherever they are stopped           *)
(* (generate_secrets.py, the credentials first).                           *)
THEOREM PasswordStaysRecorded == Spec => []PasswordIsRecorded
<1>1. IInv => PasswordIsRecorded
  BY DEF IInv, EnvInv
<1> QED
  BY Invariance, <1>1, PTL

(* Unless a mirror filled a second line, the two env files never disagree  *)
(* on a shared key (generate_secrets.py --adopt and --mirror).             *)
THEOREM SharedKeysStayEqual == Spec => []SharedKeysAgree
<1>1. IInv => SharedKeysAgree
  BY DEF IInv, EnvInv, FilesAgree, SharedKeysAgree, Agree
<1> QED
  BY Invariance, <1>1, PTL

(* A unit told to use an identity file finds a usable key in it            *)
(* (service_identity.py main).                                             *)
THEOREM IdentityStaysUsable == Spec => []IdentityIsUsable
<1>1. IInv => IdentityIsUsable
  BY DEF IInv, KeyInv
<1> QED
  BY Invariance, <1>1, PTL

(* Unless two of its runs overlapped, the credentials of the bridges are   *)
(* the ones of gateway.env (gateway_env.py main).                          *)
THEOREM GatewayCredentialsDoMatch == Spec => []GatewayCredentialsMatch
<1>1. IInv => GatewayCredentialsMatch
  BY DEF IInv, GatewayInv
<1> QED
  BY Invariance, <1>1, PTL

(* No program changes a value that is not an example (generate_secrets.py  *)
(* fill, make_result_key.py make, gateway_env.py main).                    *)
THEOREM ChoicesDoStay == Spec => ChoicesStay
<1>1. ASSUME IInv, [Next]_vars PROVE [Kept \/ Operator]_vars
  BY <1>1, NextStep
<1> QED
  BY Invariance, <1>1, PTL DEF Spec, ChoicesStay
=============================================================================
