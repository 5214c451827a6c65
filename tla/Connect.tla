------------------------------ MODULE Connect -------------------------------
(***************************************************************************)
(* operator.ExecuteRemote with the callback that installs one server:      *)
(* find a way to log in, dial, put the script and the options into a new   *)
(* directory of the host, run the script, and clean up by deferred calls.  *)
(* The goroutines of a phase do this at the same time and share the        *)
(* terminal of the operator, on which each may ask for the passphrase of   *)
(* the same key.                                                           *)
(*                                                                         *)
(* External: terminal.ReadPassword saves the settings of the terminal,     *)
(* turns echo off, reads a line and writes the saved settings back; the    *)
(* ssh agent; the host, where any command may fail and the link may break  *)
(* before or after a command took effect.                                  *)
(***************************************************************************)
EXTENDS Naturals, FiniteSets

CONSTANT Session    \* the sessions that run at the same time

ASSUME SessionAssumption == IsFiniteSet(Session)

VARIABLES
  password,   \* is there a password (m.sudoPass)?
  key,        \* m.IdentityFile: "", or what the file holds
  agent,      \* the ssh agent: what it can sign with
  at,         \* at[s]: what session s does next
  method,     \* method[s]: how it logs in
  agentConn,  \* agentConn[s]: is its connection to the agent open?
  echo,       \* does the terminal show what is typed?
  saved,      \* saved[s]: the setting ReadPassword will write back
  crossed,    \* have two prompts been open at the same time? (history)
  link,       \* link[s]: the connection to the host
  remote,     \* remote[s]: the session's directory on the host
  ran,        \* ran[s]: has the script run to its end?
  result      \* result[s]: what ExecuteRemote returned

situation == <<password, key, agent>>
terminal  == <<echo, saved, crossed>>
onHost    == <<link, remote, ran>>
connVars  == <<situation, at, method, agentConn, terminal, onHost, result>>

Key   == {"", "unreadable", "malformed", "plain", "protected"}
Agent == {"absent", "empty", "nopub", "others", "holds"}
Where == {"start", "passphrase", "save", "muted", "typed", "dial", "mkdir", "script", "options",
          "run", "remove", "close", "ended"}
AtHost  == {"dial", "mkdir", "script", "options", "run", "remove"}
Prompts == {s \in Session : at[s] \in {"save", "muted", "typed"}}

ConnInit ==
  /\ password = FALSE
  /\ key \in Key
  /\ agent \in Agent
  /\ at = [s \in Session |-> "start"]
  /\ method = [s \in Session |-> "none"]
  /\ agentConn = [s \in Session |-> FALSE]
  /\ echo = TRUE
  /\ saved = [s \in Session |-> TRUE]
  /\ crossed = FALSE
  /\ link = [s \in Session |-> "none"]
  /\ remote = [s \in Session |-> {}]
  /\ ran = [s \in Session |-> FALSE]
  /\ result = [s \in Session |-> "none"]

Goto(s, w) == at' = [at EXCEPT ![s] = w]

(* ExecuteRemote returns.  Its deferred calls close the connection to the  *)
(* agent, except that of privateKeyUsingSSHAgent when no key matched: the  *)
(* closing function it returns at its end closes nothing.                  *)
Return(s, r) ==
  /\ Goto(s, "ended")
  /\ result' = [result EXCEPT ![s] = r]
  /\ agentConn' = [agentConn EXCEPT ![s] = @ /\ key = "protected" /\ agent = "others"]

LogInBy(s, m) ==
  /\ method' = [method EXCEPT ![s] = m]
  /\ Goto(s, "dial")
  /\ UNCHANGED result

-----------------------------------------------------------------------------
(* A password goes before any key. *)
UsePassword(s) ==
  /\ password
  /\ LogInBy(s, "password")
  /\ UNCHANGED agentConn

(* No identity file: every key the agent has. *)
UseAgent(s) ==
  /\ ~ password /\ key = ""
  /\ IF agent \in {"absent", "empty"}
       THEN Return(s, "agent") /\ UNCHANGED method
       ELSE LogInBy(s, "agent") /\ agentConn' = [agentConn EXCEPT ![s] = TRUE]

UsePlainKey(s) ==
  /\ ~ password /\ key = "plain"
  /\ LogInBy(s, "key")
  /\ UNCHANGED agentConn

BadKey(s) ==
  /\ ~ password /\ key \in {"unreadable", "malformed"}
  /\ Return(s, "key")
  /\ UNCHANGED method

(* privateKeyUsingSSHAgent: the agent may hold the key that needs a        *)
(* passphrase.                                                             *)
AskAgent(s) ==
  /\ ~ password /\ key = "protected"
  /\ agentConn' = [agentConn EXCEPT ![s] = agent # "absent"]
  /\ IF agent = "holds"
       THEN LogInBy(s, "agent")
       ELSE Goto(s, "passphrase") /\ UNCHANGED <<method, result>>

(* Mutant: a lock, held while the session lasts, keeps prompts apart. *)
AuthenticateLocked(s) ==
  /\ at[s] = "start"
  /\ \A r \in Session : at[r] \in {"start", "ended"}
  /\ UsePassword(s) \/ UseAgent(s) \/ UsePlainKey(s) \/ BadKey(s) \/ AskAgent(s)
  /\ UNCHANGED <<situation, terminal, onHost>>

Authenticate(s) ==
  /\ at[s] = "start"
  /\ UsePassword(s) \/ UseAgent(s) \/ UsePlainKey(s) \/ BadKey(s) \/ AskAgent(s)
  /\ UNCHANGED <<situation, terminal, onHost>>

(* The steps of terminal.ReadPassword. *)
Save(s) ==
  /\ at[s] = "passphrase"
  /\ saved' = [saved EXCEPT ![s] = echo]
  /\ crossed' = (crossed \/ Prompts # {})
  /\ Goto(s, "save")
  /\ UNCHANGED <<situation, echo, method, agentConn, onHost, result>>

Mute(s) ==
  /\ at[s] = "save"
  /\ echo' = FALSE
  /\ Goto(s, "muted")
  /\ UNCHANGED <<situation, saved, crossed, method, agentConn, onHost, result>>

Type(s) ==
  /\ at[s] = "muted"
  /\ Goto(s, "typed")
  /\ UNCHANGED <<situation, method, agentConn, terminal, onHost, result>>

(* Mutant: a wrong passphrase returns before the terminal is restored. *)
UnmuteIfRight(s) ==
  /\ at[s] = "typed"
  /\ \/ LogInBy(s, "key") /\ echo' = saved[s] /\ UNCHANGED agentConn
     \/ Return(s, "key") /\ UNCHANGED <<echo, method>>
  /\ UNCHANGED <<situation, saved, crossed, onHost>>

(* The line that was typed is the passphrase, or it is not. *)
Unmute(s) ==
  /\ at[s] = "typed"
  /\ echo' = saved[s]
  /\ \/ LogInBy(s, "key") /\ UNCHANGED agentConn
     \/ Return(s, "key") /\ UNCHANGED method
  /\ UNCHANGED <<situation, saved, crossed, onHost>>

-----------------------------------------------------------------------------
(* executeRemote: no timeout is given, a host that is silent holds the     *)
(* session.                                                                *)
Dial(s) ==
  /\ at[s] = "dial"
  /\ \/ /\ link' = [link EXCEPT ![s] = "up"]
        /\ Goto(s, "mkdir")
        /\ UNCHANGED <<result, agentConn>>
     \/ /\ Return(s, "connect")
        /\ UNCHANGED link
  /\ UNCHANGED <<situation, method, terminal, remote, ran>>

(* Mutant: the first command that fails ends the callback at once. *)
CommandReturns(s, here, next, done) ==
  /\ at[s] = here
  /\ \/ Goto(s, next) /\ remote' = [remote EXCEPT ![s] = @ \union done] /\ UNCHANGED <<link, result>>
     \/ /\ remote' \in {remote, [remote EXCEPT ![s] = @ \union done]}
        /\ link' \in {link, [link EXCEPT ![s] = "broken"]}
        /\ result' = [result EXCEPT ![s] = "install"]
        /\ Goto(s, "close")
  /\ UNCHANGED <<situation, method, agentConn, terminal>>

(* A command or an upload of deployComponentInstance: it puts `done` into  *)
(* the directory; an error, with or without its effect, ends the callback, *)
(* whose deferred command still runs.                                      *)
Command(s, here, next, done) ==
  /\ at[s] = here
  /\ \/ Goto(s, next) /\ remote' = [remote EXCEPT ![s] = @ \union done] /\ UNCHANGED <<link, result>>
     \/ /\ remote' \in {remote, [remote EXCEPT ![s] = @ \union done]}
        /\ link' \in {link, [link EXCEPT ![s] = "broken"]}
        /\ result' = [result EXCEPT ![s] = "install"]
        /\ Goto(s, "remove")
  /\ UNCHANGED <<situation, method, agentConn, terminal>>

MakeDir(s)       == Command(s, "mkdir", "script", {"dir"}) /\ UNCHANGED ran
UploadScript(s)  == Command(s, "script", "options", {"script"}) /\ UNCHANGED ran
UploadOptions(s) == Command(s, "options", "run", {"options"}) /\ UNCHANGED ran

(* The script may end well and its exit status be lost with the link. *)
RunScript(s) ==
  /\ Command(s, "run", "remove", {})
  /\ \/ ran' = [ran EXCEPT ![s] = TRUE]
     \/ result'[s] = "install" /\ UNCHANGED ran

(* The deferred rm -rf. *)
RemoveDir(s) ==
  /\ at[s] = "remove"
  /\ \/ /\ link[s] = "up"
        /\ remote' = [remote EXCEPT ![s] = {}]
        /\ UNCHANGED link
     \/ /\ link' = [link EXCEPT ![s] = "broken"]
        /\ remote' \in {remote, [remote EXCEPT ![s] = IF link[s] = "up" THEN {} ELSE @]}
  /\ Goto(s, "close")
  /\ UNCHANGED <<situation, method, agentConn, terminal, ran, result>>

(* The deferred operator.Close() and, unless it closes nothing, closeAgent.*)
Close(s) ==
  /\ at[s] = "close"
  /\ link' = [link EXCEPT ![s] = IF @ = "up" THEN "closed" ELSE @]
  /\ Return(s, IF result[s] = "install" THEN "install" ELSE "ok")
  /\ UNCHANGED <<situation, method, terminal, remote, ran>>

-----------------------------------------------------------------------------
(* The steps that wait for nobody. *)
OwnStep(s) == Authenticate(s) \/ Save(s) \/ Mute(s) \/ Unmute(s) \/ Close(s)

ConnTypeOK ==
  /\ password \in BOOLEAN /\ key \in Key /\ agent \in Agent
  /\ at \in [Session -> Where]
  /\ method \in [Session -> {"none", "password", "agent", "key"}]
  /\ agentConn \in [Session -> BOOLEAN]
  /\ echo \in BOOLEAN /\ saved \in [Session -> BOOLEAN] /\ crossed \in BOOLEAN
  /\ link \in [Session -> {"none", "up", "broken", "closed"}]
  /\ remote \in [Session -> SUBSET {"dir", "script", "options"}]
  /\ ran \in [Session -> BOOLEAN]
  /\ result \in [Session -> {"none", "ok", "agent", "key", "connect", "install"}]

=============================================================================
