------------------------- MODULE ConnectionManager -------------------------
(* ui/connections.rs and ui/connections/password_prompt.rs: the modal that   *)
(* lists the saved connections, connects the session to one of them, and     *)
(* asks for a password when the keyring has lost it. The status line and the *)
(* form's Test button are left out: nothing else depends on them.            *)
(*                                                                           *)
(* An attempt hands a URL to Session::connect_url, whose generation decides  *)
(* whether its outcome is installed (module Session). When the session's     *)
(* task ends the attempt reads the session's state as its own outcome, lets  *)
(* the session introspect, and only then tells the manager. The prompt is an *)
(* entity of its own: the number it has here is its identity.                *)
(*                                                                           *)
(* Definitions named Mut... are faulty variants of the definition they       *)
(* precede, for checking that the properties can fail.                       *)
EXTENDS Naturals, FiniteSets

CONSTANTS Conns,       \* the connections that may be saved
          Files,       \* those of them to an SQLite file
          Passwords, None,
          Unsaved,     \* stands for the connection typed in the form
          MaxAttempts, MaxPrompts   \* bounds

\* The others: their URL holds a password.
Networked == Conns \ Files

\* None is not a record: no prompt is confused with it.
ASSUME NoPromptAssumption == None \notin [no : Nat, conn : Networked, connecting : BOOLEAN]

VARIABLES saved,       \* the rows listed
          keyring,     \* connection -> the password of its URL, or None
          view,        \* "closed", "list" or "form"
          active,      \* ConnectionManagerView::active, a connection or None
          prompt,      \* None, or [no, conn, connecting]
          prompts,     \* prompts opened so far
          attempts,    \* attempts not settled: see Start
          started,     \* attempts so far: Session's connection_generation
          session      \* [state, target]: Session's state, the newest attempt's URL

modalVars == <<saved, keyring, view, prompt, prompts>>
managerVars == <<modalVars, active, attempts, started, session>>

ManagerInit ==
  /\ saved = Conns
  /\ keyring \in [Conns -> Passwords \cup {None}]
  /\ view = "closed"
  /\ active = None
  /\ prompt = None /\ prompts = 0
  /\ attempts = {} /\ started = 0
  /\ session = [state |-> "Empty", target |-> None]

-----------------------------------------------------------------------------
(* Attempts.                                                                 *)

\* Set active and give url to the session: by is what asked for it ("row",
\* "prompt" or "form"), no the prompt's number, save its checkbox; answer will
\* be the server's own.
Start(by, url, no, save) ==
  /\ started < MaxAttempts
  /\ started' = started + 1
  /\ active' = url.conn
  /\ session' = [state |-> "Connecting", target |-> url.conn]
  /\ attempts' = attempts \cup
       {[generation |-> started', by |-> by, url |-> url,
         no |-> no, save |-> save, phase |-> "connecting", answer |-> None]}

NoAttempt == UNCHANGED <<active, attempts, started, session>>

\* connect_and_list_databases ends: apply_connect_outcome installs it unless
\* it has been superseded.
Settle(a) ==
  /\ a.phase = "connecting"
  /\ \E ok \in BOOLEAN :
       /\ attempts' = (attempts \ {a}) \cup {[a EXCEPT !.phase = "settled", !.answer = ok]}
       /\ session' = IF a.generation = started
                     THEN [session EXCEPT !.state = IF ok THEN "Connected" ELSE "Error"]
                     ELSE session
  /\ UNCHANGED <<modalVars, active, started>>

\* Any prompt of the same connection counts as the attempt's own.
MutOwnPrompt(a) == prompt # None /\ prompt.conn = a.url.conn

\* The prompt shown is the one that started the attempt.
OwnPrompt(a) == prompt # None /\ prompt.no = a.no

\* What the manager does with an attempt's outcome.
RowSettled(a, ok) ==
  /\ UNCHANGED <<saved, view, prompt, prompts>>
  /\ IF ok /\ a.save
     THEN keyring' \in {keyring, [keyring EXCEPT ![a.url.conn] = a.url.pw]}
     ELSE UNCHANGED keyring

\* The password is saved if asked, which may fail; an error stays in the
\* prompt; a superseded prompt's outcome is dropped.
PromptSettled(a, ok) ==
  IF ~ OwnPrompt(a) THEN UNCHANGED modalVars
  ELSE IF ok
  THEN /\ IF a.save THEN keyring' \in {keyring, [keyring EXCEPT ![a.url.conn] = a.url.pw]}
                    ELSE UNCHANGED keyring
       /\ prompt' = None
       /\ view' = "closed"
       /\ UNCHANGED <<saved, prompts>>
  ELSE /\ prompt' = [prompt EXCEPT !.connecting = FALSE]
       /\ UNCHANGED <<saved, keyring, view, prompts>>

FormSettled(a, ok) ==
  /\ view' = IF ok THEN "closed" ELSE view
  /\ UNCHANGED <<saved, keyring, prompt, prompts>>

Settled(a, ok) ==
  \/ a.by = "row" /\ RowSettled(a, ok)
  \/ a.by = "prompt" /\ PromptSettled(a, ok)
  \/ a.by = "form" /\ FormSettled(a, ok)

\* spawn_connect after the session's task: the outcome is the session's state
\* by now, whoever brought it there.
ReadConnected(a) ==
  /\ a.phase = "settled"
  /\ session.state = "Connected"
  /\ attempts' = (attempts \ {a}) \cup {[a EXCEPT !.phase = "introspecting"]}
  /\ UNCHANGED <<modalVars, active, started, session>>

ReadError(a) ==
  /\ a.phase = "settled"
  /\ session.state # "Connected"
  /\ attempts' = attempts \ {a}
  /\ Settled(a, FALSE)
  /\ UNCHANGED <<active, started, session>>

\* introspect has been awaited.
Introspected(a) ==
  /\ a.phase = "introspecting"
  /\ attempts' = attempts \ {a}
  /\ Settled(a, TRUE)
  /\ UNCHANGED <<active, started, session>>

-----------------------------------------------------------------------------
(* The modal, reachable while no prompt covers it.                           *)

Open ==
  /\ view = "closed" /\ prompt = None
  /\ view' = "list"
  /\ UNCHANGED <<saved, keyring, prompt, prompts>> /\ NoAttempt

Close ==
  /\ view # "closed" /\ prompt = None
  /\ view' = "closed"
  /\ UNCHANGED <<saved, keyring, prompt, prompts>> /\ NoAttempt

ListShown == view = "list" /\ prompt = None

\* connect_and_close on a row whose URL the keyring has.
ConnectStored(c) ==
  /\ keyring[c] # None
  /\ view' = "closed"
  /\ Start("row", [conn |-> c, pw |-> keyring[c]], 0, FALSE)
  /\ UNCHANGED <<saved, keyring, prompt, prompts>>

\* ... on a file whose URL it has lost: the sanitized URL is the whole URL,
\* and goes back to the keyring.
ConnectFile(c) ==
  /\ c \in Files /\ keyring[c] = None
  /\ view' = "closed"
  /\ \E pw \in Passwords : Start("row", [conn |-> c, pw |-> pw], 0, TRUE)
  /\ UNCHANGED <<saved, keyring, prompt, prompts>>

\* ... on a connection whose password it has lost: the prompt opens, or the
\* edit form when the store has no sanitized URL either.
AskPassword(c) ==
  /\ c \in Networked /\ keyring[c] = None
  /\ \/ /\ prompts < MaxPrompts
        /\ prompts' = prompts + 1
        /\ prompt' = [no |-> prompts', conn |-> c, connecting |-> FALSE]
        /\ UNCHANGED view
     \/ /\ view' = "form"
        /\ UNCHANGED <<prompt, prompts>>
  /\ UNCHANGED <<saved, keyring>> /\ NoAttempt

\* ... with a keyring that cannot be read: only the status says so.
ConnectUnreadable ==
  /\ view' = "closed"
  /\ UNCHANGED <<saved, keyring, prompt, prompts>> /\ NoAttempt

ClickRow(c) ==
  /\ ListShown /\ c \in saved
  /\ ConnectStored(c) \/ ConnectFile(c) \/ AskPassword(c) \/ ConnectUnreadable

\* delete_id, the store's removal succeeding or not.
Delete(c) ==
  /\ ListShown /\ c \in saved
  /\ \/ /\ saved' = saved \ {c}
        /\ keyring' = [keyring EXCEPT ![c] = None]
        /\ active' = IF active = c THEN None ELSE active
     \/ UNCHANGED <<saved, keyring, active>>
  /\ UNCHANGED <<view, prompt, prompts, attempts, started, session>>

\* show_add_form and show_edit_form.
ShowForm ==
  /\ ListShown
  /\ view' = "form"
  /\ UNCHANGED <<saved, keyring, prompt, prompts>> /\ NoAttempt

FormShown == view = "form" /\ prompt = None

CancelForm ==
  /\ FormShown
  /\ view' = "list"
  /\ UNCHANGED <<saved, keyring, prompt, prompts>> /\ NoAttempt

\* add_connection and save_edit, for the connection the form describes.
SaveForm(c, pw) ==
  /\ FormShown
  /\ \/ /\ saved' = saved \cup {c}
        /\ keyring' = [keyring EXCEPT ![c] = pw]
        /\ view' = "list"
     \/ UNCHANGED <<saved, keyring, view>>
  /\ UNCHANGED <<prompt, prompts>> /\ NoAttempt

\* connect_unsaved.
ConnectForm ==
  /\ FormShown
  /\ \E pw \in Passwords : Start("form", [conn |-> Unsaved, pw |-> pw], 0, FALSE)
  /\ UNCHANGED <<saved, keyring, view, prompt, prompts>>

-----------------------------------------------------------------------------
(* The prompt.                                                               *)

\* Enter submits again while an attempt runs.
MutSubmit(pw, save) ==
  /\ prompt # None
  /\ prompt' = [prompt EXCEPT !.connecting = TRUE]
  /\ Start("prompt", [conn |-> prompt.conn, pw |-> pw], prompt.no, save)
  /\ UNCHANGED <<saved, keyring, view, prompts>>

\* PasswordPrompt::submit and attempt_password_prompt_connect; ignored while
\* an attempt runs.
Submit(pw, save) ==
  /\ prompt # None /\ ~ prompt.connecting
  /\ \/ /\ prompt' = [prompt EXCEPT !.connecting = TRUE]
        /\ Start("prompt", [conn |-> prompt.conn, pw |-> pw], prompt.no, save)
     \/ UNCHANGED prompt /\ NoAttempt
  /\ UNCHANGED <<saved, keyring, view, prompts>>

Cancel ==
  /\ prompt # None
  /\ prompt' = None
  /\ view' = "closed"
  /\ UNCHANGED <<saved, keyring, prompts>> /\ NoAttempt

-----------------------------------------------------------------------------

\* The keyring loses an entry.
KeyringLoses(c) ==
  /\ keyring[c] # None
  /\ keyring' = [keyring EXCEPT ![c] = None]
  /\ UNCHANGED <<saved, view, prompt, prompts>> /\ NoAttempt

AttemptStep(a) == Settle(a) \/ ReadConnected(a) \/ ReadError(a) \/ Introspected(a)

ManagerNext ==
  \/ \E a \in attempts : AttemptStep(a)
  \/ Open \/ Close \/ ShowForm \/ CancelForm \/ ConnectForm
  \/ \E c \in Conns : ClickRow(c) \/ Delete(c) \/ KeyringLoses(c)
  \/ \E c \in Conns, pw \in Passwords : SaveForm(c, pw)
  \/ \E pw \in Passwords, save \in BOOLEAN : Submit(pw, save)
  \/ Cancel

ManagerSpec == ManagerInit /\ [][ManagerNext]_managerVars

-----------------------------------------------------------------------------

(* A password goes from the prompt to the keyring only if a server accepted  *)
(* it ("on failure ... nothing is written"): though an attempt reads an      *)
(* outcome that may be another's, the prompt's own attempt is the newest as  *)
(* long as the prompt is shown.                                              *)
OnlyAcceptedIsSaved ==
  [][\A c \in Networked :
       prompt # None /\ keyring'[c] \notin {keyring[c], None} =>
         \E a \in attempts \ attempts' :
           a.answer = TRUE /\ a.url = [conn |-> c, pw |-> keyring'[c]]]_managerVars

(* A prompt is connecting exactly while one attempt of its own is under way, *)
(* however many prompts were cancelled before it with attempts in flight.    *)
PromptHasItsAttempt ==
  prompt # None =>
    Cardinality({a \in attempts : a.by = "prompt" /\ a.no = prompt.no})
      = IF prompt.connecting THEN 1 ELSE 0

(* A prompt closes of itself only over a session connected to its own        *)
(* connection, never while that is being connected, nor after it has failed, *)
(* because the attempt of a prompt cancelled before has come to its end.     *)
PromptClosesConnected ==
  [][prompt # None /\ prompt' = None /\ attempts' # attempts =>
       session = [state |-> "Connected", target |-> prompt.conn]]_managerVars

=============================================================================
