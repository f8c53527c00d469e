----------------------------- MODULE MCAccessory -----------------------------
(***************************************************************************)
(* Small instances of the accessory: its captures, and the media tickets   *)
(* between its two chips.  A behaviour is one of either, and the variables *)
(* of the other stay.                                                      *)
(***************************************************************************)
EXTENDS AccessoryCapture, AccessoryMedia

VARIABLE part  \* "capture" or "media"

Every == {"photo", "audio", "video", "av", "speed", "stream", "stream_av"}

Photo == [r \in {"photo"} |-> 2]
Budget(tickets_, invitations, restarts, losses, messages) ==
  [tickets |-> tickets_, invitations |-> invitations, restarts |-> restarts, losses |-> losses, messages |-> messages]
\* A lost message, a restart, a second ticket, a second invitation.
Faults == {Budget(1, 1, 0, 1, 1), Budget(1, 1, 1, 0, 1), Budget(0, 1, 1, 1, 2), Budget(2, 1, 0, 0, 1), Budget(1, 2, 0, 0, 1)}
\* A ticket, and a second question for the key on its way.
Asking == {Budget(1, 1, 0, 0, 2)}
\* For the captures, which have no tickets.
Nothing == Budget(0, 0, 0, 0, 1)

both == <<part, vars, chips>>

CaptureOnly(A) == part = "capture" /\ A /\ UNCHANGED <<part, chips>>
MediaOnly(A) == part = "media" /\ A /\ UNCHANGED <<part, vars>>

EitherInit ==
  /\ Init
  /\ \/ part = "capture" /\ InitWith(Nothing)
     \/ part = "media" /\ MediaInit
EitherNext ==
  \/ part = "capture" /\ Next /\ UNCHANGED <<part, chips>>
  \/ part = "media" /\ MediaNext /\ UNCHANGED <<part, vars>>

\* The fairness of the two modules.
EitherSpec ==
  /\ EitherInit /\ [][EitherNext]_both
  /\ WF_both(CaptureOnly(Capture)) /\ WF_both(CaptureOnly(CameraWorker))
  /\ WF_both(CaptureOnly(AudioWorker)) /\ WF_both(CaptureOnly(Expire))
  /\ WF_both(MediaOnly(AskSync)) /\ WF_both(MediaOnly(Peer))
  /\ WF_both(MediaOnly(Callback)) /\ WF_both(MediaOnly(Complete))

\* Every capture ends, and with a system clock P4 stops asking for the key.
TasksEnd == CapturesEnd /\ SynchronizesInTheEnd
==============================================================================
