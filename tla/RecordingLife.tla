---------------------------- MODULE RecordingLife ----------------------------
(***************************************************************************)
(* What the recordings of a session promise, without tabs, requests,       *)
(* webhooks, sweeps or restarts: a recording's fate is sealed once, by     *)
(* what became of its audio, and it is called deleted when there is no     *)
(* audio left and none to come.                                            *)
(***************************************************************************)
CONSTANT Egresses

VARIABLES
    life,       \* what is said of each recording
    audio       \* what there is of it in the bucket

lifeVars == <<life, audio>>

LifeTypeOK ==
    /\ life \in [Egresses -> {"none", "recording", "available", "failed", "deleted"}]
    /\ audio \in [Egresses -> {"unknown", "coming", "there", "none"}]

LifeInit ==
    /\ life = [e \in Egresses |-> "none"]
    /\ audio = [e \in Egresses |-> "unknown"]

Sealed(e) == life[e] \in {"available", "failed"}

\* It is being recorded, or was by the time that is said.
BeginRecording(e) ==
    /\ life[e] = "none"
    /\ life' = [life EXCEPT ![e] = "recording"]
    /\ \E a \in {"coming", "there", "none"} : audio' = [audio EXCEPT ![e] = a]

\* It could not be started, as far as is known.
GiveUp(e) ==
    /\ life[e] = "none"
    /\ life' = [life EXCEPT ![e] = "failed"]
    /\ UNCHANGED audio

Arrive(e) ==
    /\ audio[e] = "coming"
    /\ \E a \in {"there", "none"} : audio' = [audio EXCEPT ![e] = a]
    /\ UNCHANGED life

\* Once, and only what has audio is available.
Seal(e) ==
    /\ life[e] = "recording"
    /\ audio[e] # "coming"
    /\ \/ audio[e] = "there" /\ life' = [life EXCEPT ![e] = "available"]
       \/ life' = [life EXCEPT ![e] = "failed"]
    /\ UNCHANGED audio

\* The audio of what may still be sealed is left alone.
RemoveAudio(e) ==
    /\ life[e] # "recording"
    /\ audio[e] = "there"
    /\ audio' = [audio EXCEPT ![e] = "none"]
    /\ UNCHANGED life

CallDeleted(e) ==
    /\ Sealed(e)
    /\ audio[e] \in {"none", "unknown"}
    /\ life' = [life EXCEPT ![e] = "deleted"]
    /\ UNCHANGED audio

LifeNext ==
    \E e \in Egresses :
        BeginRecording(e) \/ GiveUp(e) \/ Arrive(e) \/ Seal(e) \/ RemoveAudio(e)
            \/ CallDeleted(e)

LifeSpec == LifeInit /\ [][LifeNext]_lifeVars
=============================================================================
