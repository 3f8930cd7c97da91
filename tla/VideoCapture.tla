----------------------------- MODULE VideoCapture -----------------------------
(***************************************************************************)
(* The serial camera: every offset-th publication powers it with a relay,  *)
(* connects to the image server, takes a picture and sends it.  The steps  *)
(* of a shot block the main loop; each of them can fail, and the supply    *)
(* can fail between any two.  Camera and server are external.              *)
(***************************************************************************)
EXTENDS Integers

CONSTANTS
  Offsets,       \* settings an operator sends; 0 is refused
  DefaultOffset, \* OFFSET_MULTIPLE
  CountMod       \* settings are stored and publications counted in a byte: 256

ASSUME VideoAssumption ==
  /\ CountMod \in Nat \ {0}
  /\ Offsets \subseteq Int \ {0}
  /\ DefaultOffset \in 1 .. CountMod - 1

VARIABLES
  shot,          \* the step of takeShot that comes next
  powered,       \* the relay of the camera
  client,        \* the connection to the server is open
  frame,         \* what the server got: nothing, the head, a part of the picture,
                 \* head and end of an empty one, or all to the end
  offset, offsetCount,
  storedOffset,  \* -1: nothing valid
  waited         \* history: publications since the last shot or setting

videoVars == <<shot, powered, client, frame, offset, offsetCount, storedOffset, waited>>

\* off: camera and relay.
Off == powered' = FALSE /\ shot' = "counted"

\* Slip: a failed shot leaves by return.
GiveUpPowered == shot' = "counted" /\ UNCHANGED <<powered, client, frame, offset, offsetCount, storedOffset, waited>>

\* A step of the shot fails: off, and nothing else.
GiveUp ==
  /\ Off
  /\ UNCHANGED <<client, frame, offset, offsetCount, storedOffset, waited>>

\* What a setting is as a byte: what is stored of it, and the divisor.
Cadence(setting) == setting % CountMod

\* init: the stored setting, and the relay's pin is released.
VideoRestart ==
  /\ offset' = IF storedOffset # -1 THEN storedOffset ELSE DefaultOffset
  /\ shot' = "idle"
  /\ powered' = FALSE
  /\ client' = FALSE
  /\ frame' = "nothing"
  /\ offsetCount' = 0
  /\ waited' = 0
  /\ UNCHANGED storedOffset

\* publish with readySend: the count is reset when the shot is over.
VideoCounts ==
  /\ shot = "idle"
  /\ Cadence(offset) # 0
  /\ LET count == (offsetCount + 1) % CountMod
     IN  /\ offsetCount' = count
         /\ shot' = IF count % Cadence(offset) = 0 THEN "power" ELSE "idle"
         /\ waited' = waited + 1
  /\ UNCHANGED <<powered, client, frame, offset, storedOffset>>

\* A setting whose byte is 0 divides by zero, and the exception restarts the
\* board; the stored 0 is loaded and does the same at the next publication.
VideoPublish == VideoCounts \/ (Cadence(offset) = 0 /\ VideoRestart)

\* on with setupCamera: powered, it answers with its version or not.
PowerOn ==
  /\ shot = "power"
  /\ powered' = TRUE
  /\ frame' = "nothing"
  /\ \E answers \in BOOLEAN : shot' = IF answers THEN "connect" ELSE "giveup"
  /\ UNCHANGED <<client, offset, offsetCount, storedOffset, waited>>

\* shotStartUp: repeated for ten seconds.
Connect ==
  /\ shot = "connect"
  /\ \E connects \in BOOLEAN : /\ client' = connects
                               /\ shot' = IF connects THEN "snap" ELSE "giveup"
  /\ UNCHANGED <<powered, frame, offset, offsetCount, storedOffset, waited>>

\* snapPhoto.
Snap ==
  /\ shot = "snap"
  /\ \E taken \in BOOLEAN : shot' = IF taken THEN "head" ELSE "giveup"
  /\ UNCHANGED <<powered, client, frame, offset, offsetCount, storedOffset, waited>>

\* transmitImageData: head, picture and end, each only over an open
\* connection; without one writeBuffer returns a length of 0, and so it does
\* for an empty picture, between a head and an end that are sent.
Transmit ==
  /\ shot = "head"
  /\ \/ client /\ frame' = "end" /\ shot' = "finish" /\ UNCHANGED client
     \/ client /\ frame' = "empty" /\ shot' = "giveup" /\ UNCHANGED client
     \/ /\ client' = FALSE
        /\ shot' = "giveup"
        /\ frame' \in {"nothing", "head"}
     \/ \* the server goes away during the picture: nobody looks at write
        client /\ client' = FALSE /\ frame' = "picture" /\ shot' = "finish"
  /\ UNCHANGED <<powered, offset, offsetCount, storedOffset, waited>>

Fails ==
  /\ shot = "giveup"
  /\ GiveUp

\* disconnect, reset and off.
Finish ==
  /\ shot = "finish"
  /\ client' = FALSE
  /\ Off
  /\ UNCHANGED <<frame, offset, offsetCount, storedOffset, waited>>

ShotOver ==
  /\ shot = "counted"
  /\ shot' = "idle"
  /\ offsetCount' = 0
  /\ waited' = 0
  /\ UNCHANGED <<powered, client, frame, offset, storedOffset>>

\* Slip: what is set is not kept.
SetOffsetUnsaved ==
  /\ shot = "idle"
  /\ \E value \in Offsets : offset' = value
  /\ waited' = 0
  /\ UNCHANGED <<shot, powered, client, frame, offsetCount, storedOffset>>

\* setOffsetMultiple: the setting is kept as it is, and stored as a byte.
SetOffset ==
  /\ shot = "idle"
  /\ \E value \in Offsets : offset' = value /\ storedOffset' = Cadence(value)
  /\ waited' = 0
  /\ UNCHANGED <<shot, powered, client, frame, offsetCount>>

VideoFresh ==
  /\ shot = "idle"
  /\ powered = FALSE
  /\ client = FALSE
  /\ frame = "nothing"
  /\ offset = DefaultOffset
  /\ offsetCount = 0
  /\ storedOffset = -1
  /\ waited = 0

VideoStep == PowerOn \/ Connect \/ Snap \/ Transmit \/ Fails \/ Finish \/ ShotOver

-----------------------------------------------------------------------------
(* Properties *)

VideoTypeOK ==
  /\ shot \in {"idle", "power", "connect", "snap", "head", "giveup", "finish", "counted"}
  /\ powered \in BOOLEAN /\ client \in BOOLEAN
  /\ frame \in {"nothing", "head", "picture", "empty", "end"}
  /\ offset \in Offsets \cup {DefaultOffset} \cup 0 .. CountMod - 1
  /\ offsetCount \in 0 .. CountMod - 1
  /\ storedOffset \in -1 .. CountMod - 1

\* The camera draws power during the steps that need it and never outside a
\* shot, whichever step fails; a connection that is open outside one was left by
\* a shot that failed after it had connected, without a picture or with an empty
\* one: it is closed after a picture (takeShot, off).
CameraIsDark ==
  /\ shot \in {"idle", "counted"} => ~powered
  /\ shot \in {"connect", "snap", "head", "finish"} => powered
  /\ (shot = "idle" /\ client) => frame \notin {"picture", "end"}

\* The cadence in use, which is the byte of the setting, is the one a restart
\* loads; a setting that does not fit a byte is shown until then and another
\* after (setOffsetMultiple, readySend, setOffsetValue).
VideoOffsetStored ==
  Cadence(offset) = IF storedOffset = -1 THEN DefaultOffset ELSE storedOffset

\* No more publications go by without a shot than the byte of the setting says,
\* also when the count wraps and after a new setting; with a byte of 0 there is
\* no shot, but a restart at every publication (readySend).
ShotsInTime == (shot = "idle" /\ Cadence(offset) # 0) => waited < Cadence(offset)
=============================================================================
