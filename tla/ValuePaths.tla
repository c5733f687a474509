------------------------------ MODULE ValuePaths ------------------------------
(***************************************************************************)
(* What iot_server takes out of strings: the values of a property, with    *)
(* the rounds of polling and the reports of PropertyValue, and the names   *)
(* of commands, which the cloud sends in between.                          *)
(***************************************************************************)
EXTENDS PropertyValue, CommandParser

CONSTANT Message  \* the messages of the cloud, sequences of fields

ASSUME MessageAssumption == \A fs \in Message : fs \in Seq(Field) /\ Len(fs) \in 1..3

VARIABLES
  message,  \* the message of the cloud the IOT thread is busy with, or <<>>
  heard     \* what the search for the command's name came to

PathsInit == Init /\ message = <<>> /\ heard = FormatError

\* _DS_call_default_command_cb, on the IOT thread inside IOT_Shadow_Yield ...
CommandDelta(fs) ==
  /\ iot = "yield"
  /\ message = <<>>
  /\ message' = fs
  /\ heard' = Parse(Render(fs))
  /\ UNCHANGED vars

\* ... which has told the followers of the command, if any, and returns.
CommandReturns ==
  /\ message # <<>>
  /\ message' = <<>> /\ heard' = FormatError
  /\ UNCHANGED vars

\* Nothing a command does touches a property: what the clients report
\* meanwhile is left for when it has returned.
PathsNext ==
  \/ message = <<>> /\ Next /\ UNCHANGED <<message, heard>>
  \/ \E fs \in Message : CommandDelta(fs)
  \/ CommandReturns

PathsSpec == PathsInit /\ [][PathsNext]_<<vars, message, heard>>

-----------------------------------------------------------------------------
(* Properties.                                                             *)

\* In a message that has the word command as the key of one field and nowhere
\* else as a string, the search finds what that field says, or nothing; and it
\* finds nothing when the field is the last one and its name has no comma.
CommandAsSent ==
  Plain(message) =>
    LET commands == {i \in DOMAIN message : Found(message, i)}
    IN IF commands = {} THEN heard \in {FormatError, TooLong}
                        ELSE \E i \in commands : heard = message[i].text
=============================================================================
