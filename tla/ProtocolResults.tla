--------------------------- MODULE ProtocolResults ---------------------------
(***************************************************************************)
(* The results of the layers below the application (protocol_result.h,     *)
(* base/protocol_result.cpp), by their values: a result travels in packets *)
(* as its value, next to the results of applications, which begin at 100.  *)
(***************************************************************************)
EXTENDS Naturals

GENERIC_APPLICATION_ERROR_START == 100
SPECIFIC_APPLICATION_ERROR_START == 1000

Success == 0
NotConnected == 1
ClientNetworkEncodingError == 2
ServerNetworkEncodingError == 3
ClientNetworkDecodingError == 4
ServerNetworkDecodingError == 5
ClientTransportEncodingError == 6
ServerTransportEncodingError == 7
ClientTransportDecodingError == 8
ServerTransportDecodingError == 9
ClientProtocolEncodingError == 10
ServerProtocolEncodingError == 11
ClientProtocolDecodingError == 12
ServerProtocolDecodingError == 13
ServerUnsupportedPayloadEncodingError == 14
InvalidRequestIdentifierError == 15
InvalidAsynchronousOperationError == 16
ServerProtocolException == 17
ClientTransportException == 18
AsynchronousProtocolTimeout == 19

\* The results that are not an application's.
ProtocolStatus == Success .. AsynchronousProtocolTimeout

ASSUME CategoriesAssumption ==
  /\ \A s \in ProtocolStatus : s < GENERIC_APPLICATION_ERROR_START
  /\ GENERIC_APPLICATION_ERROR_START < SPECIFIC_APPLICATION_ERROR_START

=============================================================================
