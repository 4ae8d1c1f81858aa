---------------------------- MODULE Diagnostics ----------------------------
(* The diagnostic records every ODBC handle keeps (diagnostic/*.cpp,        *)
(* common_types.cpp) and the functions that read them.  A storage is a      *)
(* header, of which the result is kept, and the sequence of status records. *)
(* A record is its SQLSTATE and whether SQLError has handed it out.  Message *)
(* texts are left out.                                                       *)
EXTENDS Naturals, Sequences, FiniteSets

(* SqlState::Type.                                                          *)
SqlStates ==
  {"01000", "01004", "01S00", "01S01", "01S02", "01S07", "07006", "07009", "08001",
   "08002", "08003", "08004", "08S01", "22002", "22026", "23000", "24000", "25000",
   "34000", "3C000", "3F000", "40001", "42000", "42S01", "42S02", "42S11", "42S12",
   "42S21", "42S22", "HY000", "HY001", "HY003", "HY004", "HY008", "HY009", "HY010",
   "HY016", "HY024", "HY090", "HY091", "HY092", "HY097", "HY105", "HY106", "HYC00",
   "HYT00", "HYT01", "IM001"}

SqlResultToReturnCode(r) ==
  CASE r = "AI_SUCCESS"           -> "SQL_SUCCESS"
    [] r = "AI_SUCCESS_WITH_INFO" -> "SQL_SUCCESS_WITH_INFO"
    [] r = "AI_NO_DATA"           -> "SQL_NO_DATA"
    [] r = "AI_NEED_DATA"         -> "SQL_NEED_DATA"
    [] OTHER                      -> "SQL_ERROR"

DiagnosticRecord(state) == [state |-> state, retrieved |-> FALSE]

(* A state without a case answers the empty STATE_UNKNOWN.                  *)
GetSqlState(rec) == IF rec.state \in {"HY004", "HY008"} THEN "" ELSE rec.state

(* Whether the class of the state is one of ODBC's own, "IM".               *)
GetClassOrigin(rec) ==
  IF GetSqlState(rec) = "IM001" THEN "ODBC 3.0" ELSE "ISO 9075"

(* Of the fixed list, the states of SqlStates.                              *)
GetSubclassOrigin(rec) ==
  IF GetSqlState(rec) \in {"01S00", "01S01", "01S02", "01S07", "08S01", "42S01", "42S02",
                           "42S11", "42S12", "42S21", "42S22", "HY024", "HY097", "HY105",
                           "HYT00", "HYT01", "IM001"}
  THEN "ODBC 3.0" ELSE "ISO 9075"

NewStorage == [result |-> "AI_SUCCESS", records |-> << >>]

SetHeaderRecord(d, result) == [d EXCEPT !.result = result]

AddStatusRecord(d, state) ==
  [d EXCEPT !.records = Append(@, DiagnosticRecord(state))]

Reset(d) == [SetHeaderRecord(d, "AI_ERROR") EXCEPT !.records = << >>]

IsSuccessful(d) == d.result \in {"AI_SUCCESS", "AI_SUCCESS_WITH_INFO"}

GetReturnCode(d) == SqlResultToReturnCode(d.result)

(* IGNITE_ODBC_API_CALL: every handler runs between a reset and the setting *)
(* of the header.  An outcome is a result and the states it adds.           *)
Outcome(result, states) == [result |-> result, states |-> states]
Done         == Outcome("AI_SUCCESS", << >>)
Warned(s)    == Outcome("AI_SUCCESS_WITH_INFO", << s >>)
Failed(s)    == Outcome("AI_ERROR", << s >>)
NoData       == Outcome("AI_NO_DATA", << >>)

ApiCall(d, o) ==
  SetHeaderRecord([Reset(d) EXCEPT !.records =
                     [i \in DOMAIN o.states |-> DiagnosticRecord(o.states[i])]], o.result)

(* Despite its name the first record that was not retrieved, or 0.          *)
GetLastNonRetrieved(d) ==
  LET new == {i \in DOMAIN d.records : ~ d.records[i].retrieved}
  IN IF new = {} THEN 0 ELSE CHOOSE i \in new : \A j \in new : i <= j

HeaderFields == {"CURSOR_ROW_COUNT", "DYNAMIC_FUNCTION", "DYNAMIC_FUNCTION_CODE", "NUMBER",
                 "RETURNCODE", "ROW_COUNT"}
StatusFields == {"CLASS_ORIGIN", "COLUMN_NUMBER", "CONNECTION_NAME", "MESSAGE_TEXT",
                 "NATIVE", "ROW_NUMBER", "SERVER_NAME", "SQLSTATE", "SUBCLASS_ORIGIN"}

(* What GetField answers: the header's fields whatever the record number,    *)
(* a record's fields, no data past the records, an error for other fields.   *)
GetField(d, recNum, field) ==
  LET rec == d.records[recNum]
      value ==
        CASE field = "NUMBER"          -> Len(d.records)
          [] field = "RETURNCODE"      -> GetReturnCode(d)
          [] field = "SQLSTATE"        -> GetSqlState(rec)
          [] field = "CLASS_ORIGIN"    -> GetClassOrigin(rec)
          [] field = "SUBCLASS_ORIGIN" -> GetSubclassOrigin(rec)
          [] OTHER                     -> 0
  IN IF field \in HeaderFields THEN [result |-> "AI_SUCCESS", value |-> value]
     ELSE IF recNum \notin DOMAIN d.records THEN [result |-> "AI_NO_DATA", value |-> 0]
     ELSE IF field \in StatusFields THEN [result |-> "AI_SUCCESS", value |-> value]
     ELSE [result |-> "AI_ERROR", value |-> 0]

(* SQLGetDiagField does not know descriptors.                               *)
DiagField(kind, d, recNum, field) ==
  LET got == IF kind = "DESC" THEN [result |-> "AI_NO_DATA", value |-> 0]
                              ELSE GetField(d, recNum, field)
  IN [code |-> SqlResultToReturnCode(got.result), value |-> got.value]

(* SQLGetDiagRec with a message buffer that is large enough (room) or not,   *)
(* and a place for the length or none.                                       *)
DiagRec(d, recNum, room, msgLen) ==
  IF recNum < 1 THEN [code |-> "SQL_ERROR", value |-> ""]
  ELSE IF recNum > Len(d.records) THEN [code |-> "SQL_NO_DATA", value |-> ""]
  ELSE [code  |-> IF room THEN "SQL_SUCCESS"
                  ELSE IF msgLen THEN "SQL_SUCCESS_WITH_INFO" ELSE "SQL_ERROR",
        value |-> GetSqlState(d.records[recNum])]

(* SQLError hands out the next record and marks it.                          *)
ErrorAnswer(d) ==
  LET n == GetLastNonRetrieved(d)
  IN IF n = 0 THEN [code |-> "SQL_NO_DATA", value |-> ""]
              ELSE [code |-> "SQL_SUCCESS", value |-> GetSqlState(d.records[n])]
MarkRetrieved(d) ==
  LET n == GetLastNonRetrieved(d)
  IN IF n = 0 THEN d ELSE [d EXCEPT !.records[n].retrieved = TRUE]
=============================================================================
