------------------------- MODULE SupportedFunctions -------------------------
(* The functions the driver exports without supporting them                  *)
(* (entry_points.cpp), and what SQLGetFunctions says on macOS                *)
(* (connection.cpp).  SQLColAttributes and SQLColAttribute share one number  *)
(* of the ODBC header files and are one member here.                         *)
EXTENDS FiniteSets

(* Exported functions that only leave a status record on their handle.       *)
UnsupportedCursorFunctions ==
  [STMT |-> {"SetStmtOption", "SetPos", "SetScrollOptions", "BulkOperations"},
   DBC  |-> {"BrowseConnect", "EndTran"},
   ENV  |-> {"EndTran"},
   DESC |-> {}]
UnsupportedParameterFunctions ==
  [STMT |-> {"BindParameter", "DescribeParam", "ParamData", "ParamOptions", "NumParams",
             "PutData"},
   DBC  |-> {},
   ENV  |-> {},
   DESC |-> {"GetDescRec", "SetDescRec"}]

Unsupported(kind) == UnsupportedCursorFunctions[kind] \cup UnsupportedParameterFunctions[kind]

(* SQLGetFunctions for one function: the cases of InternalGetFunctions.  A   *)
(* function that has none leaves the application's value as it was.          *)
SingleCoreFunctions ==
  {"AllocHandle", "GetDescField", "BindCol", "GetDescRec", "Cancel", "GetDiagField",
   "CloseCursor", "GetDiagRec", "ColAttribute", "GetEnvAttr", "Connect", "GetFunctions",
   "CopyDesc", "GetInfo", "DataSources", "GetStmtAttr", "DescribeCol", "GetTypeInfo",
   "Disconnect", "NumResultCols", "Drivers", "ParamData", "EndTran", "Prepare"}
SingleFetchFunctions ==
  {"ExecDirect", "PutData", "Execute", "RowCount", "Fetch", "SetConnectAttr", "FetchScroll",
   "SetCursorName", "FreeHandle", "SetDescField", "FreeStmt", "SetDescRec",
   "GetConnectAttr", "SetEnvAttr", "GetCursorName", "SetStmtAttr", "GetData", "Columns",
   "Statistics", "SpecialColumns", "Tables", "NativeSql", "BrowseConnect", "NumParams",
   "BulkOperations", "PrimaryKeys", "ColumnPrivileges"}
SingleLegacyFunctions ==
  {"ProcedureColumns", "DescribeParam", "Procedures", "DriverConnect", "SetPos",
   "ForeignKeys", "TablePrivileges", "MoreResults", "AllocConnect", "AllocEnv", "AllocStmt",
   "BindParameter", "Error", "ExtendedFetch", "FreeConnect", "FreeEnv", "GetConnectOption",
   "GetStmtOption", "ParamOptions", "SetConnectOption", "SetParam", "SetScrollOptions",
   "SetStmtOption", "Transact"}
GetFunctions == SingleCoreFunctions \cup SingleFetchFunctions \cup SingleLegacyFunctions

(* The bits of SQL_API_ODBC3_ALL_FUNCTIONS.                                  *)
SetODBC3FunctionsValue ==
  {"AllocHandle", "GetDescField", "BindCol", "GetDescRec", "Cancel", "GetDiagField",
   "CloseCursor", "GetDiagRec", "ColAttribute", "GetEnvAttr", "Connect", "GetFunctions",
   "CopyDesc", "GetInfo", "DataSources", "GetStmtAttr", "DescribeCol", "GetTypeInfo",
   "Disconnect", "NumResultCols", "Drivers", "ParamData", "EndTran", "Prepare",
   "ExecDirect", "PutData", "Execute", "RowCount", "Fetch", "SetConnectAttr", "FetchScroll",
   "SetCursorName", "FreeHandle", "SetDescField", "FreeStmt", "SetDescRec",
   "GetConnectAttr", "SetEnvAttr", "GetCursorName", "SetStmtAttr", "GetData", "Columns",
   "Statistics", "SpecialColumns", "Tables", "BindParameter", "NativeSql", "BrowseConnect",
   "NumParams", "BulkOperations", "PrimaryKeys", "ColumnPrivileges", "ProcedureColumns",
   "DescribeParam", "Procedures", "DriverConnect", "SetPos", "ForeignKeys",
   "TablePrivileges", "MoreResults"}

(* The entries of SQL_API_ALL_FUNCTIONS.                                     *)
SetODBC2FunctionsValue ==
  {"AllocConnect", "AllocEnv", "AllocStmt", "BindCol", "BindParameter", "BrowseConnect",
   "Cancel", "ColAttribute", "ColumnPrivileges", "Columns", "Connect", "DataSources",
   "DescribeCol", "DescribeParam", "Disconnect", "DriverConnect", "Drivers", "Error",
   "ExecDirect", "Execute", "ExtendedFetch", "Fetch", "ForeignKeys", "FreeConnect",
   "FreeEnv", "FreeStmt", "GetConnectOption", "GetCursorName", "GetData", "GetFunctions",
   "GetInfo", "GetStmtOption", "GetTypeInfo", "MoreResults", "NativeSql", "NumParams",
   "NumResultCols", "ParamData", "ParamOptions", "Prepare", "PrimaryKeys",
   "ProcedureColumns", "Procedures", "PutData", "RowCount", "SetConnectOption",
   "SetCursorName", "SetParam", "SetPos", "SetScrollOptions", "SetStmtOption",
   "SpecialColumns", "Statistics", "TablePrivileges", "Tables", "Transact"}
=============================================================================
