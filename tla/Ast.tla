--------------------------------- MODULE Ast ---------------------------------
(***************************************************************************)
(* The abstract syntax tree (src/src/ast.h) and its constructors           *)
(* (src/src/ast_alloc.cpp).  A node or an expression is a record with the  *)
(* name of its type as its kind, a list is a sequence, and a part that is  *)
(* left out is Nothing.  Data types are "INT", "UINT", "BOOL", "VOID" or   *)
(* "FUNC" (src/src/type.h).  The constructors leave the data type of all   *)
(* expressions but literals to the checker; it is "VOID" until then.       *)
(***************************************************************************)
EXTENDS Integers, Sequences

Nothing == [kind |-> "nothing"]

-----------------------------------------------------------------------------
(* Expressions *)

bool_exp(value)         == [kind |-> "BOOL", data_type |-> "BOOL", value |-> value]
const_exp(value, type)  == [kind |-> "CONST", data_type |-> type, value |-> value]
var_exp(ident)          == [kind |-> "VAR", data_type |-> "VOID", name |-> ident]
call_exp(ident, args)   == [kind |-> "CALL", data_type |-> "VOID", func |-> ident, args |-> args]
UnaryExp(op, operand) == [kind |-> "UNARY", data_type |-> "VOID", op |-> op, operand |-> operand]
BinaryExp(op, left, right) ==
  [kind |-> "BINARY", data_type |-> "VOID", op |-> op, left |-> left, right |-> right]

\* The operators of the tokens that stand for one.
UnaryOp  == [NOT |-> "NOT", MINUS |-> "NEG"]
BinaryOp ==
  [STAR |-> "MUL", SLASH |-> "DIV", PLUS |-> "ADD", MINUS |-> "SUB",
   EQ |-> "EQ", NE |-> "NE", LT |-> "LT", GT |-> "GT", LE |-> "LE", GE |-> "GE",
   AND |-> "AND", OR |-> "OR"]

Arithmetic == {"MUL", "DIV", "ADD", "SUB"}
Equality   == {"EQ", "NE"}
Order      == {"LT", "GT", "LE", "GE"}
Logical    == {"AND", "OR"}

unary_exp(operand, token)      == UnaryExp(UnaryOp[token], operand)
binary_exp(left, right, token) == BinaryExp(BinaryOp[token], left, right)

-----------------------------------------------------------------------------
(* Statements and functions *)

empty_node               == [kind |-> "EMPTY"]
exp_node(exp)            == [kind |-> "EXP", exp |-> exp]
assign_node(ident, exp)  == [kind |-> "ASSIGN", var |-> ident, value |-> exp]
decl_node(type, ident, init) == [kind |-> "DECL", type |-> type, var |-> ident, init |-> init]
return_node(exp)         == [kind |-> "RETURN", value |-> exp]
if_node(condition, true_stmt, else_stmt) ==
  [kind |-> "IF", condition |-> condition, then |-> true_stmt, else |-> else_stmt]
while_node(condition, stmt) == [kind |-> "WHILE", condition |-> condition, body |-> stmt]
block_node(stmts)        == [kind |-> "BLOCK", stmts |-> stmts]
Param(type, name)        == [type |-> type, name |-> name]

\* A function without a body is external.
func_def_node(ret_type, ident, params, body) ==
  [kind |-> "FUNC_DEF", name |-> ident, params |-> params, ret |-> ret_type, body |-> body]
=============================================================================
