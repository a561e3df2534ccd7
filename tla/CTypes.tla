--------------------------------- MODULE CTypes ---------------------------------
(***************************************************************************)
(* The types of hcc1: their sizes on the target, the layout of structs and *)
(* unions, and the type an arithmetic operation is done in (Lower.hs).     *)
(*                                                                         *)
(* A type is a record with field k.  Sizes are in bytes, and a byte has    *)
(* ByteBits bits: 8 in the code, fewer in a model that counts through all  *)
(* values.  A struct is a tag (looked up in csStructs) or an inline list   *)
(* of fields; a field without a name is an anonymous member.  Floating     *)
(* types are left out, and of the named integer types only size_t is kept. *)
(***************************************************************************)
EXTENDS Integers, Sequences, FiniteSets, SequencesExt

CONSTANT ByteBits

ASSUME ByteBitsAssumption == ByteBits \in Nat \ {0}

VARIABLES
    csTargetBits,   \* 32 or 64
    csStructs       \* tag -> [union, fields]

targetWordSize == IF csTargetBits = 32 THEN 4 ELSE 8

Ty(k) == [k |-> k]
CVoid == Ty("void")
CBool == Ty("bool")
CChar == Ty("char")
CUnsignedChar == Ty("uchar")
CShort == Ty("short")
CUnsignedShort == Ty("ushort")
CInt == Ty("int")
CUnsigned == Ty("uint")
CLong == Ty("long")
CUnsignedLong == Ty("ulong")
CLongLong == Ty("llong")
CUnsignedLongLong == Ty("ullong")
CSizeT == Ty("size_t")
CPtr(ty) == [k |-> "ptr", of |-> ty]
CArray(ty, n) == [k |-> "array", of |-> ty, n |-> n]
CStruct(tag) == [k |-> "struct", tag |-> tag]
CStructDef(fields) == [k |-> "structdef", fields |-> fields]
CUnionDef(fields) == [k |-> "uniondef", fields |-> fields]
CFunc(ret, param) == [k |-> "func", ret |-> ret, param |-> param]
NoType == Ty("none")

Field(ty, name) == [ty |-> ty, name |-> name]
Anonymous == ""

-----------------------------------------------------------------------------
(* Kinds of types *)

SignedKinds == {"char", "short", "int", "long", "llong"}
UnsignedKinds == {"bool", "uchar", "ushort", "uint", "ulong", "ullong", "size_t"}

isIntegerType(ty) == ty.k \in SignedKinds \cup UnsignedKinds
isSignedIntegerType(ty) == ty.k \in SignedKinds
isUnsignedType(ty) == ty.k \in UnsignedKinds \cup {"ptr", "array"}
isAggregateType(ty) == ty.k \in {"array", "struct", "structdef", "uniondef"}

pointerElementType(ty) == IF ty.k \in {"ptr", "array"} THEN ty.of ELSE NoType

-----------------------------------------------------------------------------
(* Layout *)

\* aggregateFields: the members of a struct or union.
aggregateFields(ty) ==
    CASE ty.k = "struct" -> csStructs[ty.tag]
      [] ty.k = "structdef" -> [union |-> FALSE, fields |-> ty.fields]
      [] ty.k = "uniondef" -> [union |-> TRUE, fields |-> ty.fields]
HasFields(ty) == ty.k \in {"struct", "structdef", "uniondef"}

\* A mutant: members are packed.
MutAlignUp(offset, align) == offset

alignUp(offset, align) == offset + ((align - (offset % align)) % align)

Larger(a, b) == IF a >= b THEN a ELSE b

\* typeSize of what is no array, struct or union
scalarSize(ty) ==
    CASE ty.k \in {"void", "bool", "char", "uchar"} -> 1
      [] ty.k \in {"short", "ushort"} -> 2
      [] ty.k \in {"int", "uint"} -> 4
      [] ty.k \in {"llong", "ullong"} -> 8
      [] ty.k \in {"long", "ulong", "size_t", "ptr", "func"} -> targetWordSize

RECURSIVE typeAlign(_), aggregateAlign(_)

\* typeAlign
typeAlign(ty) ==
    CASE ty.k = "array" -> typeAlign(ty.of)
      [] HasFields(ty) -> aggregateAlign(aggregateFields(ty).fields)
      [] OTHER -> scalarSize(ty)

\* aggregateAlign
aggregateAlign(members) ==
    IF members = <<>> THEN 1 ELSE Larger(typeAlign(Head(members).ty), aggregateAlign(Tail(members)))

RECURSIVE typeSize(_), foldAggregateFields(_, _, _), unionFields(_)

\* The size of a struct or union whose members end at f.size.
Padded(f) == alignUp(f.size, f.align)

\* typeSize
typeSize(ty) ==
    CASE ty.k = "array" -> typeSize(ty.of) * ty.n
      [] HasFields(ty) ->
            LET a == aggregateFields(ty)
            IN  Padded(IF a.union THEN unionFields(a.fields) ELSE foldAggregateFields(0, 1, a.fields))
      [] OTHER -> scalarSize(ty)

\* foldAggregateFields: the end of the last member of a struct, and the largest
\* alignment.
foldAggregateFields(offset, maxAlign, members) ==
    IF members = <<>> THEN [size |-> offset, align |-> maxAlign]
    ELSE LET ty == Head(members).ty
         IN  foldAggregateFields(alignUp(offset, typeAlign(ty)) + typeSize(ty),
                                 Larger(maxAlign, typeAlign(ty)), Tail(members))

\* unionFields
unionFields(members) ==
    IF members = <<>> THEN [size |-> 0, align |-> 1]
    ELSE LET rest == unionFields(Tail(members))
             ty == Head(members).ty
         IN  [size |-> Larger(typeSize(ty), rest.size), align |-> Larger(typeAlign(ty), rest.align)]

NoMember == [ty |-> NoType, offset |-> 0]
unionOffset(isUnion, aligned) == IF isUnion THEN 0 ELSE aligned

\* fieldOffset at the top (base 0) and nestedFieldOffset inside an anonymous
\* member: they walk the fields alike, except that the nested walk has already
\* applied the union's offset to what it passes on.
RECURSIVE fieldOffset(_, _, _, _, _)
fieldOffset(base, isUnion, field, offset, fields) ==
    IF fields = <<>> THEN NoMember
    ELSE LET f == Head(fields)
             aligned == alignUp(offset, typeAlign(f.ty))
             at == base + unionOffset(isUnion, aligned)
             inner == IF f.name = Anonymous /\ HasFields(f.ty)
                      THEN LET a == aggregateFields(f.ty)
                           IN  fieldOffset(at, a.union, field, 0, a.fields)
                      ELSE NoMember
         IN  IF f.name = field THEN [ty |-> f.ty, offset |-> at]
             ELSE IF inner # NoMember THEN inner
             ELSE fieldOffset(base, isUnion, field, aligned + typeSize(f.ty), Tail(fields))

\* memberInfoForAggregate
memberInfo(ty, field) ==
    IF ~HasFields(ty) THEN NoMember
    ELSE LET a == aggregateFields(ty) IN fieldOffset(0, a.union, field, 0, a.fields)

-----------------------------------------------------------------------------
(* The type of an operation *)

promoteIntegerType(ty) == IF isIntegerType(ty) /\ scalarSize(ty) < 4 THEN CInt ELSE ty

\* canonicalIntegerType: size_t is the only named integer type here.
canonicalIntegerType(ty) ==
    IF ty # CSizeT THEN ty
    ELSE IF targetWordSize <= 4 THEN CUnsigned ELSE CUnsignedLong

integerRank(ty) == IF ty.k \in {"long", "ulong"} THEN 2
                   ELSE IF ty.k \in {"llong", "ullong"} THEN 3 ELSE 1

correspondingUnsigned(ty) ==
    CASE ty = CInt -> CUnsigned
      [] ty = CLong -> CUnsignedLong
      [] ty = CLongLong -> CUnsignedLongLong
      [] OTHER -> ty

\* A mutant: an unsigned operand makes the result unsigned, whatever its rank.
MutUsual(left, right) ==
    LET larger == IF integerRank(left) >= integerRank(right) THEN left ELSE right
    IN  IF isUnsignedType(left) \/ isUnsignedType(right) THEN correspondingUnsigned(larger) ELSE larger

\* usualArithmeticTypes, of types that have been promoted.
CommonType(left, right) ==
    LET signedTy == IF isUnsignedType(left) THEN right ELSE left
        unsignedTy == IF isUnsignedType(left) THEN left ELSE right
    IN  IF isUnsignedType(left) = isUnsignedType(right)
        THEN IF integerRank(left) >= integerRank(right) THEN left ELSE right
        ELSE IF integerRank(unsignedTy) >= integerRank(signedTy) THEN unsignedTy
        ELSE IF scalarSize(signedTy) > scalarSize(unsignedTy) THEN signedTy
        ELSE correspondingUnsigned(signedTy)
usualArithmeticTypes(left, right) == CommonType(canonicalIntegerType(left), canonicalIntegerType(right))

\* addExprResultType
addExprResultType(left, right, arithmetic) ==
    IF pointerElementType(left) # NoType THEN left
    ELSE IF pointerElementType(right) # NoType THEN right
    ELSE arithmetic

\* subExprResultType
subExprResultType(left, right, arithmetic) ==
    IF pointerElementType(left) = NoType THEN arithmetic
    ELSE IF pointerElementType(right) # NoType THEN CLong ELSE left
=================================================================================
