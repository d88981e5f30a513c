------------------------------ MODULE Messages ------------------------------
(***************************************************************************)
(* The message schemas the board ships: for every class of snakeros/msg,   *)
(* its _fields_ in order, as [of |-> code, n |-> count].  A code is a      *)
(* primitive's letter (_base.py), "T" for a string, or the class of a      *)
(* nested message; a count is 1 for a field, k for an array of k elements  *)
(* and Unbounded for a sequence.  Field names and constants are left out:  *)
(* neither reaches the wire.  Arrays longer than MaxArray are cut to it.   *)
(***************************************************************************)
EXTENDS Integers, Sequences, TLC

CONSTANT MaxArray
ASSUME MaxArrayAssumption == MaxArray \in Nat \ {0}

Unbounded == -1

Ones(codes) == [i \in DOMAIN codes |-> [of |-> codes[i], n |-> 1]]
Array(code, k) == <<[of |-> code, n |-> IF k <= MaxArray THEN k ELSE MaxArray]>>
Sequence(code) == <<[of |-> code, n |-> Unbounded]>>

BuiltinInterfaces == [Duration |-> Ones(<<"i", "I">>), Time |-> Ones(<<"i", "I">>)]

MultiArray(code) == Ones(<<"MultiArrayLayout">>) \o Sequence(code)

StdMsgs ==
  [ Bool |-> Ones(<<"b">>), Byte |-> Ones(<<"o">>), Char |-> Ones(<<"c">>),
    MultiArrayDimension |-> Ones(<<"T", "I", "I">>),
    MultiArrayLayout |-> Sequence("MultiArrayDimension") \o Ones(<<"I">>),
    ByteMultiArray |-> MultiArray("o"), ColorRGBA |-> Ones(<<"f", "f", "f", "f">>),
    Empty |-> << >>, Float32 |-> Ones(<<"f">>), Float32MultiArray |-> MultiArray("f"),
    Float64 |-> Ones(<<"d">>), Float64MultiArray |-> MultiArray("d"),
    Header |-> Ones(<<"Time", "T">>), Int16 |-> Ones(<<"s">>),
    Int16MultiArray |-> MultiArray("s") ]

StdIntegers ==
  [ Int32 |-> Ones(<<"i">>), Int32MultiArray |-> MultiArray("i"),
    Int64 |-> Ones(<<"l">>), Int64MultiArray |-> MultiArray("l"),
    Int8 |-> Ones(<<"1">>), Int8MultiArray |-> MultiArray("1"),
    String |-> Ones(<<"T">>), UInt16 |-> Ones(<<"S">>),
    UInt16MultiArray |-> MultiArray("S"), UInt32 |-> Ones(<<"I">>),
    UInt32MultiArray |-> MultiArray("I"), UInt64 |-> Ones(<<"L">>),
    UInt64MultiArray |-> MultiArray("L"), UInt8 |-> Ones(<<"o">>),
    UInt8MultiArray |-> MultiArray("o") ]

Stamped(code) == Ones(<<"Header", code>>)
WithCovariance(code) == Ones(<<code>>) \o Array("d", 36)

GeometryMsgs ==
  [ Vector3 |-> Ones(<<"d", "d", "d">>), Accel |-> Ones(<<"Vector3", "Vector3">>),
    AccelStamped |-> Stamped("Accel"), AccelWithCovariance |-> WithCovariance("Accel"),
    AccelWithCovarianceStamped |-> Stamped("AccelWithCovariance"),
    Inertia |-> Ones(<<"d", "Vector3", "d", "d", "d", "d", "d", "d">>),
    InertiaStamped |-> Stamped("Inertia"), Point |-> Ones(<<"d", "d", "d">>),
    Point32 |-> Ones(<<"f", "f", "f">>), PointStamped |-> Stamped("Point"),
    Polygon |-> Sequence("Point32"), PolygonInstance |-> Ones(<<"Polygon", "l">>),
    PolygonInstanceStamped |-> Stamped("PolygonInstance") ]

PoseMsgs ==
  [ PolygonStamped |-> Stamped("Polygon"), Quaternion |-> Ones(<<"d", "d", "d", "d">>),
    Pose |-> Ones(<<"Point", "Quaternion">>), Pose2D |-> Ones(<<"d", "d", "d">>),
    PoseArray |-> Ones(<<"Header">>) \o Sequence("Pose"),
    PoseStamped |-> Stamped("Pose"), PoseWithCovariance |-> WithCovariance("Pose"),
    PoseWithCovarianceStamped |-> Stamped("PoseWithCovariance"),
    QuaternionStamped |-> Stamped("Quaternion"),
    Transform |-> Ones(<<"Vector3", "Quaternion">>),
    TransformStamped |-> Ones(<<"Header", "T", "Transform">>),
    Twist |-> Ones(<<"Vector3", "Vector3">>), TwistStamped |-> Stamped("Twist"),
    TwistWithCovariance |-> WithCovariance("Twist") ]

VelocityMsgs ==
  [ TwistWithCovarianceStamped |-> Stamped("TwistWithCovariance"),
    Vector3Stamped |-> Stamped("Vector3"),
    VelocityStamped |-> Ones(<<"Header", "T", "T", "Twist">>),
    VelocityWithCovarianceStamped |-> Ones(<<"Header", "T", "T", "TwistWithCovariance">>),
    Wrench |-> Ones(<<"Vector3", "Vector3">>), WrenchStamped |-> Stamped("Wrench") ]

SensorMsgs ==
  [ BatteryState |-> Ones(<<"Header", "f", "f", "f", "f", "f", "f", "f", "o", "o", "o", "b">>)
                     \o Sequence("f") \o Sequence("f") \o Ones(<<"T", "T">>),
    FluidPressure |-> Ones(<<"Header", "d", "d">>), Illuminance |-> Ones(<<"Header", "d", "d">>),
    Imu |-> Ones(<<"Header", "Quaternion">>) \o Array("d", 9) \o Ones(<<"Vector3">>)
            \o Array("d", 9) \o Ones(<<"Vector3">>) \o Array("d", 9),
    JointState |-> Ones(<<"Header">>) \o Sequence("T") \o Sequence("d") \o Sequence("d")
                   \o Sequence("d"),
    Joy |-> Ones(<<"Header">>) \o Sequence("f") \o Sequence("i"),
    LaserScan |-> Ones(<<"Header", "f", "f", "f", "f", "f", "f", "f">>)
                  \o Sequence("f") \o Sequence("f") ]

FieldMsgs ==
  [ MagneticField |-> Ones(<<"Header", "Vector3">>) \o Array("d", 9),
    NavSatStatus |-> Ones(<<"1", "S">>),
    NavSatFix |-> Ones(<<"Header", "NavSatStatus", "d", "d", "d">>) \o Array("d", 9)
                  \o Ones(<<"o">>),
    Range |-> Ones(<<"Header", "o", "f", "f", "f", "f", "f">>),
    Temperature |-> Ones(<<"Header", "d", "d">>) ]

NavMsgs ==
  [ Odometry |-> Ones(<<"Header", "T", "PoseWithCovariance", "TwistWithCovariance">>),
    Path |-> Ones(<<"Header">>) \o Sequence("PoseStamped") ]

\* Trigger's halves are as shipped: the request carries the response's fields.
StdSrvs ==
  [ Empty_Request |-> << >>, Empty_Response |-> << >>, SetBool_Request |-> Ones(<<"b">>),
    SetBool_Response |-> Ones(<<"b", "T">>), Trigger_Request |-> Ones(<<"b", "T">>),
    Trigger_Response |-> << >> ]

ParameterMsgs ==
  [ DescribeParameters_Request |-> Sequence("T"),
    FloatingPointRange |-> Ones(<<"d", "d", "d">>), IntegerRange |-> Ones(<<"l", "l", "L">>),
    ParameterDescriptor |-> Ones(<<"T", "o", "T", "T", "b", "b">>)
                            \o Sequence("FloatingPointRange") \o Sequence("IntegerRange"),
    DescribeParameters_Response |-> Sequence("ParameterDescriptor"),
    GetParameterTypes_Request |-> Sequence("T"), GetParameterTypes_Response |-> Sequence("o"),
    GetParameters_Request |-> Sequence("T"),
    ParameterValue |-> Ones(<<"o", "b", "l", "d", "T">>) \o Sequence("o") \o Sequence("b")
                       \o Sequence("l") \o Sequence("d") \o Sequence("T"),
    GetParameters_Response |-> Sequence("ParameterValue"),
    ListParametersResult |-> Sequence("T") \o Sequence("T"),
    ListParameters_Request |-> Sequence("T") \o Ones(<<"L">>),
    ListParameters_Response |-> Ones(<<"ListParametersResult">>) ]

SetParameterMsgs ==
  [ Parameter |-> Ones(<<"T", "ParameterValue">>), ParameterType |-> << >>,
    SetParametersAtomically_Request |-> Sequence("Parameter"),
    SetParametersResult |-> Ones(<<"b", "T">>),
    SetParametersAtomically_Response |-> Ones(<<"SetParametersResult">>),
    SetParameters_Request |-> Sequence("Parameter"),
    SetParameters_Response |-> Sequence("SetParametersResult") ]

Fields == BuiltinInterfaces @@ StdMsgs @@ StdIntegers @@ GeometryMsgs @@ PoseMsgs
          @@ VelocityMsgs @@ SensorMsgs @@ FieldMsgs @@ NavMsgs @@ StdSrvs
          @@ ParameterMsgs @@ SetParameterMsgs

MessageTypes == DOMAIN Fields
=============================================================================
