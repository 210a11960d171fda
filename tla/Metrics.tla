------------------------------- MODULE Metrics -------------------------------
(***************************************************************************)
(* The metrics a collector sends, the families the registry makes of them  *)
(* and the message that goes over the wire (pkg/client/grpc/api.pb.go, the *)
(* same fields as the registry's own types: GetNode and GetGPU convert one *)
(* into the other by way of JSON).                                         *)
(* The names and the values of labels are numbers, for their places in the *)
(* order of the strings.                                                   *)
(***************************************************************************)
EXTENDS Integers, Sequences, SequencesExt

CONSTANTS
  Names,         \* the names of the families
  LabelNames,
  LabelValues,
  Wrapping,      \* the label the registerer adds: "metricType"
  DriverVersion, \* the family of which a label is printed
  Values,        \* the values of the gauges
  NaN,           \* NaN or an infinity
  NIL,
  Collections    \* what the collector may send in one call

MetricType == [COUNTER |-> 0, GAUGE |-> 1, SUMMARY |-> 2, UNTYPED |-> 3,
               HISTOGRAM |-> 4, GAUGE_HISTOGRAM |-> 5]

LabelPair == [name: LabelNames, value: LabelValues]
Gauge     == [value: Values]
Metric    == [label: Seq(LabelPair), gauge: Gauge]

(* A metric on its way to the registry, with the name its Desc has.        *)
ConstMetric == [name: Names, metric: Metric]

(* NewDesc refuses a label twice, wrapDesc one of the wrapping's name, and *)
(* MakeLabelPairs puts them in the order of their names.                   *)
Labelled(label) ==
  /\ \A i, j \in DOMAIN label : i < j => label[i].name < label[j].name
  /\ \A i \in DOMAIN label : label[i].name # Wrapping.name

(* A family has one Desc, and the Descs of a collector have the same       *)
(* labels. The version has one more, after the one that is added.          *)
SameDesc(x, y) ==
  /\ x.name = y.name => Len(x.metric.label) = Len(y.metric.label)
  /\ \A i \in DOMAIN x.metric.label \cap DOMAIN y.metric.label :
       x.metric.label[i].name = y.metric.label[i].name

OfVersion(label) == Len(label) = 3 /\ label[3].name > Wrapping.name

(* What two metrics have in common that are of one GPU or one pod.         *)
SameSource(x, y) == \A i \in DOMAIN x \cap DOMAIN y : x[i] = y[i]

(* Collect sends each family for each GPU, or for each pod.                *)
EachOfEach(ms) ==
  \A i, j \in DOMAIN ms : \E k \in DOMAIN ms :
    ms[k].name = ms[i].name /\ SameSource(ms[k].metric.label, ms[j].metric.label)

ASSUME MetricsAssumption ==
  /\ LabelNames \subseteq Int /\ LabelValues \subseteq Int
  /\ Wrapping \in LabelPair
  /\ NIL \notin Gauge \cup Metric
  /\ Collections \subseteq Seq(ConstMetric)

ASSUME CollectAssumption ==
  \A ms \in Collections :
    /\ \A i \in DOMAIN ms : /\ Labelled(ms[i].metric.label)
                            /\ ms[i].name = DriverVersion => OfVersion(ms[i].metric.label)
    /\ \A i, j \in DOMAIN ms : SameDesc(ms[i], ms[j])
    /\ EachOfEach(ms)

MetricFamily == [name: Names, type: {MetricType.GAUGE}, metric: Seq(Metric)]

(* An answer's Message: a map from names to families.                      *)
EmptyMessage == [n \in {} |-> NIL]

(*--------------------------- the registry's part -------------------------*)

(* sort.Sort of what S holds.                                              *)
Ordered(S, Before(_, _)) ==
  CHOOSE s \in [1 .. Cardinality(S) -> S] :
    IsInjective(s) /\ \A i, j \in DOMAIN s : i < j => ~Before(s[j], s[i])

ByName(p, q) == p.name < q.name

(* A wrapped metric writes itself with one label more, in the order of the *)
(* names.                                                                  *)
Write(m) ==
  [name   |-> m.name,
   metric |-> [label |-> Ordered(ToSet(m.metric.label) \cup {Wrapping}, ByName),
               gauge |-> m.metric.gauge]]

Written(ms) == {Write(ms[i]) : i \in DOMAIN ms}

(* What checkMetricConsistency hashes: the name and the labels.            *)
HashOf(m) == <<m.name, m.metric.label>>

Repeated(ms) == \E i, j \in DOMAIN ms : i < j /\ HashOf(Write(ms[i])) = HashOf(Write(ms[j]))

(* mutant: a family's metrics are in the order of their values *)
LessByValue(x, y) == x.gauge.value < y.gauge.value

(* metricSorter: the shorter labels first, then by their values.           *)
Less(x, y) ==
  IF Len(x.label) # Len(y.label) THEN Len(x.label) < Len(y.label)
  ELSE \E i \in DOMAIN x.label :
         /\ x.label[i].value < y.label[i].value
         /\ \A j \in 1 .. i - 1 : x.label[j].value = y.label[j].value

MetricsOf(n, ms) == {m.metric : m \in {k \in ms : k.name = n}}

Family(n, ms) ==
  [name |-> n, type |-> MetricType.GAUGE, metric |-> Ordered(MetricsOf(n, ms), Less)]

(*--------------------------- the service's part --------------------------*)

(* json.Marshal has no form for NaN and the infinities.                    *)
Encodable(ms) == \A m \in ms : m.metric.gauge.value # NaN

Message(ms) == [n \in {m.name : m \in ms} |-> Family(n, ms)]

(*--------------------------- the reader's part ---------------------------*)

GetGauge(metric) == IF metric = NIL THEN NIL ELSE metric.gauge
GetValue(gauge)  == IF gauge = NIL THEN 0 ELSE gauge.value

(* What Work prints of a family is of its first metric: the value, or, for *)
(* the version of the driver, Label[3].                                    *)
Shown(message, n) ==
  LET first == message[n].metric[1]
  IN  IF n = DriverVersion THEN first.label[4].value ELSE GetValue(GetGauge(first))
=============================================================================
