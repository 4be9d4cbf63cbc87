-------------------------------- MODULE Services --------------------------------
(***************************************************************************)
(* Which service a target URL belongs to.  Each service is configured with *)
(* a list of URL prefixes, and with aliases for host names; the ACL chains *)
(* get to know a target only by its service.                               *)
(***************************************************************************)
EXTENDS Naturals, Sequences, FiniteSets

CONSTANTS
    ServiceList,    \* service IDs in the order of the configuration
    PrefixesOf,     \* PrefixesOf[s]: sequence of URL prefixes
    AliasesOf,      \* AliasesOf[s]: function from URLs below an alias of the
                    \* host to the same URLs below its canonical name
    UrlsBelow,      \* UrlsBelow[p]: the target URLs that start with p
    NoService       \* no service ID

ASSUME ServicesAssumption ==
    /\ \A i \in 1..Len(ServiceList) : ServiceList[i] \in DOMAIN PrefixesOf
    /\ NoService \notin DOMAIN PrefixesOf

(* Places in the lists of prefixes, in the order in which they are learned.*)
Places == UNION {{i} \X DOMAIN PrefixesOf[ServiceList[i]] :
                    i \in 1..Len(ServiceList)}

PrefixAt(x) == PrefixesOf[ServiceList[x[1]]][x[2]]

Before(x, y) == x[1] < y[1] \/ (x[1] = y[1] /\ x[2] < y[2])

(* idByPrefix is a Map: a prefix that is set again gets the later service, *)
(* but keeps its place.                                                    *)
IdByPrefix(p) ==
    LET last == CHOOSE x \in Places :
                    /\ PrefixAt(x) = p
                    /\ \A y \in Places : PrefixAt(y) = p => ~Before(x, y)
    IN  ServiceList[last[1]]

(* The first prefix that matches decides, be there a longer one or not.    *)
ServiceByPrefix(url) ==
    LET matches == {x \in Places : url \in UrlsBelow[PrefixAt(x)]}
    IN  IF matches = {} THEN NoService
        ELSE IdByPrefix(PrefixAt(
                CHOOSE x \in matches : \A y \in matches : ~Before(y, x)))

(* lazyMergeTruthyPropInplace() reads the old value from where it reads    *)
(* the new one: the aliases of the last service that has some are in       *)
(* effect, those of earlier ones are lost.                                 *)
EffectiveAliases ==
    LET having == {i \in 1..Len(ServiceList) :
                      DOMAIN AliasesOf[ServiceList[i]] # {}}
    IN  IF having = {} THEN <<>>
        ELSE AliasesOf[ServiceList[CHOOSE i \in having : \A k \in having : k <= i]]

(* A URL that no prefix matches gets another try with its canonical host.  *)
FindServiceByTargetUrl(url) ==
    IF ServiceByPrefix(url) = NoService /\ url \in DOMAIN EffectiveAliases
    THEN ServiceByPrefix(EffectiveAliases[url])
    ELSE ServiceByPrefix(url)
===============================================================================
