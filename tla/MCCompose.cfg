SPECIFICATION Spec
CONSTANTS
    f1 = f1
    f2 = f2
    a = a
    b = b
    d = d
    s1 = s1
    Files = {f1, f2}
    Nets = {a, b, d}
    Services = {s1}
    NetsOf <- MCNetsOf
    ServicesOf <- MCServicesOf
    JoinOf <- MCJoinOf
    Explicit <- MCExplicit
    NoSubnet = NoSubnet
    Base = 20
    NoNet = NoNet
    NoGw = NoGw
INVARIANTS
    TypeOK
    DownUndoes
    UpStays
