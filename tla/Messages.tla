------------------------------- MODULE Messages -------------------------------
(***************************************************************************)
(* The layouts of nasdaq's types and messages as stse sees them.           *)
(***************************************************************************)
EXTENDS Stse

Plain(t) == [type |-> t, mark |-> "none"]
Ignored(t) == [type |-> t, mark |-> "ignore"]

BigEndian(size) == Aggregate(<< >>, <<Plain(Scalar(size))>>)
ShortString(n) == StaticContainer(Scalar(1), n)
Timestamp == Aggregate(<< >>, <<Plain(StaticContainer(Scalar(1), 6))>>)

PacketSize == BigEndian(2)
MessageType == Scalar(1)
TradeSide == Scalar(1)
Stock == ShortString(8)
MPID == ShortString(4)
LocateCode == BigEndian(2)
TrackingNum == BigEndian(2)
ReferenceNum == BigEndian(8)
NumShares4 == BigEndian(4)
Price4 == BigEndian(4)

HeaderView ==
    Aggregate(<< >>, <<Plain(MessageType), Plain(LocateCode),
                       Ignored(TrackingNum), Ignored(Timestamp)>>)

AddOrderMessage ==
    Aggregate(<< >>, <<Plain(ReferenceNum), Plain(TradeSide), Plain(NumShares4),
                       Plain(Stock), Plain(Price4)>>)

AddOrderMPIDMessage ==
    Aggregate(<< >>, <<Plain(ReferenceNum), Plain(TradeSide), Plain(NumShares4),
                       Plain(Stock), Plain(Price4), Ignored(MPID)>>)

OrderExecutedMessage ==
    Aggregate(<< >>, <<Plain(ReferenceNum), Plain(NumShares4), Ignored(ReferenceNum)>>)

OrderExecutedWithPriceMessage ==
    Aggregate(<< >>, <<Plain(ReferenceNum), Plain(NumShares4), Ignored(ReferenceNum),
                       Ignored(Scalar(1)), Ignored(Price4)>>)

OrderCancelMessage ==
    Aggregate(<< >>, <<Plain(ReferenceNum), Plain(NumShares4)>>)

OrderDeleteMessage == Aggregate(<< >>, <<Plain(ReferenceNum)>>)

OrderReplaceMessage ==
    Aggregate(<< >>, <<Plain(ReferenceNum), Plain(ReferenceNum), Plain(NumShares4),
                       Plain(Price4)>>)

MessageTypes ==
    {PacketSize, HeaderView, AddOrderMessage, AddOrderMPIDMessage,
     OrderExecutedMessage, OrderExecutedWithPriceMessage, OrderCancelMessage,
     OrderDeleteMessage, OrderReplaceMessage}
===============================================================================
